------------------------------ MODULE Realtime ------------------------------
(***************************************************************************)
(* One embed page and the conversation it shows: the client's controller   *)
(* and transport, the WebSocket connections, and on the server the handler *)
(* of each connection with the service of the conversation behind it.      *)
(*                                                                         *)
(* An action is the code between two awaits.  A promise that settles inside*)
(* the process runs all of its continuations in the same action; what waits*)
(* for Postgres, Redis, a runtime or the network is an action of its own.  *)
(* What the service does in a turn is ConversationTurns; here a turn is    *)
(* the part of it that a connection and a cancel can tell apart.           *)
(***************************************************************************)
EXTENDS Naturals, Sequences

CONSTANTS
    TurnCount,   \* bound: turns the page sends, numbered in the order sent
    OtherTurns,  \* turns of the same conversation that another page runs
    CancelCount, \* bound: how often the user presses Stop
    ConnCount,   \* bound: connections, numbered in the order opened
    MaxRetries,  \* options.maxRetries of the transport
    PageLimit,   \* rows a page load lists (EMBED_EVENTS_DEFAULT_LIMIT)
    SyncLimit,   \* rows a sync lists
    Races,       \* the reads, of "load" and "sync", that an answer may overtake
    None

OwnTurns == 1 .. TurnCount
Turns == OwnTurns \cup OtherTurns
Cancels == 1 .. CancelCount
Conns == 1 .. ConnCount

ASSUME RealtimeAssumption ==
    /\ TurnCount \in Nat /\ CancelCount \in Nat /\ ConnCount \in Nat
    /\ MaxRetries \in Nat /\ PageLimit \in Nat /\ SyncLimit \in Nat
    /\ OtherTurns \cap Nat = {} /\ None \notin Nat /\ None \notin OtherTurns
    /\ Races \subseteq {"load", "sync"}

VARIABLES
    \* the service and the conversation
    log,       \* conversation_events: kind and turn of each row
    running,   \* runningTurns: the turn that has the conversation
    turn,      \* each turn: pc, conn, answer and stop
    \* the connections on the server
    link,      \* is each connection unused, open or lost?
    toServer,  \* commands on their way
    toClient,  \* events on their way
    flag,      \* cancellationRequested
    sync,      \* the conversation.sync each connection is handling
    cancel,    \* each turn.cancel: pc and conn
    \* the page
    phase,     \* where the transport is
    attempt,   \* its reconnect attempts
    ws,        \* its socket
    cursor,    \* lastSeenSequence
    loaded,    \* sequence numbers of the answers on the screen since the load
    shown,     \* ... and of those added to it since, in order
    sending,   \* does the page wait for a turn?
    base,      \* history: where in shown the stream was last started anew, 0: never
    due        \* history: answers a load or a sync found, or a turn reported

service == <<log, running, turn>>
server == <<flag, sync, cancel>>
net == <<link, toServer, toClient>>
page == <<phase, attempt, ws, cursor, loaded, shown, sending, base>>
vars == <<log, running, turn, link, toServer, toClient, flag, sync, cancel,
          phase, attempt, ws, cursor, loaded, shown, sending, base, due>>

NoSync == [pc |-> "none", from |-> 0]

Init ==
    /\ log = <<>> /\ running = None
    /\ turn = [t \in Turns |-> [pc |-> "idle", conn |-> None, answer |-> 0, stop |-> "no"]]
    /\ link = [k \in Conns |-> "unused"]
    /\ toServer = [k \in Conns |-> <<>>] /\ toClient = [k \in Conns |-> <<>>]
    /\ flag = [k \in Conns |-> FALSE]
    /\ sync = [k \in Conns |-> NoSync]
    /\ cancel = [c \in Cancels |-> [pc |-> "idle", conn |-> None]]
    /\ phase = "start" /\ attempt = 0 /\ ws = None
    /\ cursor = 0 /\ loaded = {} /\ shown = <<>> /\ sending = FALSE
    /\ base = 0 /\ due = {}

Row(kind, t) == [kind |-> kind, turn |-> t]

\* Sequence numbers of the answers among the rows after `from` up to `to`.
AnswersIn(from, to) == {p \in from + 1 .. to : log[p].kind = "answer"}

\* An event and the sequence numbers it carries: one of a completed message,
\* those of the messages that a sync sends one after the other, or none.
Event(type, seqs, t) == [type |-> type, seqs |-> seqs, turn |-> t]

\* send: nothing leaves a connection that is not open.
Sent(q, k, events) == IF link[k] = "open" THEN [q EXCEPT ![k] = @ \o events] ELSE q

Pc(t, pc) == [turn EXCEPT ![t].pc = pc]

-----------------------------------------------------------------------------
(***************************************************************************)
(* The end of handleTurnStart once executeTurn has returned: runTurn looks *)
(* at closed and at cancellationRequested before it sends the outcome.     *)
(***************************************************************************)
ReportIgnoringFlag(k, e) ==
    /\ toClient' = Sent(toClient, k, <<e>>)
    /\ due' = IF link[k] = "open" THEN due \cup e.seqs ELSE due
    /\ UNCHANGED flag

Report(k, e) ==
    IF link[k] = "open" /\ flag[k]
    THEN /\ flag' = [flag EXCEPT ![k] = FALSE]
         /\ UNCHANGED <<toClient, due>>
    ELSE ReportIgnoringFlag(k, e)

Outcome(t, e) ==
    IF t \in OwnTurns THEN Report(turn[t].conn, e)
    ELSE UNCHANGED <<flag, toClient, due>>

\* The limiter has admitted the turn, or another page asks for one, and
\* executeTurn has read the row: one turn at a time.
Asking(t) == turn[t].pc = IF t \in OwnTurns THEN "checking" ELSE "idle"

Refuse(t) ==
    /\ Asking(t) /\ running # None
    /\ turn' = Pc(t, "ended")
    /\ Outcome(t, Event("failed", {}, t))
    /\ UNCHANGED <<log, running, link, toServer, sync, cancel, page>>

EnterTurn(t) ==
    /\ Asking(t) /\ running = None
    /\ running' = t
    /\ log' = Append(log, Row("user", t))
    /\ turn' = Pc(t, "opening")
    /\ UNCHANGED <<net, server, page, due>>

\* The runtime is open and is prompted.
Prompt(t) ==
    /\ turn[t].pc = "opening"
    /\ turn' = Pc(t, "prompting")
    /\ UNCHANGED <<log, running, net, server, page, due>>

\* The cancels whose abort of the running turn has been accepted: the flag of
\* their connection is set and turn.cancelled is sent.
Confirm(cs) ==
    LET ks == {cancel[c].conn : c \in cs} IN
    /\ cancel' = [c \in Cancels |-> IF c \in cs THEN [cancel[c] EXCEPT !.pc = "done"] ELSE cancel[c]]
    /\ flag' = [k \in Conns |-> k \in ks \/ flag[k]]
    /\ toClient' = [k \in Conns |-> IF k \in ks /\ link[k] = "open"
                                    THEN Append(toClient[k], Event("cancelled", {}, None)) ELSE toClient[k]]

Stopped(r, cs) == [r EXCEPT !.stop = IF @ = "no" /\ r.conn \in {cancel[c].conn : c \in cs}
                                     THEN "stopped" ELSE @]

\* The prompt ends, with an answer that is persisted or without one; an abort
\* that waited for it is confirmed before the first write returns.
PromptEnds(t) ==
    LET waiting == {c \in Cancels : cancel[c].pc = "aborting"} IN
    /\ turn[t].pc = "prompting"
    /\ \/ /\ "load" \notin Races => phase # "loading"
          /\ log' = Append(log, Row("answer", t))
          /\ turn' = [turn EXCEPT ![t] = Stopped([@ EXCEPT !.pc = "persisting", !.answer = Len(log) + 1], waiting)]
       \/ /\ UNCHANGED log
          /\ turn' = [turn EXCEPT ![t] = Stopped([@ EXCEPT !.pc = "persisting"], waiting)]
    /\ Confirm(waiting)
    /\ UNCHANGED <<running, link, toServer, sync, page, due>>

\* turn/end is written, the conversation is free and the outcome is reported.
Settle(t) ==
    /\ turn[t].pc = "persisting"
    /\ "sync" \notin Races /\ t \in OwnTurns => sync[turn[t].conn].pc = "none"
    /\ log' = Append(log, Row("end", t))
    /\ running' = None
    /\ turn' = Pc(t, "ended")
    /\ Outcome(t, IF turn[t].answer > 0 THEN Event("completed", {turn[t].answer}, t) ELSE Event("failed", {}, t))
    /\ UNCHANGED <<link, toServer, sync, cancel, page>>

-----------------------------------------------------------------------------
HeadIs(q, k, type) == link[k] = "open" /\ q[k] # <<>> /\ q[k][1].type = type
Rest(q, k) == [q EXCEPT ![k] = Tail(@)]

\* handleTurnStart up to the rate limiter.  The turns in flight are those that
\* activeTurnCount counts; turns in flight together share the flag.
InFlight(k) == {u \in Turns : turn[u].conn = k /\ turn[u].pc \notin {"sent", "ended"}}

Started(t, k) ==
    [u \in Turns |->
        LET r == IF u = t THEN [turn[u] EXCEPT !.pc = "checking"] ELSE turn[u]
        IN IF InFlight(k) # {} /\ u \in InFlight(k) \cup {t} THEN [r EXCEPT !.stop = "shared"] ELSE r]

StartKeepingFlag(k) ==
    /\ HeadIs(toServer, k, "start")
    /\ LET t == toServer[k][1].turn IN
       /\ turn' = Started(t, k)
       /\ toClient' = Sent(toClient, k, <<Event("accepted", {}, t)>>)
    /\ toServer' = Rest(toServer, k)
    /\ UNCHANGED <<log, running, link, flag, sync, cancel, page, due>>

Start(k) ==
    /\ HeadIs(toServer, k, "start")
    /\ LET t == toServer[k][1].turn IN
       /\ turn' = Started(t, k)
       /\ toClient' = Sent(toClient, k, <<Event("accepted", {}, t)>>)
    /\ flag' = [flag EXCEPT ![k] = FALSE]
    /\ toServer' = Rest(toServer, k)
    /\ UNCHANGED <<log, running, link, sync, cancel, page, due>>

\* ... the limiter, or the process-wide slots, refuse the turn.
Deny(t) ==
    /\ turn[t].pc = "checking"
    /\ turn' = Pc(t, "ended")
    /\ ReportIgnoringFlag(turn[t].conn, Event("failed", {}, t))
    /\ UNCHANGED <<log, running, link, toServer, sync, cancel, page>>

\* handleTurnCancel: without a turn of this connection there is nothing to do.
CancelIdle(k) ==
    /\ HeadIs(toServer, k, "cancel") /\ InFlight(k) = {}
    /\ cancel' = [cancel EXCEPT ![toServer[k][1].turn].pc = "done"]
    /\ toClient' = Sent(toClient, k, <<Event("failed", {}, None)>>)
    /\ toServer' = Rest(toServer, k)
    /\ UNCHANGED <<service, link, flag, sync, page, due>>

CancelAsked(k) ==
    /\ HeadIs(toServer, k, "cancel") /\ InFlight(k) # {}
    /\ cancel' = [cancel EXCEPT ![toServer[k][1].turn].pc = "reading"]
    /\ toServer' = Rest(toServer, k)
    /\ UNCHANGED <<service, link, toClient, flag, sync, page, due>>

(***************************************************************************)
(* cancelTurn, when the row is read: whatever turn has the conversation by *)
(* now is meant.  Without a runtime to abort (none is open yet, or it has  *)
(* been reset) nothing is cancelled and nothing is said.                   *)
(***************************************************************************)
CancelMisses(c) ==
    /\ cancel[c].pc = "reading"
    /\ running # None => turn[running].pc \in {"opening", "persisting"}
    /\ cancel' = [cancel EXCEPT ![c].pc = "done"]
    /\ UNCHANGED <<service, net, flag, sync, page, due>>

CancelAborts(c) ==
    /\ cancel[c].pc = "reading" /\ running # None /\ turn[running].pc = "prompting"
    /\ cancel' = [cancel EXCEPT ![c].pc = "aborting"]
    /\ UNCHANGED <<service, net, flag, sync, page, due>>

\* The prompt is over but its runtime is still cached: abort returns at once.
CancelLate(c) ==
    /\ cancel[c].pc = "reading" /\ running # None /\ turn[running].pc = "persisting"
    /\ turn' = [turn EXCEPT ![running] = Stopped(@, {c})]
    /\ Confirm({c})
    /\ UNCHANGED <<log, running, link, toServer, sync, page, due>>

\* handleSync: the row is read, then the rows after lastSeenSequence.
SyncAsked(k) ==
    /\ HeadIs(toServer, k, "sync")
    /\ sync' = [sync EXCEPT ![k] = [pc |-> "reading", from |-> toServer[k][1].turn]]
    /\ toServer' = Rest(toServer, k)
    /\ UNCHANGED <<service, link, toClient, flag, cancel, page, due>>

SyncRead(k) ==
    /\ sync[k].pc = "reading"
    /\ sync' = [sync EXCEPT ![k] = IF @.from < Len(log) THEN [@ EXCEPT !.pc = "listing"] ELSE NoSync]
    /\ due' = IF link[k] = "open" THEN due \cup AnswersIn(sync[k].from, Len(log)) ELSE due
    /\ UNCHANGED <<service, net, flag, cancel, page>>

ListedFromNext(from, limit) == {p \in AnswersIn(from + 1, Len(log)) : p <= from + limit}

Listed(from, limit) == {p \in AnswersIn(from, Len(log)) : p <= from + limit}

\* The listed answers are sent; the snapshot after them carries the cursor the
\* page asked with, so the page ignores it.
SyncList(k) ==
    /\ sync[k].pc = "listing"
    /\ LET rows == Listed(sync[k].from, SyncLimit) IN
       toClient' = IF rows = {} THEN toClient ELSE Sent(toClient, k, <<Event("replay", rows, None)>>)
    /\ sync' = [sync EXCEPT ![k] = NoSync]
    /\ UNCHANGED <<service, link, toServer, flag, cancel, page, due>>

-----------------------------------------------------------------------------
\* The connection is lost with everything on its way; the last one is kept.
Lose(k) ==
    /\ link[k] = "open" /\ k < ConnCount
    /\ link' = [link EXCEPT ![k] = "lost"]
    /\ toServer' = [toServer EXCEPT ![k] = <<>>]
    /\ toClient' = [toClient EXCEPT ![k] = <<>>]
    /\ UNCHANGED <<service, server, page, due>>

\* openConversation: GET reads the row and then the first rows of the stream.
LoadRow ==
    /\ phase = "start"
    /\ phase' = "loading" /\ cursor' = Len(log)
    /\ UNCHANGED <<service, net, server, attempt, ws, loaded, shown, sending, base, due>>

LoadList ==
    /\ phase = "loading"
    /\ loaded' = Listed(0, PageLimit)
    /\ due' = AnswersIn(0, cursor)
    /\ phase' = "ticket"
    /\ UNCHANGED <<service, net, server, attempt, ws, cursor, shown, sending, base>>

\* scheduleReconnect.
ScheduleReconnect ==
    IF attempt >= MaxRetries THEN phase' = "closed" /\ UNCHANGED attempt
    ELSE phase' = "waiting" /\ attempt' = attempt + 1

\* openSocket: no ticket; or a ticket, and a socket on the way to open.
NoTicket ==
    /\ phase = "ticket"
    /\ ScheduleReconnect
    /\ UNCHANGED <<service, net, server, ws, cursor, loaded, shown, sending, base, due>>

\* handleOpen: the first command of a connection asks for what it missed.
Open(k) ==
    /\ phase = "ticket" /\ link[k] = "unused" /\ \A j \in Conns : j < k => link[j] # "unused"
    /\ phase' = "open" /\ ws' = k /\ attempt' = 0
    /\ link' = [link EXCEPT ![k] = "open"]
    /\ toServer' = [toServer EXCEPT ![k] = <<Event("sync", {}, cursor)>>]
    /\ UNCHANGED <<service, toClient, server, cursor, loaded, shown, sending, base, due>>

\* handleClose, when the page notices; and the timer.
Closed ==
    /\ phase = "open" /\ link[ws] = "lost"
    /\ ws' = None
    /\ ScheduleReconnect
    /\ UNCHANGED <<service, net, server, cursor, loaded, shown, sending, base, due>>

Retry ==
    /\ phase = "waiting"
    /\ phase' = "ticket"
    /\ UNCHANGED <<service, net, server, attempt, ws, cursor, loaded, shown, sending, base, due>>

\* The reconnect button (controller.reconnect), which the page shows when the
\* transport has given up: connect without a cursor; the screen stays.
Reconnect ==
    /\ phase = "closed"
    /\ phase' = "ticket" /\ attempt' = 0
    /\ cursor' = 0 /\ base' = Len(shown) + 1
    /\ UNCHANGED <<service, net, server, ws, loaded, shown, sending, due>>

\* send: once per turn, never sent again; a socket lost unnoticed swallows it.
Send(t) ==
    /\ t \in OwnTurns /\ turn[t].pc = "idle" /\ \A u \in OwnTurns : u < t => turn[u].pc # "idle"
    /\ phase = "open" /\ ~sending
    /\ sending' = TRUE
    /\ turn' = [turn EXCEPT ![t].pc = "sent", ![t].conn = ws]
    /\ toServer' = Sent(toServer, ws, <<Event("start", {}, t)>>)
    /\ UNCHANGED <<log, running, link, toClient, server, phase, attempt, ws, cursor, loaded, shown, base, due>>

Stop(c) ==
    /\ cancel[c].pc = "idle" /\ \A d \in Cancels : d < c => cancel[d].pc # "idle"
    /\ phase = "open" /\ sending
    /\ cancel' = [cancel EXCEPT ![c] = [pc |-> "sent", conn |-> ws]]
    /\ toServer' = Sent(toServer, ws, <<Event("cancel", {}, c)>>)
    /\ UNCHANGED <<service, link, toClient, flag, sync, page, due>>

\* handleMessage and handleEvent: an event with a sequence number counts once
\* and only above the cursor.
TakeAgain(p) ==
    IF p < cursor THEN UNCHANGED <<cursor, shown, sending>>
    ELSE cursor' = p /\ shown' = Append(shown, p) /\ sending' = FALSE

Take(p) ==
    IF p <= cursor THEN UNCHANGED <<cursor, shown, sending>>
    ELSE cursor' = p /\ shown' = Append(shown, p) /\ sending' = FALSE

Arrives(k) == ws = k /\ link[k] = "open" /\ toClient[k] # <<>>

ReceiveMessage(k) ==
    /\ Arrives(k)
    /\ LET e == toClient[k][1] IN
       \E p \in e.seqs :
           /\ \A q \in e.seqs : p <= q
           /\ Take(p)
           /\ toClient' = IF e.seqs = {p} THEN Rest(toClient, k)
                          ELSE [toClient EXCEPT ![k][1].seqs = @ \ {p}]
    /\ UNCHANGED <<service, link, toServer, server, phase, attempt, ws, loaded, base, due>>

ReceiveStatus(k) ==
    /\ Arrives(k) /\ toClient[k][1].seqs = {}
    /\ sending' = (toClient[k][1].type = "accepted")
    /\ toClient' = Rest(toClient, k)
    /\ UNCHANGED <<service, link, toServer, server, phase, attempt, ws, cursor, loaded, shown, base, due>>

-----------------------------------------------------------------------------
TurnStep(t) ==
    \/ Refuse(t) \/ EnterTurn(t) \/ Prompt(t) \/ PromptEnds(t) \/ Settle(t) \/ Deny(t)

CancelStep(c) == CancelMisses(c) \/ CancelAborts(c) \/ CancelLate(c)

ConnStep(k) ==
    \/ Start(k) \/ CancelIdle(k) \/ CancelAsked(k)
    \/ SyncAsked(k) \/ SyncRead(k) \/ SyncList(k)

PageStep ==
    \/ LoadRow \/ LoadList \/ NoTicket \/ Closed \/ Retry \/ Reconnect
    \/ \E k \in Conns : Open(k) \/ ReceiveMessage(k) \/ ReceiveStatus(k)

Next ==
    \/ \E t \in Turns : TurnStep(t) \/ Send(t)
    \/ \E c \in Cancels : CancelStep(c) \/ Stop(c)
    \/ \E k \in Conns : ConnStep(k) \/ Lose(k)
    \/ PageStep

Spec == Init /\ [][Next]_vars

\* What is on its way arrives and what is asked for returns; users, the other
\* page and the network's losses are free.
FairSpec ==
    /\ Spec
    /\ \A t \in OwnTurns : WF_vars(TurnStep(t))
    /\ \A t \in OtherTurns : WF_vars(turn[t].pc # "idle" /\ TurnStep(t))
    /\ \A c \in Cancels : WF_vars(CancelStep(c))
    /\ \A k \in Conns : WF_vars(ConnStep(k)) /\ WF_vars(ReceiveMessage(k) \/ ReceiveStatus(k))

-----------------------------------------------------------------------------
TypeOK ==
    /\ log \in Seq([kind : {"user", "answer", "end"}, turn : Turns])
    /\ running \in Turns \cup {None}
    /\ turn \in [Turns -> [pc : {"idle", "sent", "checking", "opening", "prompting", "persisting", "ended"},
                           conn : Conns \cup {None}, answer : Nat,
                           stop : {"no", "stopped", "shared"}]]
    /\ link \in [Conns -> {"unused", "open", "lost"}]
    /\ flag \in [Conns -> BOOLEAN]
    /\ cancel \in [Cancels -> [pc : {"idle", "sent", "reading", "aborting", "done"}, conn : Conns \cup {None}]]
    /\ phase \in {"start", "loading", "ticket", "open", "waiting", "closed"}
    /\ attempt \in 0 .. MaxRetries /\ ws \in Conns \cup {None}
    /\ sending \in BOOLEAN
    /\ due \subseteq DOMAIN log /\ base \in 0 .. Len(shown) + 1
    \* the cursor and the screen never run ahead of the conversation
    /\ cursor \in 0 .. Len(log)
    /\ loaded \subseteq AnswersIn(0, Len(log))
    /\ \A i \in DOMAIN shown : shown[i] \in AnswersIn(0, Len(log))

(***************************************************************************)
(* The cursor never passes an answer the page was owed: one that a load or *)
(* a sync found in the stream, or that its own turn reported, is on the    *)
(* screen once lastSeenSequence is beyond it, whatever was lost on the way *)
(* (realtime-transport.ts lines 4-6).                                      *)
(***************************************************************************)
OwedIsShown == \A p \in due : p <= cursor => p \in loaded \/ \E i \in DOMAIN shown : shown[i] = p

(***************************************************************************)
(* Replays and live events put an answer on the screen once and in the     *)
(* order of the conversation, through any number of lost connections and   *)
(* scheduled reconnects: since the user last pressed the reconnect button, *)
(* and with the answers of the page load while it has not been pressed.    *)
(***************************************************************************)
ShownInOrder ==
    \A j \in DOMAIN shown : j >= base =>
        /\ base = 0 => \A p \in loaded : p < shown[j]
        /\ \A i \in 1 .. j - 1 : i >= base => shown[i] < shown[j]

(***************************************************************************)
(* An answer is on the screen once, whichever way the page reconnected: a  *)
(* reconnect syncs from lastSeenSequence and what was seen is dropped      *)
(* (realtime-transport.ts lines 5-7).                                      *)
(***************************************************************************)
ShownOnce ==
    \A j \in DOMAIN shown :
        /\ shown[j] \notin loaded
        /\ \A i \in 1 .. j - 1 : shown[i] # shown[j]

(***************************************************************************)
(* After turn.cancelled the turn itself says nothing more, unless another  *)
(* turn of the connection overlapped it: they share one flag.              *)
(***************************************************************************)
StoppedStaysSilent ==
    \A k \in Conns : \A i \in DOMAIN toClient[k] :
        LET e == toClient[k][i] IN
        e.type \in {"failed", "completed"} /\ e.turn \in Turns => turn[e.turn].stop # "stopped"

(***************************************************************************)
(* A page that waits for a turn stops waiting, by its outcome, its         *)
(* cancellation or a replay, unless the turn's connection is lost.         *)
(***************************************************************************)
SendingEnds ==
    \A t \in OwnTurns :
        sending /\ turn[t].conn # None /\ (\A u \in OwnTurns : u > t => turn[u].pc = "idle")
            ~> ~sending \/ \E k \in Conns : turn[t].conn = k /\ link[k] = "lost"
=============================================================================
