------------------------------ MODULE Sessions ------------------------------
(***************************************************************************)
(* One session of the session server and the clients attached to it: the   *)
(* acquisition and disposal of its runtime (LiveSessionManager), the replay*)
(* log of its progress events (SessionEventLog), and the state of each     *)
(* client (ClientState).                                                   *)
(*                                                                         *)
(* An action is the code between two waits for a runtime, the network or a *)
(* peer.  A progress event is known by its sequence number, a snapshot by  *)
(* the lastSequence it carries and by how many of those events its         *)
(* transcript really has.                                                  *)
(***************************************************************************)
EXTENDS Integers, Sequences, SequencesExt

CONSTANTS
    Clients,
    ConnCount,  \* bound: connections, numbered in the order opened
    AskCount,   \* bound: requests of the clients
    EventCount, \* bound: progress events
    MaxEvents,  \* sessionEventLogMaxEvents
    Strand,     \* may an opener be gone when others wait for its open?
    None

Conns == 1 .. ConnCount

ASSUME SessionsAssumption ==
    /\ ConnCount \in Nat /\ AskCount \in Nat /\ EventCount \in Nat
    /\ MaxEvents \in Nat \ {0}
    /\ None \notin Clients /\ None \notin Nat
    /\ Strand \in BOOLEAN

VARIABLES
    \* the session
    live,     \* its entry of liveSessions: none, ready, terminal, disposing
    opening,  \* requests that wait for the open in flight, the opener first
    waiting,  \* requests that wait for a disposal to end
    member,   \* live.connections
    turn,     \* the connection whose prompt runs
    turns,    \* turns started so far
    last,     \* sequence number of the last progress event
    first,    \* ... and of the oldest one still in the log
    done,     \* events whose items the runtime itself has
    content,  \* events that the transient snapshot has
    turnId,   \* live.currentTurnId
    ids,      \* history: turn id and turn of each event
    \* the server's connections
    link,     \* unused, open, lost (not noticed yet) or closed
    holds,    \* connections whose sessionIds have the session
    replay,   \* the replay each resume is at: array index and afterSequence
    toServer, \* requests on their way
    toClient, \* events and responses on their way
    \* the clients
    conn,     \* the connection of each client
    asks,     \* requests sent so far
    asked,    \* requests it waits for
    attached, \* does it take the session for attached?
    cursor,   \* the sequence number it is at
    view,     \* events in its snapshot or heard since
    heard     \* history: events its listeners were given

session == <<live, opening, waiting, member, turn, turns>>
log == <<last, first, done, content, turnId, ids>>
net == <<link, toServer, toClient>>
client == <<conn, asks, asked, attached, cursor, view, heard>>
vars == <<live, opening, waiting, member, turn, turns, last, first, done, content, turnId, ids,
          link, holds, replay, toServer, toClient,
          conn, asks, asked, attached, cursor, view, heard>>

NoReplay == [index |-> -1, after |-> 0]

Init ==
    /\ live = "none" /\ opening = <<>> /\ waiting = <<>> /\ member = {}
    /\ turn = None /\ turns = 0
    /\ last = 0 /\ first = 1 /\ done = 0 /\ content = 0 /\ turnId = 0 /\ ids = <<>>
    /\ link = [k \in Conns |-> "unused"] /\ holds = {}
    /\ replay = [k \in Conns |-> NoReplay]
    /\ toServer = [k \in Conns |-> <<>>] /\ toClient = [k \in Conns |-> <<>>]
    /\ conn = [c \in Clients |-> None] /\ asks = 0 /\ asked = [c \in Clients |-> {}]
    /\ attached = [c \in Clients |-> FALSE] /\ cursor = [c \in Clients |-> 0]
    /\ view = [c \in Clients |-> {}] /\ heard = [c \in Clients |-> {}]

-----------------------------------------------------------------------------
\* What the server sends; all answers but that of a detach carry a snapshot.
Message(type, of, at) == [type |-> type, of |-> of, attached |-> at, last |-> 0, content |-> 0]
Update(type, of, at, n) == [Message(type, of, at) EXCEPT !.last = last, !.content = n]
Event(seq) == [Message("progress", "none", TRUE) EXCEPT !.last = seq]
Refusal(of) == Message("refusal", of, FALSE)

\* sendMessage to each connection of a set: what is closed gets nothing.
ToAll(q, ks, m) == [k \in Conns |-> IF k \in ks /\ link[k] = "open" THEN Append(q[k], m) ELSE q[k]]
To(q, k, m) == ToAll(q, {k}, m)

Request(command, after) == [command |-> command, after |-> after]
HeadIs(k, commands) == link[k] = "open" /\ toServer[k] # <<>> /\ toServer[k][1].command \in commands
Taken(k) == toServer' = [toServer EXCEPT ![k] = Tail(@)]

Joining(k) == [conn |-> k, request |-> toServer[k][1]]

\* maybeDispose: nobody is connected, nothing runs.
Settled(stage, members, running) ==
    IF stage \in {"ready", "terminal"} /\ members = {} /\ running = None THEN "disposing" ELSE stage

-----------------------------------------------------------------------------
(***************************************************************************)
(* attach, then the answer of an attach or the start of a replay.  The     *)
(* requests in js get hold of the session in this order.                   *)
(***************************************************************************)
OutOfWindow(after) == after > last \/ after < first - 1

Replays(j) == j.request.command = "resume" /\ ~OutOfWindow(j.request.after)

Attach(js) ==
    LET ok == {j \in js : link[j.conn] # "closed"}
        ks == {j.conn : j \in ok}
        fast == {j.conn : j \in {i \in ok : ~Replays(i)}} IN
    /\ member' = member \cup ks
    /\ holds' = holds \cup ks
    /\ replay' = [k \in Conns |->
                    IF \E j \in ok : j.conn = k /\ Replays(j)
                    THEN [index |-> 0, after |-> (CHOOSE j \in ok : j.conn = k /\ Replays(j)).request.after]
                    ELSE replay[k]]
    /\ toClient' = LET q == IF fast = {} THEN toClient ELSE ToAll(toClient, member \cup ks, Update("snapshot", "none", TRUE, content))
                   IN ToAll(q, fast, Update("answer", "attach", TRUE, content))

\* acquire: the session is live, is on its way out, is on its way in, or is
\* opened for this request.
AcquireLive(k) ==
    /\ HeadIs(k, {"attach", "resume"}) /\ live = "ready"
    /\ Attach({Joining(k)})
    /\ Taken(k)
    /\ UNCHANGED <<live, opening, waiting, turn, turns, log, link, client>>

AcquireTerminal(k) ==
    /\ HeadIs(k, {"attach", "resume"}) /\ live = "terminal"
    /\ toClient' = To(toClient, k, Refusal("attach"))
    /\ Taken(k)
    /\ UNCHANGED <<session, log, link, holds, replay, client>>

AcquireLater(k) ==
    /\ HeadIs(k, {"attach", "resume"}) /\ live = "disposing"
    /\ waiting' = Append(waiting, Joining(k))
    /\ Taken(k)
    /\ UNCHANGED <<live, opening, member, turn, turns, log, link, toClient, holds, replay, client>>

AcquireOpening(k) ==
    /\ HeadIs(k, {"attach", "resume"}) /\ live = "none"
    /\ opening' = Append(opening, Joining(k))
    /\ Taken(k)
    /\ UNCHANGED <<live, waiting, member, turn, turns, log, link, toClient, holds, replay, client>>

(***************************************************************************)
(* The runtime is open.  Those who waited attach in turn; when the opener  *)
(* is gone by now, its attach disposes the session under the others.       *)
(***************************************************************************)
Opened ==
    LET gone == link[opening[1].conn] = "closed" IN
    /\ opening # <<>>
    /\ gone /\ ~Strand => \A i \in DOMAIN opening : link[opening[i].conn] = "closed"
    /\ live' = IF gone THEN "disposing" ELSE "ready"
    /\ opening' = <<>>
    /\ Attach(ToSet(opening))
    /\ UNCHANGED <<waiting, turn, turns, log, link, toServer, client>>

OpenFails ==
    /\ opening # <<>>
    /\ opening' = <<>>
    /\ toClient' = ToAll(toClient, {j.conn : j \in ToSet(opening)}, Refusal("attach"))
    /\ UNCHANGED <<live, waiting, member, turn, turns, log, link, toServer, holds, replay, client>>

\* dispose has returned; who waited for it goes round the loop of acquire.
Disposes(stage, next) ==
    /\ live = "disposing"
    /\ live' = stage /\ member' = {} /\ waiting' = <<>>
    /\ opening' = next
    /\ UNCHANGED <<turn, turns, log, net, holds, replay, client>>

DisposeForgetsWaiting == Disposes("none", opening)

DisposeKeepsEntry == Disposes("disposing", <<>>)

DisposeEnds == Disposes("none", opening \o waiting)

-----------------------------------------------------------------------------
\* The replay iterates over the log's own array, which an append may shift.
ReplayNext(k) ==
    LET entry == first + replay[k].index IN
    /\ replay[k] # NoReplay /\ link[k] # "closed" /\ entry <= last
    /\ replay' = [replay EXCEPT ![k].index = @ + 1]
    /\ toClient' = IF entry > replay[k].after THEN To(toClient, k, Event(entry)) ELSE toClient
    /\ UNCHANGED <<session, log, link, toServer, holds, client>>

ReplayEnds(k) ==
    /\ replay[k] # NoReplay
    /\ link[k] = "closed" \/ first + replay[k].index > last
    /\ replay' = [replay EXCEPT ![k] = NoReplay]
    /\ toClient' = To(ToAll(toClient, member, Update("snapshot", "none", TRUE, content)), k,
                      Update("answer", "attach", k \in holds, content))
    /\ UNCHANGED <<session, log, link, toServer, holds, client>>

-----------------------------------------------------------------------------
\* requireAttached: no client of the SDK sends a command that it refuses.
Controls(k) == k \in holds /\ live = "ready"

Prompt(k) ==
    /\ HeadIs(k, {"prompt"}) /\ Controls(k) /\ turn = None
    /\ turn' = k /\ turns' = turns + 1
    /\ turnId' = Len(ids) + 1
    /\ Taken(k)
    /\ UNCHANGED <<live, opening, waiting, member, last, first, done, content, ids,
                   link, toClient, holds, replay, client>>

(***************************************************************************)
(* Any operation during a turn (steer, abort, set_model, a second prompt   *)
(* that is refused) takes the transient snapshot back to what the runtime  *)
(* itself has, and forgets the turn's id when it returns.  The runtime asks*)
(* for a snapshot whatever the operation did; where the session sends one  *)
(* as well, the two are the same.                                          *)
(***************************************************************************)
Operation == content' = done /\ turnId' = 0 /\ UNCHANGED <<last, first, done, ids>>

Busy(k) ==
    /\ HeadIs(k, {"prompt"}) /\ Controls(k) /\ turn # None
    /\ Operation
    /\ toClient' = To(ToAll(toClient, member, Update("snapshot", "none", TRUE, done)), k, Refusal("prompt"))
    /\ Taken(k)
    /\ UNCHANGED <<session, link, holds, replay, client>>

Adjust(k) ==
    /\ HeadIs(k, {"adjust"}) /\ Controls(k)
    /\ Operation
    /\ toClient' = To(ToAll(toClient, member, Update("snapshot", "none", TRUE, done)), k,
                      Update("answer", "adjust", TRUE, done))
    /\ Taken(k)
    /\ UNCHANGED <<session, link, holds, replay, client>>

\* handleRuntimeEvent: append gives the next number and evicts; a delta of a
\* message that the transient snapshot has lost changes nothing there.
Evicted(from, to) == IF to - from + 1 > MaxEvents THEN from + 1 ELSE from

Progress ==
    LET id == IF turnId = 0 THEN Len(ids) + 1 ELSE turnId IN
    /\ turn # None /\ live = "ready" /\ last < EventCount
    /\ last' = last + 1
    /\ first' = Evicted(first, last + 1)
    /\ content' = IF content = last THEN last + 1 ELSE content
    /\ turnId' = id
    /\ ids' = Append(ids, [id |-> id, turn |-> turns])
    /\ toClient' = ToAll(toClient, member, Event(last + 1))
    /\ UNCHANGED <<session, done, link, toServer, holds, replay, client>>

\* The prompt returns: the runtime has everything, the snapshot is sent, and
\* a session that nobody is connected to is disposed.
Ends(told, next) ==
    /\ turn # None
    /\ turn' = None
    /\ done' = last /\ content' = last /\ turnId' = 0
    /\ toClient' = To(ToAll(toClient, told, Update("snapshot", "none", TRUE, last)), turn,
                      Update("answer", "prompt", turn \in holds, last))
    /\ live' = next
    /\ UNCHANGED <<opening, waiting, member, turns, last, first, ids, link, toServer, holds, replay, client>>

EndsSilently == Ends({}, Settled(live, member, None))

TurnEnds == Ends(member, Settled(live, member, None))

Leaves(k, members) ==
    /\ HeadIs(k, {"detach"})
    /\ holds' = holds \ {k}
    /\ member' = members
    /\ toClient' = LET rest == IF k \in holds /\ live = "ready" THEN members ELSE {}
                   IN To(ToAll(toClient, rest, Update("snapshot", "none", TRUE, content)), k,
                         Message("answer", "detach", FALSE))
    /\ live' = IF k \in holds THEN Settled(live, members, turn) ELSE live
    /\ Taken(k)
    /\ UNCHANGED <<opening, waiting, turn, turns, log, link, replay, client>>

DetachByHalf(k) == Leaves(k, member)

Detach(k) == Leaves(k, member \ {k})

\* disconnect, once the server has noticed.
Disconnect(k) ==
    /\ link[k] = "lost"
    /\ link' = [link EXCEPT ![k] = "closed"]
    /\ holds' = holds \ {k} /\ member' = member \ {k}
    /\ live' = IF k \in holds THEN Settled(live, member \ {k}, turn) ELSE live
    /\ UNCHANGED <<opening, waiting, turn, turns, log, toServer, toClient, replay, client>>

\* terminate: after an error of the runtime nobody attaches any more and every
\* connection is closed; each leaves the session when it disconnects.
Terminate ==
    /\ live = "ready" /\ live' = Settled("terminal", member, turn)
    /\ link' = [k \in Conns |-> IF k \in member /\ link[k] = "open" THEN "lost" ELSE link[k]]
    /\ toServer' = [k \in Conns |-> IF k \in member THEN <<>> ELSE toServer[k]]
    /\ toClient' = [k \in Conns |-> IF k \in member THEN <<>> ELSE toClient[k]]
    /\ UNCHANGED <<opening, waiting, member, turn, turns, log, holds, replay, client>>

-----------------------------------------------------------------------------
Connect(c) ==
    /\ conn[c] = None
    /\ \E k \in Conns :
        /\ link[k] = "unused" /\ \A j \in Conns : j < k => link[j] # "unused"
        /\ link' = [link EXCEPT ![k] = "open"]
        /\ conn' = [conn EXCEPT ![c] = k]
    /\ UNCHANGED <<session, log, toServer, toClient, holds, replay, asks, asked, attached, cursor, view, heard>>

\* The client closes or loses its connection, or finds it closed: its requests
\* are rejected, its cursor is kept.
Forget(c) ==
    /\ conn' = [conn EXCEPT ![c] = None]
    /\ asked' = [asked EXCEPT ![c] = {}]
    /\ attached' = [attached EXCEPT ![c] = FALSE]
    /\ UNCHANGED <<asks, cursor, view, heard>>

Drop(c) ==
    /\ conn[c] # None /\ link[conn[c]] = "open"
    /\ link' = [link EXCEPT ![conn[c]] = "lost"]
    /\ toServer' = [toServer EXCEPT ![conn[c]] = <<>>]
    /\ toClient' = [toClient EXCEPT ![conn[c]] = <<>>]
    /\ Forget(c)
    /\ UNCHANGED <<session, log, holds, replay>>

FindClosed(c) ==
    /\ conn[c] # None /\ link[conn[c]] \in {"lost", "closed"}
    /\ Forget(c)
    /\ UNCHANGED <<session, log, net, holds, replay>>

Ask(c, name, request) ==
    /\ conn[c] # None /\ link[conn[c]] = "open" /\ asks < AskCount
    /\ asks' = asks + 1
    /\ asked' = [asked EXCEPT ![c] = @ \cup {name}]
    /\ toServer' = [toServer EXCEPT ![conn[c]] = Append(@, request)]
    /\ UNCHANGED <<session, log, link, toClient, holds, replay, conn, attached, cursor, view, heard>>

\* acquireSession: what the client has seen of the session is resumed.
AskAttach(c) ==
    /\ ~attached[c] /\ asked[c] \cap {"attach", "detach"} = {}
    /\ Ask(c, "attach", IF cursor[c] > 0 THEN Request("resume", cursor[c]) ELSE Request("attach", 0))

AskCommand(c, command) ==
    /\ attached[c] /\ asked[c] \cap {command, "detach"} = {}
    /\ Ask(c, command, Request(command, 0))

\* applyEvent and applyResult: a snapshot sets the cursor, a progress event
\* counts above it only.
Fresh(c, m) == m.last > cursor[c]

TakeSnapshot(c, m) ==
    /\ cursor' = [cursor EXCEPT ![c] = m.last]
    /\ view' = [view EXCEPT ![c] = 1 .. m.content]
    /\ UNCHANGED heard

TakeProgress(c, m) ==
    /\ cursor' = [cursor EXCEPT ![c] = m.last]
    /\ view' = [view EXCEPT ![c] = @ \cup {m.last}]
    /\ heard' = [heard EXCEPT ![c] = @ \cup {m.last}]

Receive(c) ==
    /\ conn[c] # None /\ link[conn[c]] = "open" /\ toClient[conn[c]] # <<>>
    /\ LET m == toClient[conn[c]][1]
           snapshot == m.type = "snapshot" \/ (m.type = "answer" /\ m.of # "detach")
           fresh == m.type = "progress" /\ Fresh(c, m) IN
       /\ \/ snapshot /\ TakeSnapshot(c, m)
          \/ fresh /\ TakeProgress(c, m)
          \/ ~snapshot /\ ~fresh /\ UNCHANGED <<cursor, view, heard>>
       /\ attached' = IF m.type \in {"snapshot", "answer"} THEN [attached EXCEPT ![c] = m.attached] ELSE attached
       /\ asked' = IF m.type \in {"answer", "refusal"} THEN [asked EXCEPT ![c] = @ \ {m.of}] ELSE asked
    /\ toClient' = [toClient EXCEPT ![conn[c]] = Tail(@)]
    /\ UNCHANGED <<session, log, link, toServer, holds, replay, conn, asks>>

-----------------------------------------------------------------------------
Acquire(k) == AcquireLive(k) \/ AcquireTerminal(k) \/ AcquireLater(k) \/ AcquireOpening(k)

Handle(k) == Acquire(k) \/ Prompt(k) \/ Busy(k) \/ Adjust(k) \/ Detach(k)

Replay(k) == ReplayNext(k) \/ ReplayEnds(k)

Next ==
    \/ Opened \/ OpenFails \/ DisposeEnds \/ Progress \/ TurnEnds \/ Terminate
    \/ \E k \in Conns : Handle(k) \/ Replay(k) \/ Disconnect(k)
    \/ \E c \in Clients :
        \/ Connect(c) \/ Drop(c) \/ FindClosed(c) \/ Receive(c)
        \/ AskAttach(c) \/ \E command \in {"prompt", "adjust", "detach"} : AskCommand(c, command)

Spec == Init /\ [][Next]_vars

\* Everything in flight comes back, turns end, lost connections are noticed.
FairSpec ==
    /\ Spec
    /\ WF_vars(Opened \/ OpenFails) /\ WF_vars(DisposeEnds) /\ WF_vars(TurnEnds)
    /\ \A k \in Conns : WF_vars(Handle(k)) /\ WF_vars(Replay(k)) /\ WF_vars(Disconnect(k))
    /\ \A c \in Clients : WF_vars(Receive(c)) /\ WF_vars(FindClosed(c))

-----------------------------------------------------------------------------
TypeOK ==
    /\ live \in {"none", "ready", "terminal", "disposing"}
    /\ turn \in Conns \cup {None} /\ member \subseteq Conns /\ holds \subseteq Conns
    /\ last \in 0 .. EventCount /\ first \in 1 .. last + 1 /\ last - first < MaxEvents
    /\ done \in 0 .. last /\ content \in done .. last
    /\ link \in [Conns -> {"unused", "open", "lost", "closed"}]
    /\ conn \in [Clients -> Conns \cup {None}]
    /\ attached \in [Clients -> BOOLEAN]
    /\ cursor \in [Clients -> 0 .. last]
    /\ \A c \in Clients : view[c] \cup heard[c] \subseteq 1 .. last

(***************************************************************************)
(* A session has one runtime: it is never opened while an earlier runtime  *)
(* of it is live or still being disposed (sessions.ts lines 415-437).      *)
(***************************************************************************)
OneRuntime == opening # <<>> => live = "none"

(***************************************************************************)
(* Nobody works for nothing and nobody is forgotten: the live session's    *)
(* connections are those whose sessionIds have it, and without any, and    *)
(* without a turn, it is on its way out.                                   *)
(***************************************************************************)
HoldersAreMembers ==
    live = "ready" => /\ holds = member
                      /\ member = {} => turn # None

(***************************************************************************)
(* A client that is attached, and to whom nothing is on its way, has every *)
(* event that the server's own snapshot has, by its snapshot or by the     *)
(* events since: replays, live events and snapshots fit together.          *)
(***************************************************************************)
Quiet(c) ==
    /\ conn[c] # None /\ attached[c] /\ link[conn[c]] = "open"
    /\ toClient[conn[c]] = <<>> /\ "attach" \notin asked[c] /\ replay[conn[c]] = NoReplay

QuietAgrees ==
    \A c \in Clients : Quiet(c) /\ conn[c] \in holds /\ live = "ready" /\ content = last => view[c] = 1 .. last

(***************************************************************************)
(* An event reaches the listeners of a client once, over any number of     *)
(* reconnects.                                                             *)
(***************************************************************************)
HeardOnce == \A c \in Clients : \A s \in heard[c] : s <= cursor[c]

(***************************************************************************)
(* The progress events of one turn carry one turn id (client/README.md     *)
(* line 38).  An operation that returns during the turn refutes it.        *)
(***************************************************************************)
StableTurnId == \A i, j \in DOMAIN ids : ids[i].turn = ids[j].turn => ids[i].id = ids[j].id

\* A session nobody is connected to any more is disposed.
Disposed == live = "ready" /\ member = {} ~> live = "none" \/ member # {}

(***************************************************************************)
(* A client that waits for an attachment gets it or an error, or loses its *)
(* connection: also behind an open, a disposal or a replay.                *)
(***************************************************************************)
AttachAnswered == \A c \in Clients : "attach" \in asked[c] ~> "attach" \notin asked[c]
=============================================================================
