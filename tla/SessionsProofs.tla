---------------------------- MODULE SessionsProofs ----------------------------
(***************************************************************************)
(* Theorems about one session of the session server, for any number of     *)
(* clients, connections, requests and events: it is well typed, has one    *)
(* runtime at a time, its connections are those that hold it, and what it  *)
(* sends them adds up to what it has.                                      *)
(***************************************************************************)
EXTENDS Sessions, TLAPS

USE SessionsAssumption

Commands == {"attach", "resume", "prompt", "adjust", "detach"}

Requests == [command : Commands, after : Nat]

Joiners == [conn : Conns, request : Requests]

\* What is on its way to a client speaks of events that have happened.
Messages == [type : {"snapshot", "answer", "progress", "refusal"},
             of : {"none", "attach", "resume", "prompt", "adjust", "detach"},
             attached : BOOLEAN, last : 0 .. last, content : 0 .. last]

-----------------------------------------------------------------------------
(***************************************************************************)
(* The parts of the type invariant.                                        *)
(***************************************************************************)
SessionOK ==
    /\ live \in {"none", "ready", "terminal", "disposing"}
    /\ opening \in Seq(Joiners) /\ waiting \in Seq(Joiners)
    /\ member \subseteq Conns /\ holds \subseteq Conns
    /\ turn \in Conns \cup {None}
    /\ link \in [Conns -> {"unused", "open", "lost", "closed"}]

LogOK ==
    /\ last \in 0 .. EventCount /\ first \in 1 .. last + 1 /\ last - first < MaxEvents
    /\ done \in 0 .. last /\ content \in done .. last

NetOK ==
    /\ toServer \in [Conns -> Seq(Requests)]
    /\ toClient \in [Conns -> Seq(Messages)]
    /\ replay \in [Conns -> [index : Nat \cup {-1}, after : Nat]]

ClientOK ==
    /\ conn \in [Clients -> Conns \cup {None}]
    /\ attached \in [Clients -> BOOLEAN]
    /\ cursor \in [Clients -> 0 .. last]
    /\ view \in [Clients -> SUBSET (1 .. last)]
    /\ heard \in [Clients -> SUBSET (1 .. last)]

Sound == SessionOK /\ LogOK /\ NetOK /\ ClientOK

LEMMA SoundInit == Init => Sound
  <1> SUFFICES ASSUME Init PROVE Sound
    OBVIOUS
  <1>1. SessionOK
    BY DEF Init, SessionOK
  <1>2. LogOK
    BY DEF Init, LogOK
  <1>3. NetOK
    BY DEF Init, NetOK, NoReplay
  <1>4. ClientOK
    BY DEF Init, ClientOK
  <1>5. QED
    BY <1>1, <1>2, <1>3, <1>4 DEF Sound

-----------------------------------------------------------------------------
(***************************************************************************)
(* What is sent.                                                           *)
(***************************************************************************)
LEMMA MessageTyped ==
    ASSUME LogOK, NEW type \in {"snapshot", "answer", "progress", "refusal"},
           NEW of \in {"none", "attach", "resume", "prompt", "adjust", "detach"}, NEW at \in BOOLEAN,
           NEW n \in 0 .. last
    PROVE  Message(type, of, at) \in Messages /\ Update(type, of, at, n) \in Messages
  <1>1. 0 \in 0 .. last /\ last \in 0 .. last
    BY DEF LogOK
  <1>2. QED
    BY <1>1 DEF Message, Update, Messages

LEMMA RefusalTyped ==
    ASSUME LogOK, NEW of \in {"none", "attach", "resume", "prompt", "adjust", "detach"}
    PROVE  Refusal(of) \in Messages
  <1>1. 0 \in 0 .. last /\ FALSE \in BOOLEAN
    BY DEF LogOK
  <1>2. QED
    BY <1>1, MessageTyped DEF Refusal

LEMMA EventTyped ==
    ASSUME LogOK, NEW seq \in 0 .. last
    PROVE  Event(seq) \in Messages
  <1>1. 0 \in 0 .. last
    BY DEF LogOK
  <1>2. QED
    BY <1>1 DEF Event, Message, Messages

LEMMA ToAllTyped ==
    ASSUME NEW S, NEW q \in [Conns -> Seq(S)], NEW ks, NEW m \in S
    PROVE  ToAll(q, ks, m) \in [Conns -> Seq(S)]
  <1>1. \A k \in Conns : Append(q[k], m) \in Seq(S)
    OBVIOUS
  <1>2. QED
    BY <1>1 DEF ToAll

LEMMA ToTyped ==
    ASSUME NEW S, NEW q \in [Conns -> Seq(S)], NEW k, NEW m \in S
    PROVE  To(q, k, m) \in [Conns -> Seq(S)]
  BY ToAllTyped DEF To

\* A snapshot to some, and an answer with one to a connection.
LEMMA TellTyped ==
    ASSUME LogOK, toClient \in [Conns -> Seq(Messages)], NEW ks, NEW k, NEW at,
           NEW of \in {"none", "attach", "resume", "prompt", "adjust", "detach"},
           NEW n \in 0 .. last, at \in BOOLEAN
    PROVE  To(ToAll(toClient, ks, Update("snapshot", "none", TRUE, n)), k, Update("answer", of, at, n))
             \in [Conns -> Seq(Messages)]
  <1>1. Update("snapshot", "none", TRUE, n) \in Messages
    BY MessageTyped
  <1>2. Update("answer", of, at, n) \in Messages
    BY MessageTyped
  <1>3. ToAll(toClient, ks, Update("snapshot", "none", TRUE, n)) \in [Conns -> Seq(Messages)]
    BY <1>1, ToAllTyped
  <1>4. QED
    BY <1>2, <1>3, ToTyped

LEMMA TellInTyped ==
    ASSUME LogOK, toClient \in [Conns -> Seq(Messages)], NEW ks, NEW k, NEW among,
           NEW of \in {"none", "attach", "resume", "prompt", "adjust", "detach"},
           NEW n \in 0 .. last
    PROVE  To(ToAll(toClient, ks, Update("snapshot", "none", TRUE, n)), k, Update("answer", of, k \in among, n))
             \in [Conns -> Seq(Messages)]
  <1>1. CASE k \in among
    <2>1. Update("answer", of, k \in among, n) = Update("answer", of, TRUE, n)
      BY <1>1 DEF Update, Message
    <2>2. TRUE \in BOOLEAN
      OBVIOUS
    <2>3. QED
      BY <2>1, <2>2, TellTyped
  <1>2. CASE k \notin among
    <2>0. (k \in among) = FALSE
      BY <1>2
    <2>1. Update("answer", of, k \in among, n) = Update("answer", of, FALSE, n)
      BY <2>0, Zenon
    <2>2. FALSE \in BOOLEAN
      OBVIOUS
    <2>3. QED
      BY <2>1, <2>2, TellTyped
  <1>3. QED
    BY <1>1, <1>2

\* The request a connection's handler takes.
LEMMA HeadTyped ==
    ASSUME NetOK, NEW k \in Conns, NEW commands, HeadIs(k, commands)
    PROVE  /\ toServer[k][1] \in Requests /\ toServer[k][1].command \in commands
           /\ Joining(k) \in Joiners
           /\ [toServer EXCEPT ![k] = Tail(@)] \in [Conns -> Seq(Requests)]
           /\ link[k] = "open"
  <1>1. toServer[k] # <<>> /\ toServer[k] \in Seq(Requests)
    BY DEF HeadIs, NetOK
  <1>2. toServer[k][1] \in Requests
    BY <1>1
  <1>3. Tail(toServer[k]) \in Seq(Requests)
    BY <1>1
  <1>4. QED
    BY <1>2, <1>3 DEF HeadIs, Joining, Joiners, NetOK

\* An attach adds connections that are not closed, to both sets.
LEMMA AttachTyped ==
    ASSUME Sound, NEW js \in SUBSET Joiners, Attach(js)
    PROVE  /\ \E ks \in SUBSET Conns : member' = member \cup ks /\ holds' = holds \cup ks
           /\ replay' \in [Conns -> [index : Nat \cup {-1}, after : Nat]]
           /\ toClient' \in [Conns -> Seq(Messages)]
  <1> DEFINE ok == {j \in js : link[j.conn] # "closed"}
             ks == {j.conn : j \in ok}
             fast == {j.conn : j \in {i \in ok : ~Replays(i)}}
             snapshot == Update("snapshot", "none", TRUE, content)
             answer == Update("answer", "attach", TRUE, content)
  <1>1. ks \subseteq Conns
    BY DEF Joiners
  <1>2. member' = member \cup ks /\ holds' = holds \cup ks
    BY DEF Attach
  <1>3. snapshot \in Messages /\ answer \in Messages
    <2>1. content \in 0 .. last /\ TRUE \in BOOLEAN /\ LogOK
      BY DEF Sound, LogOK
    <2>2. Update("snapshot", "none", TRUE, content) \in Messages
      BY <2>1, MessageTyped
    <2>3. Update("answer", "attach", TRUE, content) \in Messages
      BY <2>1, MessageTyped
    <2>4. QED
      BY <2>2, <2>3
  <1>4. toClient' \in [Conns -> Seq(Messages)]
    <2> DEFINE q == IF fast = {} THEN toClient ELSE ToAll(toClient, member \cup ks, snapshot)
    <2>1. q \in [Conns -> Seq(Messages)]
      BY <1>3, ToAllTyped DEF Sound, NetOK
    <2>2. toClient' = ToAll(q, fast, answer)
      BY DEF Attach
    <2> HIDE DEF q, fast, answer
    <2>3. QED
      BY <1>3, <2>1, <2>2, ToAllTyped
  <1>5. replay' \in [Conns -> [index : Nat \cup {-1}, after : Nat]]
    <2>1. ASSUME NEW k \in Conns, \E j \in ok : j.conn = k /\ Replays(j)
          PROVE  (CHOOSE j \in ok : j.conn = k /\ Replays(j)).request.after \in Nat
      <3>1. (CHOOSE j \in ok : j.conn = k /\ Replays(j)) \in ok
        BY <2>1
      <3>2. QED
        BY <3>1 DEF Joiners, Requests
    <2>2. \A k \in Conns : replay[k] \in [index : Nat \cup {-1}, after : Nat]
      BY DEF Sound, NetOK
    <2>3. QED
      BY <2>1, <2>2 DEF Attach
  <1>6. QED
    BY <1>1, <1>2, <1>4, <1>5

\* The four parts, when the parts of the state they speak of keep still.
LEMMA KeepsLog == ASSUME LogOK, UNCHANGED log PROVE LogOK' /\ Messages' = Messages
  BY DEF LogOK, log, Messages

LEMMA KeepsClient == ASSUME ClientOK, UNCHANGED <<last, client>> PROVE ClientOK'
  BY DEF ClientOK, client

LEMMA NetTyped ==
    ASSUME UNCHANGED last,
           toServer' \in [Conns -> Seq(Requests)], toClient' \in [Conns -> Seq(Messages)],
           replay' \in [Conns -> [index : Nat \cup {-1}, after : Nat]]
    PROVE  NetOK'
  BY DEF NetOK, Messages

-----------------------------------------------------------------------------
(***************************************************************************)
(* Every step keeps the parts.                                             *)
(***************************************************************************)
LEMMA AcquireSound == ASSUME Sound, NEW k \in Conns, Acquire(k) PROVE Sound'
  <1> USE DEF Sound
  <1>1. CASE AcquireLive(k)
    <2>1. HeadIs(k, {"attach", "resume"}) /\ Attach({Joining(k)}) /\ Taken(k)
          /\ UNCHANGED <<live, opening, waiting, turn, turns, log, link, client>>
      BY <1>1 DEF AcquireLive
    <2>2. Joining(k) \in Joiners /\ toServer' \in [Conns -> Seq(Requests)]
      BY <2>1, HeadTyped DEF Taken
    <2>3. {Joining(k)} \in SUBSET Joiners
      BY <2>2
    <2>4. /\ \E ks \in SUBSET Conns : member' = member \cup ks /\ holds' = holds \cup ks
          /\ replay' \in [Conns -> [index : Nat \cup {-1}, after : Nat]]
          /\ toClient' \in [Conns -> Seq(Messages)]
      BY <2>1, <2>3, AttachTyped
    <2>5. SessionOK'
      BY <2>1, <2>4 DEF SessionOK
    <2>6. QED
      BY <2>1, <2>2, <2>4, <2>5, KeepsLog, KeepsClient, NetTyped DEF log
  <1>2. CASE AcquireTerminal(k)
    <2>1. HeadIs(k, {"attach", "resume"}) /\ Taken(k) /\ toClient' = To(toClient, k, Refusal("attach"))
          /\ UNCHANGED <<session, log, link, holds, replay, client>>
      BY <1>2 DEF AcquireTerminal
    <2>2. toServer' \in [Conns -> Seq(Requests)]
      BY <2>1, HeadTyped DEF Taken
    <2>3. toClient' \in [Conns -> Seq(Messages)]
      BY <2>1, RefusalTyped, ToTyped DEF NetOK
    <2>4. SessionOK'
      BY <2>1 DEF SessionOK, session
    <2>5. replay' \in [Conns -> [index : Nat \cup {-1}, after : Nat]]
      BY <2>1 DEF NetOK
    <2>6. QED
      BY <2>1, <2>2, <2>3, <2>4, <2>5, KeepsLog, KeepsClient, NetTyped DEF log
  <1>3. ASSUME AcquireLater(k) \/ AcquireOpening(k)
        PROVE  Sound'
    <2>1. /\ HeadIs(k, {"attach", "resume"}) /\ Taken(k)
          /\ \/ opening' = opening /\ waiting' = Append(waiting, Joining(k))
             \/ opening' = Append(opening, Joining(k)) /\ waiting' = waiting
          /\ UNCHANGED <<live, member, turn, turns, log, link, toClient, holds, replay, client>>
      BY <1>3 DEF AcquireLater, AcquireOpening
    <2>2. Joining(k) \in Joiners /\ toServer' \in [Conns -> Seq(Requests)]
      BY <2>1, HeadTyped DEF Taken
    <2>3. Append(opening, Joining(k)) \in Seq(Joiners) /\ Append(waiting, Joining(k)) \in Seq(Joiners)
      BY <2>2 DEF SessionOK
    <2>4. SessionOK'
      BY <2>1, <2>3 DEF SessionOK
    <2>5. toClient' \in [Conns -> Seq(Messages)] /\ replay' \in [Conns -> [index : Nat \cup {-1}, after : Nat]]
      BY <2>1 DEF NetOK
    <2>6. QED
      BY <2>1, <2>2, <2>4, <2>5, KeepsLog, KeepsClient, NetTyped DEF log
  <1>4. QED
    BY <1>1, <1>2, <1>3 DEF Acquire

LEMMA OpenSound == ASSUME Sound, Opened \/ OpenFails \/ DisposeEnds PROVE Sound'
  <1> USE DEF Sound
  <1>1. CASE Opened
    <2>1. /\ Attach(ToSet(opening)) /\ live' \in {"disposing", "ready"} /\ opening' = <<>>
          /\ UNCHANGED <<waiting, turn, turns, log, link, toServer, client>>
      BY <1>1 DEF Opened
    <2>2. ToSet(opening) \in SUBSET Joiners
      BY DEF SessionOK, ToSet
    <2>3. /\ \E ks \in SUBSET Conns : member' = member \cup ks /\ holds' = holds \cup ks
          /\ replay' \in [Conns -> [index : Nat \cup {-1}, after : Nat]]
          /\ toClient' \in [Conns -> Seq(Messages)]
      BY <2>1, <2>2, AttachTyped
    <2>4. SessionOK'
      BY <2>1, <2>3 DEF SessionOK
    <2>5. toServer' \in [Conns -> Seq(Requests)]
      BY <2>1 DEF NetOK
    <2>6. QED
      BY <2>1, <2>3, <2>4, <2>5, KeepsLog, KeepsClient, NetTyped DEF log
  <1>2. CASE OpenFails
    <2>1. /\ opening' = <<>>
          /\ toClient' = ToAll(toClient, {j.conn : j \in ToSet(opening)}, Refusal("attach"))
          /\ UNCHANGED <<live, waiting, member, turn, turns, log, link, toServer, holds, replay, client>>
      BY <1>2 DEF OpenFails
    <2>2. toClient' \in [Conns -> Seq(Messages)]
      BY <2>1, RefusalTyped, ToAllTyped DEF NetOK
    <2>3. SessionOK'
      BY <2>1 DEF SessionOK
    <2>4. toServer' \in [Conns -> Seq(Requests)] /\ replay' \in [Conns -> [index : Nat \cup {-1}, after : Nat]]
      BY <2>1 DEF NetOK
    <2>5. QED
      BY <2>1, <2>2, <2>3, <2>4, KeepsLog, KeepsClient, NetTyped DEF log
  <1>3. CASE DisposeEnds
    <2>1. /\ live' = "none" /\ member' = {} /\ waiting' = <<>> /\ opening' = opening \o waiting
          /\ UNCHANGED <<turn, turns, log, net, holds, replay, client>>
      BY <1>3 DEF DisposeEnds, Disposes
    <2>2. opening \o waiting \in Seq(Joiners)
      BY DEF SessionOK
    <2>3. SessionOK'
      BY <2>1, <2>2 DEF SessionOK, net
    <2>4. /\ toServer' \in [Conns -> Seq(Requests)] /\ toClient' \in [Conns -> Seq(Messages)]
          /\ replay' \in [Conns -> [index : Nat \cup {-1}, after : Nat]]
      BY <2>1 DEF NetOK, net
    <2>5. QED
      BY <2>1, <2>3, <2>4, KeepsLog, KeepsClient, NetTyped DEF log
  <1>4. QED
    BY <1>1, <1>2, <1>3

LEMMA ReplaySound == ASSUME Sound, NEW k \in Conns, Replay(k) PROVE Sound'
  <1> USE DEF Sound
  <1> DEFINE places == [index : Nat \cup {-1}, after : Nat]
  <1>1. replay[k] \in places
    BY DEF NetOK
  <1>2. CASE ReplayNext(k)
    <2> DEFINE entry == first + replay[k].index
    <2>1. /\ entry <= last /\ replay' = [replay EXCEPT ![k].index = @ + 1]
          /\ toClient' = IF entry > replay[k].after THEN To(toClient, k, Event(entry)) ELSE toClient
          /\ UNCHANGED <<session, log, link, toServer, holds, client>>
      BY <1>2 DEF ReplayNext
    <2>2. entry \in 0 .. last /\ replay[k].index + 1 \in Nat
      BY <1>1, <2>1 DEF LogOK
    <2>3. Event(entry) \in Messages
      BY <2>2, EventTyped
    <2>4. To(toClient, k, Event(entry)) \in [Conns -> Seq(Messages)]
      BY <2>3, ToTyped DEF NetOK
    <2>5. toClient' \in [Conns -> Seq(Messages)]
      BY <2>1, <2>4 DEF NetOK
    <2>6. replay' \in [Conns -> places]
      BY <1>1, <2>1, <2>2 DEF NetOK
    <2>7. SessionOK' /\ toServer' \in [Conns -> Seq(Requests)]
      BY <2>1 DEF SessionOK, session, NetOK
    <2>8. QED
      BY <2>1, <2>5, <2>6, <2>7, KeepsLog, KeepsClient, NetTyped DEF log
  <1>3. CASE ReplayEnds(k)
    <2>1. /\ replay' = [replay EXCEPT ![k] = NoReplay]
          /\ toClient' = To(ToAll(toClient, member, Update("snapshot", "none", TRUE, content)), k,
                            Update("answer", "attach", k \in holds, content))
          /\ UNCHANGED <<session, log, link, toServer, holds, client>>
      BY <1>3 DEF ReplayEnds
    <2>2. content \in 0 .. last
      BY DEF LogOK
    <2>3. toClient' \in [Conns -> Seq(Messages)]
      BY <2>1, <2>2, TellInTyped DEF NetOK
    <2>4. replay' \in [Conns -> places]
      BY <2>1 DEF NetOK, NoReplay
    <2>5. SessionOK' /\ toServer' \in [Conns -> Seq(Requests)]
      BY <2>1 DEF SessionOK, session, NetOK
    <2>6. QED
      BY <2>1, <2>3, <2>4, <2>5, KeepsLog, KeepsClient, NetTyped DEF log
  <1>4. QED
    BY <1>2, <1>3 DEF Replay

\* A command that is taken changes the session, the log and the answers only.
LEMMA HandleSound ==
    ASSUME Sound, NEW k \in Conns, Prompt(k) \/ Busy(k) \/ Adjust(k) \/ Detach(k)
    PROVE  Sound'
  <1> USE DEF Sound
  <1>0. PICK commands : HeadIs(k, commands)
    BY DEF Prompt, Busy, Adjust, Detach, Leaves
  <1>a. Taken(k)
    BY DEF Prompt, Busy, Adjust, Detach, Leaves
  <1>b. UNCHANGED <<last, opening, waiting, link, replay, client>>
    BY DEF Prompt, Busy, Adjust, Detach, Leaves, Operation, log, session
  <1>1. /\ toServer[k][1] \in Requests /\ toServer' \in [Conns -> Seq(Requests)]
        /\ UNCHANGED <<last, opening, waiting, link, replay, client>>
    BY <1>0, <1>a, <1>b, HeadTyped DEF Taken
  <1>2. replay' \in [Conns -> [index : Nat \cup {-1}, after : Nat]]
    BY <1>1 DEF NetOK
  <1>3. 0 \in 0 .. last /\ content \in 0 .. last /\ done \in 0 .. last
        /\ TRUE \in BOOLEAN /\ FALSE \in BOOLEAN
    BY DEF LogOK
  <1>4. SUFFICES SessionOK' /\ LogOK' /\ toClient' \in [Conns -> Seq(Messages)]
    BY <1>1, <1>2, KeepsClient, NetTyped
  <1>6. CASE Prompt(k)
    BY <1>6 DEF Prompt, SessionOK, LogOK, NetOK, Messages
  <1>7. CASE Busy(k)
    <2> DEFINE m == Update("snapshot", "none", TRUE, done)
    <2>1. /\ toClient' = To(ToAll(toClient, member, m), k, Refusal("prompt")) /\ content' = done
          /\ UNCHANGED <<session, last, first, done, link, holds, replay, client>>
      BY <1>7 DEF Busy, Operation
    <2>2. m \in Messages
      BY <1>3, MessageTyped
    <2> HIDE DEF m
    <2>3. ToAll(toClient, member, m) \in [Conns -> Seq(Messages)]
      BY <2>2, ToAllTyped DEF NetOK
    <2>4. toClient' \in [Conns -> Seq(Messages)]
      BY <2>1, <2>3, RefusalTyped, ToTyped
    <2>5. SessionOK' /\ LogOK'
      BY <2>1 DEF SessionOK, session, LogOK
    <2>6. QED
      BY <2>4, <2>5
  <1>8. CASE Adjust(k)
    <2>1. /\ toClient' = To(ToAll(toClient, member, Update("snapshot", "none", TRUE, done)), k,
                            Update("answer", "adjust", TRUE, done))
          /\ content' = done
          /\ UNCHANGED <<session, last, first, done, link, holds, replay, client>>
      BY <1>8 DEF Adjust, Operation
    <2>2. toClient' \in [Conns -> Seq(Messages)]
      BY <2>1, <1>3, TellTyped DEF NetOK
    <2>3. SessionOK' /\ LogOK'
      BY <2>1 DEF SessionOK, session, LogOK
    <2>4. QED
      BY <2>2, <2>3
  <1>9. CASE Detach(k)
    <2> DEFINE rest == IF k \in holds /\ live = "ready" THEN member \ {k} ELSE {}
    <2>1. /\ holds' = holds \ {k} /\ member' = member \ {k}
          /\ toClient' = To(ToAll(toClient, rest, Update("snapshot", "none", TRUE, content)), k,
                            Message("answer", "detach", FALSE))
          /\ live' = IF k \in holds THEN Settled(live, member \ {k}, turn) ELSE live
          /\ UNCHANGED <<opening, waiting, turn, turns, log, link, replay, client>>
      BY <1>9 DEF Detach, Leaves
    <2>2. Update("snapshot", "none", TRUE, content) \in Messages
      BY <1>3, MessageTyped
    <2>3. Message("answer", "detach", FALSE) \in Messages
      BY <1>3, MessageTyped
    <2>4. ToAll(toClient, rest, Update("snapshot", "none", TRUE, content)) \in [Conns -> Seq(Messages)]
      BY <2>2, ToAllTyped DEF NetOK
    <2>5. toClient' \in [Conns -> Seq(Messages)]
      BY <2>1, <2>3, <2>4, ToTyped
    <2>6. SessionOK'
      BY <2>1 DEF SessionOK, Settled
    <2>7. QED
      BY <2>1, <2>5, <2>6, KeepsLog
  <1>10. QED
    BY <1>6, <1>7, <1>8, <1>9

\* What was typed stays so when another event has happened.
LEMMA MoreTyped ==
    ASSUME NEW q \in [Conns -> Seq(Messages)], last \in Nat, last' \in Nat, last =< last'
    PROVE  q \in [Conns -> Seq(Messages')]
  <1>1. Messages \subseteq Messages'
    <2>1. 0 .. last \subseteq 0 .. last'
      OBVIOUS
    <2>2. QED
      BY <2>1 DEF Messages
  <1> HIDE DEF Messages
  <1>2. ASSUME NEW k \in Conns PROVE q[k] \in Seq(Messages')
    <2>1. q[k] \in Seq(Messages)
      OBVIOUS
    <2>2. \A i \in 1 .. Len(q[k]) : q[k][i] \in Messages'
      BY <1>1, <2>1
    <2>3. q[k] = [i \in 1 .. Len(q[k]) |-> q[k][i]] /\ Len(q[k]) \in Nat
      BY <2>1
    <2>4. QED
      BY <2>2, <2>3
  <1>3. QED
    BY <1>2

LEMMA ProgressSound == ASSUME Sound, Progress PROVE Sound'
  <1> USE DEF Sound
  <1>1. /\ last < EventCount /\ last' = last + 1 /\ first' = Evicted(first, last + 1)
        /\ content' = (IF content = last THEN last + 1 ELSE content)
        /\ toClient' = ToAll(toClient, member, Event(last + 1))
        /\ UNCHANGED <<session, done, link, toServer, holds, replay, client>>
    BY DEF Progress
  <1>2. SessionOK'
    BY <1>1 DEF SessionOK, session
  <1>3. LogOK'
    BY <1>1 DEF LogOK, Evicted
  <1>4. last \in Nat /\ last' \in Nat /\ last =< last'
    BY <1>1 DEF LogOK
  <1>5. toClient \in [Conns -> Seq(Messages')]
    BY <1>4, MoreTyped DEF NetOK
  <1>6. Event(last + 1) \in Messages'
    <2>1. 0 \in 0 .. last' /\ last + 1 \in 0 .. last' /\ TRUE \in BOOLEAN
      BY <1>1, <1>4
    <2>2. QED
      BY <2>1 DEF Messages, Event, Message
  <1>7. toClient' \in [Conns -> Seq(Messages')]
    BY <1>1, <1>5, <1>6, ToAllTyped
  <1>8. NetOK'
    BY <1>1, <1>7 DEF NetOK
  <1>9. ClientOK'
    BY <1>1, <1>4 DEF ClientOK, client
  <1>10. QED
    BY <1>2, <1>3, <1>8, <1>9

LEMMA EndSound == ASSUME Sound, TurnEnds PROVE Sound'
  <1> USE DEF Sound
  <1>1. /\ turn # None /\ turn' = None /\ done' = last /\ content' = last
        /\ toClient' = To(ToAll(toClient, member, Update("snapshot", "none", TRUE, last)), turn,
                          Update("answer", "prompt", turn \in holds, last))
        /\ live' = Settled(live, member, None)
        /\ UNCHANGED <<opening, waiting, member, turns, last, first, ids, link, toServer, holds, replay, client>>
    BY DEF TurnEnds, Ends
  <1>2. last \in 0 .. last
    BY DEF LogOK
  <1>4. toClient' \in [Conns -> Seq(Messages)]
    BY <1>1, <1>2, TellInTyped DEF NetOK
  <1>5. SessionOK' /\ LogOK'
    BY <1>1 DEF SessionOK, Settled, LogOK
  <1>6. toServer' \in [Conns -> Seq(Requests)] /\ replay' \in [Conns -> [index : Nat \cup {-1}, after : Nat]]
    BY <1>1 DEF NetOK
  <1>7. QED
    BY <1>1, <1>4, <1>5, <1>6, KeepsClient, NetTyped

LEMMA LossSound ==
    ASSUME Sound, Terminate \/ \E k \in Conns : Disconnect(k)
    PROVE  Sound'
  <1> USE DEF Sound
  <1>1. CASE Terminate
    <2>1. /\ link' = [k \in Conns |-> IF k \in member /\ link[k] = "open" THEN "lost" ELSE link[k]]
          /\ toServer' = [k \in Conns |-> IF k \in member THEN <<>> ELSE toServer[k]]
          /\ toClient' = [k \in Conns |-> IF k \in member THEN <<>> ELSE toClient[k]]
          /\ live' = Settled("terminal", member, turn)
          /\ UNCHANGED <<opening, waiting, member, turn, turns, log, holds, replay, client>>
      BY <1>1 DEF Terminate
    <2>2. SessionOK'
      BY <2>1 DEF SessionOK, Settled
    <2>3. /\ toServer' \in [Conns -> Seq(Requests)] /\ toClient' \in [Conns -> Seq(Messages)]
          /\ replay' \in [Conns -> [index : Nat \cup {-1}, after : Nat]]
      BY <2>1 DEF NetOK
    <2>4. QED
      BY <2>1, <2>2, <2>3, KeepsLog, KeepsClient, NetTyped DEF log
  <1>2. ASSUME NEW k \in Conns, Disconnect(k) PROVE Sound'
    <2>1. /\ link' = [link EXCEPT ![k] = "closed"] /\ holds' = holds \ {k} /\ member' = member \ {k}
          /\ live' = IF k \in holds THEN Settled(live, member \ {k}, turn) ELSE live
          /\ UNCHANGED <<opening, waiting, turn, turns, log, toServer, toClient, replay, client>>
      BY <1>2 DEF Disconnect
    <2>2. SessionOK'
      BY <2>1 DEF SessionOK, Settled
    <2>3. /\ toServer' \in [Conns -> Seq(Requests)] /\ toClient' \in [Conns -> Seq(Messages)]
          /\ replay' \in [Conns -> [index : Nat \cup {-1}, after : Nat]]
      BY <2>1 DEF NetOK
    <2>4. QED
      BY <2>1, <2>2, <2>3, KeepsLog, KeepsClient, NetTyped DEF log
  <1>3. QED
    BY <1>1, <1>2

\* The clients' own steps leave the session and its log alone.
LEMMA ClientSound ==
    ASSUME Sound, NEW c \in Clients, Connect(c) \/ Drop(c) \/ FindClosed(c)
    PROVE  Sound'
  <1> USE DEF Sound
  <1>1. UNCHANGED <<session, log, holds, replay, cursor, view, heard>>
    BY DEF Connect, Drop, FindClosed, Forget
  <1>2. LogOK'
    BY <1>1, KeepsLog
  <1>3. replay' \in [Conns -> [index : Nat \cup {-1}, after : Nat]]
    BY <1>1 DEF NetOK
  <1>4. CASE Connect(c)
    <2>1. PICK k \in Conns : link' = [link EXCEPT ![k] = "open"] /\ conn' = [conn EXCEPT ![c] = k]
      BY <1>4 DEF Connect
    <2>2. UNCHANGED <<toServer, toClient, attached>>
      BY <1>4 DEF Connect
    <2>3. SessionOK'
      BY <1>1, <2>1 DEF SessionOK, session
    <2>4. ClientOK'
      BY <1>1, <2>1, <2>2 DEF ClientOK, log
    <2>5. NetOK'
      BY <1>1, <2>2 DEF NetOK, Messages, log
    <2>6. QED
      BY <1>2, <2>3, <2>4, <2>5
  <1>5. CASE Drop(c)
    <2> DEFINE k == conn[c]
    <2>1. /\ k # None /\ link' = [link EXCEPT ![k] = "lost"]
          /\ toServer' = [toServer EXCEPT ![k] = <<>>] /\ toClient' = [toClient EXCEPT ![k] = <<>>]
          /\ conn' = [conn EXCEPT ![c] = None] /\ attached' = [attached EXCEPT ![c] = FALSE]
      BY <1>5 DEF Drop, Forget
    <2>2. k \in Conns
      BY <2>1 DEF ClientOK
    <2>3. SessionOK'
      BY <1>1, <2>1, <2>2 DEF SessionOK, session
    <2>4. ClientOK'
      BY <1>1, <2>1 DEF ClientOK, log
    <2>5. toServer' \in [Conns -> Seq(Requests)] /\ toClient' \in [Conns -> Seq(Messages)]
      BY <2>1, <2>2 DEF NetOK
    <2>6. QED
      BY <1>1, <1>2, <1>3, <2>3, <2>4, <2>5, NetTyped DEF log
  <1>6. CASE FindClosed(c)
    <2>1. /\ conn' = [conn EXCEPT ![c] = None] /\ attached' = [attached EXCEPT ![c] = FALSE]
          /\ UNCHANGED net
      BY <1>6 DEF FindClosed, Forget
    <2>2. SessionOK'
      BY <1>1, <2>1 DEF SessionOK, session, net
    <2>3. ClientOK'
      BY <1>1, <2>1 DEF ClientOK, log
    <2>4. NetOK'
      BY <1>1, <2>1 DEF NetOK, Messages, log, net
    <2>5. QED
      BY <1>2, <2>2, <2>3, <2>4
  <1>7. QED
    BY <1>4, <1>5, <1>6

LEMMA AskSound ==
    ASSUME Sound, NEW c \in Clients, NEW name, NEW request \in Requests, Ask(c, name, request)
    PROVE  Sound'
  <1> USE DEF Sound
  <1>1. /\ conn[c] # None /\ toServer' = [toServer EXCEPT ![conn[c]] = Append(@, request)]
        /\ UNCHANGED <<session, log, link, toClient, holds, replay, conn, attached, cursor, view, heard>>
    BY DEF Ask
  <1>2. conn[c] \in Conns
    BY <1>1 DEF ClientOK
  <1>3. Append(toServer[conn[c]], request) \in Seq(Requests)
    BY <1>2 DEF NetOK
  <1>4. toServer' \in [Conns -> Seq(Requests)]
    BY <1>1, <1>3 DEF NetOK
  <1>5. SessionOK' /\ LogOK'
    BY <1>1, KeepsLog DEF SessionOK, session
  <1>6. ClientOK'
    BY <1>1 DEF ClientOK, log
  <1>7. NetOK'
    BY <1>1, <1>4 DEF NetOK, Messages, log
  <1>8. QED
    BY <1>5, <1>6, <1>7

LEMMA AsksSound ==
    ASSUME Sound, NEW c \in Clients, NEW command \in {"prompt", "adjust", "detach"},
           AskAttach(c) \/ AskCommand(c, command)
    PROVE  Sound'
  <1>1. cursor[c] \in Nat /\ 0 \in Nat
    BY DEF Sound, ClientOK, LogOK
  <1>2. /\ Request("resume", cursor[c]) \in Requests /\ Request("attach", 0) \in Requests
        /\ Request(command, 0) \in Requests
    BY <1>1 DEF Request, Requests, Commands
  <1>3. CASE AskAttach(c)
    <2> DEFINE request == IF cursor[c] > 0 THEN Request("resume", cursor[c]) ELSE Request("attach", 0)
    <2>1. request \in Requests
      BY <1>2
    <2>2. Ask(c, "attach", request)
      BY <1>3 DEF AskAttach
    <2> HIDE DEF request
    <2>3. QED
      BY <2>1, <2>2, AskSound
  <1>4. CASE AskCommand(c, command)
    BY <1>2, <1>4, AskSound DEF AskCommand
  <1>5. QED
    BY <1>3, <1>4

LEMMA ReceiveSound == ASSUME Sound, NEW c \in Clients, Receive(c) PROVE Sound'
  <1> USE DEF Sound
  <1> DEFINE k == conn[c]
             m == toClient[k][1]
  <1>1. /\ k # None /\ toClient[k] # <<>> /\ toClient' = [toClient EXCEPT ![k] = Tail(@)]
        /\ UNCHANGED <<session, log, link, toServer, holds, replay, conn, asks>>
    BY DEF Receive
  <1>2. k \in Conns
    BY <1>1 DEF ClientOK
  <1>3. toClient[k] \in Seq(Messages)
    BY <1>2 DEF NetOK
  <1>4. m \in Messages /\ Tail(toClient[k]) \in Seq(Messages)
    BY <1>1, <1>3
  <1>5. m.last \in 0 .. last /\ m.content \in 0 .. last /\ m.attached \in BOOLEAN
    BY <1>4 DEF Messages
  <1>6. attached' \in [Clients -> BOOLEAN]
    <2>1. attached' = attached \/ attached' = [attached EXCEPT ![c] = m.attached]
      BY DEF Receive
    <2>2. QED
      BY <1>5, <2>1 DEF ClientOK
  <1>7. \/ TakeSnapshot(c, m)
        \/ m.last > cursor[c] /\ TakeProgress(c, m)
        \/ UNCHANGED <<cursor, view, heard>>
    BY DEF Receive, Fresh
  <1> HIDE DEF m, k
  <1>8. /\ cursor' \in [Clients -> 0 .. last]
        /\ view' \in [Clients -> SUBSET (1 .. last)]
        /\ heard' \in [Clients -> SUBSET (1 .. last)]
    <2>1. CASE TakeSnapshot(c, m)
      <3>1. 1 .. m.content \subseteq 1 .. last
        BY <1>5 DEF LogOK
      <3>2. QED
        BY <2>1, <3>1, <1>5 DEF TakeSnapshot, ClientOK
    <2>2. CASE m.last > cursor[c] /\ TakeProgress(c, m)
      <3>1. cursor[c] \in 0 .. last
        BY DEF ClientOK
      <3>2. m.last \in 1 .. last
        BY <1>5, <2>2, <3>1 DEF LogOK
      <3>3. QED
        BY <2>2, <3>2, <1>5 DEF TakeProgress, ClientOK
    <2>3. CASE UNCHANGED <<cursor, view, heard>>
      BY <2>3 DEF ClientOK
    <2>4. QED
      BY <1>7, <2>1, <2>2, <2>3
  <1>9. ClientOK'
    BY <1>1, <1>6, <1>8 DEF ClientOK, log
  <1>10. SessionOK' /\ LogOK'
    BY <1>1, KeepsLog DEF SessionOK, session
  <1>11. toClient' \in [Conns -> Seq(Messages)]
    BY <1>1, <1>2, <1>4 DEF NetOK
  <1>12. NetOK'
    BY <1>1, <1>11 DEF NetOK, Messages, log
  <1>13. QED
    BY <1>9, <1>10, <1>12

LEMMA SoundStep == ASSUME Sound, [Next]_vars PROVE Sound'
  <1>1. CASE Opened \/ OpenFails \/ DisposeEnds
    BY <1>1, OpenSound
  <1>2. CASE Progress
    BY <1>2, ProgressSound
  <1>3. CASE TurnEnds
    BY <1>3, EndSound
  <1>4. CASE Terminate
    BY <1>4, LossSound
  <1>5. ASSUME NEW k \in Conns, Handle(k) \/ Replay(k) \/ Disconnect(k) PROVE Sound'
    BY <1>5, AcquireSound, HandleSound, ReplaySound, LossSound DEF Handle
  <1>6. ASSUME NEW c \in Clients, Connect(c) \/ Drop(c) \/ FindClosed(c) \/ Receive(c) \/ AskAttach(c)
        PROVE  Sound'
    BY <1>6, ClientSound, ReceiveSound, AsksSound
  <1>7. ASSUME NEW c \in Clients, NEW command \in {"prompt", "adjust", "detach"}, AskCommand(c, command)
        PROVE  Sound'
    BY <1>7, AsksSound
  <1>8. CASE UNCHANGED vars
    <2>1. UNCHANGED <<session, log, net, client, holds, replay>>
      BY <1>8 DEF vars, session, log, net, client
    <2>2. SessionOK' /\ LogOK' /\ ClientOK'
      BY <2>1, KeepsLog, KeepsClient DEF Sound, SessionOK, session, net, log
    <2>3. NetOK'
      BY <2>1 DEF Sound, NetOK, Messages, net, log
    <2>4. QED
      BY <2>2, <2>3 DEF Sound
  <1>9. QED
    BY <1>1, <1>2, <1>3, <1>4, <1>5, <1>6, <1>7, <1>8 DEF Next

(***************************************************************************)
(* Every variable of a session and of its clients keeps its type: the log  *)
(* is never longer than its bound, no snapshot has more than has happened, *)
(* and no client is past the last event.                                   *)
(***************************************************************************)
THEOREM SessionTypeCorrect == Spec => []TypeOK
  <1>1. Sound => TypeOK
    <2> SUFFICES ASSUME Sound PROVE TypeOK
      OBVIOUS
    <2> USE DEF Sound
    <2>1. \A c \in Clients : view[c] \cup heard[c] \subseteq 1 .. last
      BY DEF ClientOK
    <2>2. QED
      BY <2>1 DEF TypeOK, SessionOK, LogOK, ClientOK
  <1>2. QED
    BY SoundInit, SoundStep, <1>1, PTL DEF Spec

-----------------------------------------------------------------------------
(***************************************************************************)
(* A session is opened only when no runtime of it is left: who finds one   *)
(* on its way out waits, and goes round again when it is gone.             *)
(***************************************************************************)
THEOREM OpensAlone == Spec => []OneRuntime
  <1>1. Init => OneRuntime
    BY DEF Init, OneRuntime
  <1>2. OneRuntime /\ [Next]_vars => OneRuntime'
    <2> SUFFICES ASSUME OneRuntime, [Next]_vars PROVE OneRuntime'
      OBVIOUS
    <2> USE DEF OneRuntime
    <2>1. CASE Opened \/ OpenFails \/ DisposeEnds
      BY <2>1 DEF Opened, OpenFails, DisposeEnds, Disposes
    <2>2. CASE Progress \/ TurnEnds \/ Terminate
      BY <2>2 DEF Progress, TurnEnds, Ends, Terminate, Settled, session
    <2>3. ASSUME NEW k \in Conns, Acquire(k) PROVE OneRuntime'
      BY <2>3 DEF Acquire, AcquireLive, AcquireTerminal, AcquireLater, AcquireOpening, session
    <2>4. ASSUME NEW k \in Conns, Prompt(k) \/ Busy(k) \/ Adjust(k) \/ Replay(k)
          PROVE  OneRuntime'
      BY <2>4 DEF Prompt, Busy, Adjust, Replay, ReplayNext, ReplayEnds, session
    <2>5. ASSUME NEW k \in Conns, Detach(k) \/ Disconnect(k) PROVE OneRuntime'
      BY <2>5 DEF Detach, Leaves, Disconnect, Settled
    <2>6. ASSUME NEW c \in Clients, NEW command \in {"prompt", "adjust", "detach"},
                 \/ Connect(c) \/ Drop(c) \/ FindClosed(c) \/ Receive(c)
                 \/ AskAttach(c) \/ AskCommand(c, command)
          PROVE  OneRuntime'
      BY <2>6 DEF Connect, Drop, FindClosed, Receive, AskAttach, AskCommand, Ask, session
    <2>7. CASE UNCHANGED vars
      BY <2>7 DEF vars
    <2>8. QED
      BY <2>1, <2>2, <2>3, <2>4, <2>5, <2>6, <2>7 DEF Next, Handle
  <1>3. QED
    BY <1>1, <1>2, PTL DEF Spec

-----------------------------------------------------------------------------
(***************************************************************************)
(* The strengthening of HoldersAreMembers: also a terminated session counts*)
(* those who have it until they disconnect, and one that is not live or is *)
(* on its way out has no connections, so the next runtime starts with none.*)
(***************************************************************************)
Held ==
    /\ holds = member
    /\ live \in {"none", "disposing"} => member = {}
    /\ live \in {"ready", "terminal"} => (member = {} => turn # None)

\* Whoever attaches is counted in both sets.
LEMMA AttachHeld ==
    ASSUME NEW js, Attach(js)
    PROVE  /\ holds = member => holds' = member'
           /\ (\E j \in js : link[j.conn] # "closed") => member' # {}
           /\ (\A j \in js : link[j.conn] = "closed") => member' = member /\ holds' = holds
  BY DEF Attach

LEMMA HeldStep == ASSUME Sound, OneRuntime, Held, ~Strand, [Next]_vars PROVE Held'
  <1> USE DEF Held
  <1>1. CASE Opened
    <2>1. opening # <<>> /\ live = "none" /\ holds = {} /\ member = {}
      BY <1>1 DEF Opened, OneRuntime
    <2>2. opening \in Seq(Joiners)
      BY DEF Sound, SessionOK
    <2>3. opening[1] \in ToSet(opening) /\ Attach(ToSet(opening))
      BY <1>1, <2>1, <2>2 DEF Opened, ToSet
    <2>4. CASE link[opening[1].conn] = "closed"
      <3>1. live' = "disposing" /\ \A i \in DOMAIN opening : link[opening[i].conn] = "closed"
        BY <1>1, <2>4 DEF Opened
      <3>2. \A j \in ToSet(opening) : link[j.conn] = "closed"
        BY <3>1 DEF ToSet
      <3>3. QED
        BY <2>1, <2>3, <3>1, <3>2, AttachHeld
    <2>5. CASE link[opening[1].conn] # "closed"
      <3>1. live' = "ready"
        BY <1>1, <2>5 DEF Opened
      <3>2. QED
        BY <2>1, <2>3, <2>5, <3>1, AttachHeld
    <2>6. QED
      BY <2>4, <2>5
  <1>2. CASE OpenFails \/ DisposeEnds
    BY <1>2 DEF OpenFails, DisposeEnds, Disposes
  <1>3. CASE Progress
    BY <1>3 DEF Progress, session
  <1>4. CASE TurnEnds \/ Terminate
    <2>1. UNCHANGED <<holds, member>> /\ live \in {"none", "ready", "terminal", "disposing"}
      BY <1>4 DEF TurnEnds, Ends, Terminate, Sound, SessionOK
    <2>2. CASE TurnEnds
      <3>1. turn' = None /\ live' = Settled(live, member, None)
        BY <2>2 DEF TurnEnds, Ends
      <3>2. QED
        BY <2>1, <3>1 DEF Settled
    <2>3. CASE Terminate
      <3>1. turn' = turn /\ live' = Settled("terminal", member, turn)
        BY <2>3 DEF Terminate
      <3>2. QED
        BY <2>1, <3>1 DEF Settled
    <2>4. QED
      BY <1>4, <2>2, <2>3
  <1>5. ASSUME NEW k \in Conns, Acquire(k) PROVE Held'
    <2>1. CASE AcquireLive(k)
      <3>1. live = "ready" /\ live' = live /\ turn' = turn /\ Attach({Joining(k)}) /\ link[k] = "open"
        BY <2>1 DEF AcquireLive, HeadIs
      <3>2. Joining(k).conn = k
        BY DEF Joining
      <3>3. QED
        BY <3>1, <3>2, AttachHeld
    <2>2. CASE AcquireTerminal(k) \/ AcquireLater(k) \/ AcquireOpening(k)
      BY <2>2 DEF AcquireTerminal, AcquireLater, AcquireOpening, session
    <2>3. QED
      BY <1>5, <2>1, <2>2 DEF Acquire
  <1>6. ASSUME NEW k \in Conns, Prompt(k) \/ Busy(k) \/ Adjust(k) \/ Replay(k)
        PROVE  Held'
    BY <1>6 DEF Prompt, Busy, Adjust, Replay, ReplayNext, ReplayEnds, session, SessionsAssumption
  <1>7. ASSUME NEW k \in Conns, Detach(k) \/ Disconnect(k) PROVE Held'
    <2>1. /\ holds' = holds \ {k} /\ member' = member \ {k} /\ turn' = turn
          /\ live' = IF k \in holds THEN Settled(live, member \ {k}, turn) ELSE live
      BY <1>7 DEF Detach, Leaves, Disconnect
    <2>2. QED
      BY <2>1 DEF Settled
  <1>8. ASSUME NEW c \in Clients, NEW command \in {"prompt", "adjust", "detach"},
               \/ Connect(c) \/ Drop(c) \/ FindClosed(c) \/ Receive(c)
               \/ AskAttach(c) \/ AskCommand(c, command)
        PROVE  Held'
    BY <1>8 DEF Connect, Drop, FindClosed, Receive, AskAttach, AskCommand, Ask, session
  <1>9. CASE UNCHANGED vars
    BY <1>9 DEF vars
  <1>10. QED
    BY <1>1, <1>2, <1>3, <1>4, <1>5, <1>6, <1>7, <1>8, <1>9 DEF Next, Handle

(***************************************************************************)
(* Unless an opener leaves while others wait for its open, the connections *)
(* a live session counts are those whose sessionIds have it, and a session *)
(* without any, and without a turn, is on its way out.                     *)
(***************************************************************************)
THEOREM HoldersCounted == ASSUME ~Strand PROVE Spec => []HoldersAreMembers
  <1>1. Init => Held
    BY DEF Init, Held
  <1>2. Held => HoldersAreMembers
    BY DEF Held, HoldersAreMembers
  <1>3. Spec => []Sound
    BY SoundInit, SoundStep, PTL DEF Spec
  <1>4. Sound /\ OneRuntime /\ Held /\ [Next]_vars => Held'
    BY HeldStep
  <1>5. QED
    BY <1>1, <1>2, <1>3, <1>4, OpensAlone, PTL DEF Spec

-----------------------------------------------------------------------------
(***************************************************************************)
(* What a client will know once everything on its way has arrived.  The    *)
(* last snapshot of a queue decides, and the events behind it; an event    *)
(* counts only if it is above the cursor when its turn comes.              *)
(***************************************************************************)
Texts == [type : {"snapshot", "answer", "progress", "refusal"},
          of : {"none", "attach", "resume", "prompt", "adjust", "detach"},
          attached : BOOLEAN, last : Nat, content : Nat]

Snap(m) == m.type = "snapshot" \/ (m.type = "answer" /\ m.of # "detach")

NoneAfter(q, i) == \A j \in DOMAIN q : j > i => ~Snap(q[j])

BySnapshot(q, n) == \E i \in DOMAIN q : Snap(q[i]) /\ n <= q[i].content /\ NoneAfter(q, i)

ByEvent(q, at, n) ==
    \E i \in DOMAIN q :
        /\ q[i].type = "progress" /\ q[i].last = n /\ NoneAfter(q, i)
        /\ at < n /\ \A j \in 1 .. i - 1 : q[j].last < n

Reaches(q, at, has, n) == (n \in has /\ NoneAfter(q, 0)) \/ BySnapshot(q, n) \/ ByEvent(q, at, n)

\* Whoever is connected, and at no replay, will have all that the server's
\* snapshot has.
Told(c) ==
    /\ conn[c] # None /\ link[conn[c]] = "open" /\ conn[c] \in member
    /\ replay[conn[c]] = NoReplay /\ content = last

Informed ==
    \A c \in Clients : Told(c) =>
        \A n \in 1 .. last : Reaches(toClient[conn[c]], cursor[c], view[c], n)

\* A connection is one client's, and means nothing before it is opened.
Joins(js, k) == \E i \in DOMAIN js : js[i].conn = k

OwnLink ==
    /\ \A c \in Clients : conn[c] # None => link[conn[c]] # "unused" /\ \A d \in Clients : conn[d] = conn[c] => c = d
    /\ \A k \in Conns : link[k] = "unused" =>
          k \notin member /\ toServer[k] = <<>> /\ toClient[k] = <<>> /\ ~Joins(opening, k) /\ ~Joins(waiting, k)

LEMMA PlainReaches ==
    ASSUME NEW q \in Seq(Texts), NEW m \in Texts, ~Snap(m), NEW at, NEW has, NEW n, Reaches(q, at, has, n)
    PROVE  Reaches(Append(q, m), at, has, n)
  <1> DEFINE p == Append(q, m)
  <1>1. /\ Len(p) = Len(q) + 1 /\ Len(q) \in Nat /\ p[Len(q) + 1] = m
        /\ DOMAIN q = 1 .. Len(q) /\ DOMAIN p = 1 .. Len(p)
        /\ \A i \in 1 .. Len(q) : p[i] = q[i]
    OBVIOUS
  <1> HIDE DEF p
  <1>2. \A i \in Nat : NoneAfter(q, i) => NoneAfter(p, i)
    BY <1>1 DEF NoneAfter
  <1>3. CASE n \in has /\ NoneAfter(q, 0)
    BY <1>2, <1>3 DEF Reaches, p
  <1>4. CASE BySnapshot(q, n)
    <2>1. PICK i \in DOMAIN q : Snap(q[i]) /\ n <= q[i].content /\ NoneAfter(q, i)
      BY <1>4 DEF BySnapshot
    <2>2. i \in DOMAIN p /\ p[i] = q[i] /\ i \in Nat
      BY <1>1, <2>1
    <2>3. QED
      BY <1>2, <2>1, <2>2 DEF BySnapshot, Reaches, p
  <1>5. CASE ByEvent(q, at, n)
    <2>1. PICK i \in DOMAIN q : /\ q[i].type = "progress" /\ q[i].last = n /\ NoneAfter(q, i)
                                /\ at < n /\ \A j \in 1 .. i - 1 : q[j].last < n
      BY <1>5 DEF ByEvent
    <2>2. i \in DOMAIN p /\ p[i] = q[i] /\ i \in Nat /\ \A j \in 1 .. i - 1 : p[j] = q[j]
      BY <1>1, <2>1
    <2>3. ByEvent(p, at, n)
      BY <1>2, <2>1, <2>2 DEF ByEvent
    <2>4. QED
      BY <2>3 DEF Reaches, p
  <1>6. QED
    BY <1>3, <1>4, <1>5 DEF Reaches

LEMMA SnapReaches ==
    ASSUME NEW q \in Seq(Texts), NEW m \in Texts, Snap(m), NEW at, NEW has, NEW n, n <= m.content
    PROVE  Reaches(Append(q, m), at, has, n)
  <1> DEFINE p == Append(q, m)
  <1>1. Len(p) \in DOMAIN p /\ p[Len(p)] = m /\ DOMAIN p = 1 .. Len(p) /\ Len(p) \in Nat
    OBVIOUS
  <1> HIDE DEF p
  <1>2. NoneAfter(p, Len(p))
    BY <1>1 DEF NoneAfter
  <1>3. QED
    BY <1>1, <1>2 DEF BySnapshot, Reaches, p

LEMMA EventReaches ==
    ASSUME NEW q \in Seq(Texts), NEW m \in Texts, m.type = "progress", NEW at, NEW has, at < m.last,
           \A j \in DOMAIN q : q[j].last < m.last
    PROVE  Reaches(Append(q, m), at, has, m.last)
  <1> DEFINE p == Append(q, m)
  <1>1. /\ Len(p) \in DOMAIN p /\ p[Len(p)] = m /\ DOMAIN p = 1 .. Len(p) /\ Len(p) = Len(q) + 1 /\ Len(q) \in Nat
        /\ \A j \in 1 .. Len(p) - 1 : j \in DOMAIN q /\ p[j] = q[j]
    OBVIOUS
  <1> HIDE DEF p
  <1>2. NoneAfter(p, Len(p))
    BY <1>1 DEF NoneAfter
  <1>3. ByEvent(p, at, m.last)
    BY <1>1, <1>2 DEF ByEvent
  <1>4. QED
    BY <1>3 DEF Reaches, p

\* The client takes the first message.
Takes(m, at, has, now, knows) ==
    \/ Snap(m) /\ now = m.last /\ knows = 1 .. m.content
    \/ m.type = "progress" /\ at < m.last /\ now = m.last /\ knows = has \cup {m.last}
    \/ ~Snap(m) /\ ~(m.type = "progress" /\ at < m.last) /\ now = at /\ knows = has

LEMMA TakenReaches ==
    ASSUME NEW q \in Seq(Texts), q # <<>>, NEW at \in Nat, NEW has, NEW now, NEW knows,
           Takes(q[1], at, has, now, knows), NEW n \in Nat \ {0}, Reaches(q, at, has, n)
    PROVE  Reaches(Tail(q), now, knows, n)
  <1> DEFINE p == Tail(q)
  <1>1. /\ Len(p) = Len(q) - 1 /\ Len(q) \in Nat \ {0} /\ DOMAIN q = 1 .. Len(q) /\ DOMAIN p = 1 .. Len(p)
        /\ \A i \in 1 .. Len(p) : p[i] = q[i + 1]
        /\ \A i \in DOMAIN q : q[i] \in Texts
    OBVIOUS
  <1> HIDE DEF p
  <1>2. \A i \in Nat \ {0} : NoneAfter(q, i) => NoneAfter(p, i - 1)
    <2> SUFFICES ASSUME NEW i \in Nat \ {0}, NoneAfter(q, i), NEW j \in DOMAIN p, j > i - 1
                 PROVE  ~Snap(p[j])
      BY DEF NoneAfter
    <2>1. j + 1 \in DOMAIN q /\ j + 1 > i /\ p[j] = q[j + 1]
      BY <1>1
    <2>2. QED
      BY <2>1 DEF NoneAfter
  <1>3. ASSUME NoneAfter(q, 0) PROVE NoneAfter(p, 0) /\ ~Snap(q[1])
    <2>1. 1 \in DOMAIN q
      BY <1>1
    <2>2. ~Snap(q[1])
      BY <1>3, <2>1 DEF NoneAfter
    <2>3. ASSUME NEW j \in DOMAIN p PROVE ~Snap(p[j])
      <3>1. j + 1 \in DOMAIN q /\ j + 1 > 0 /\ p[j] = q[j + 1]
        BY <1>1
      <3>2. QED
        BY <1>3, <3>1 DEF NoneAfter
    <2>4. QED
      BY <2>2, <2>3 DEF NoneAfter
  <1>4. CASE n \in has /\ NoneAfter(q, 0)
    <2>1. n \in knows
      BY <1>3, <1>4 DEF Takes
    <2>2. QED
      BY <1>3, <1>4, <2>1 DEF Reaches, p
  <1>5. CASE BySnapshot(q, n)
    <2>1. PICK i \in DOMAIN q : Snap(q[i]) /\ n <= q[i].content /\ NoneAfter(q, i)
      BY <1>5 DEF BySnapshot
    <2>2. CASE i = 1
      <3>1. knows = 1 .. q[1].content /\ q[1].content \in Nat
        BY <1>1, <2>1, <2>2 DEF Takes, Texts, Snap
      <3>2. n \in knows
        BY <2>1, <2>2, <3>1
      <3>3. NoneAfter(p, 0)
        BY <1>2, <2>1, <2>2
      <3>4. QED
        BY <3>2, <3>3 DEF Reaches, p
    <2>3. CASE i # 1
      <3>1. i - 1 \in DOMAIN p /\ p[i - 1] = q[i] /\ i \in Nat \ {0}
        BY <1>1, <2>1, <2>3
      <3>2. NoneAfter(p, i - 1)
        BY <1>2, <2>1, <3>1
      <3>3. BySnapshot(p, n)
        BY <2>1, <3>1, <3>2 DEF BySnapshot
      <3>4. QED
        BY <3>3 DEF Reaches, p
    <2>4. QED
      BY <2>2, <2>3
  <1>6. CASE ByEvent(q, at, n)
    <2>1. PICK i \in DOMAIN q : /\ q[i].type = "progress" /\ q[i].last = n /\ NoneAfter(q, i)
                                /\ at < n /\ \A j \in 1 .. i - 1 : q[j].last < n
      BY <1>6 DEF ByEvent
    <2>2. CASE i = 1
      <3>1. n \in knows
        BY <2>1, <2>2 DEF Takes, Snap
      <3>2. NoneAfter(p, 0)
        BY <1>2, <2>1, <2>2
      <3>3. QED
        BY <3>1, <3>2 DEF Reaches, p
    <2>3. CASE i # 1
      <3>1. i - 1 \in DOMAIN p /\ p[i - 1] = q[i] /\ i \in Nat \ {0} /\ 1 \in 1 .. i - 1
        BY <1>1, <2>1, <2>3
      <3>2. NoneAfter(p, i - 1)
        BY <1>2, <2>1, <3>1
      <3>3. now < n
        BY <2>1, <3>1 DEF Takes
      <3>4. \A j \in 1 .. (i - 1) - 1 : p[j] = q[j + 1] /\ j + 1 \in 1 .. i - 1
        BY <1>1, <2>1, <3>1
      <3>5. ByEvent(p, now, n)
        BY <2>1, <3>1, <3>2, <3>3, <3>4 DEF ByEvent
      <3>6. QED
        BY <3>5 DEF Reaches, p
    <2>4. QED
      BY <2>2, <2>3
  <1>7. QED
    BY <1>4, <1>5, <1>6 DEF Reaches

\* What is sent keeps what a queue will bring, and a whole snapshot brings all.
LEMMA TextsOnTheWay ==
    ASSUME Sound
    PROVE  /\ Messages \subseteq Texts /\ toClient \in [Conns -> Seq(Texts)]
           /\ \A k \in Conns : \A j \in DOMAIN toClient[k] : toClient[k][j].last \in 0 .. last
  <1>1. Messages \subseteq Texts
    BY DEF Messages, Texts, Sound, LogOK
  <1>2. \A k \in Conns : toClient[k] \in Seq(Messages)
    BY DEF Sound, NetOK
  <1>3. \A k \in Conns : toClient[k] \in Seq(Texts)
    BY <1>1, <1>2
  <1>4. \A k \in Conns : \A j \in DOMAIN toClient[k] : toClient[k][j] \in Messages
    BY <1>2
  <1>5. QED
    BY <1>1, <1>3, <1>4 DEF Sound, NetOK, Messages

LEMMA TextIs ==
    ASSUME NEW of \in {"none", "attach", "resume", "prompt", "adjust", "detach"}, NEW at \in BOOLEAN, NEW n \in Nat,
           Sound
    PROVE  /\ Update("snapshot", "none", at, n) \in Texts /\ Snap(Update("snapshot", "none", at, n))
           /\ Update("snapshot", "none", at, n).content = n
           /\ Update("answer", of, at, n) \in Texts /\ (of # "detach" => Snap(Update("answer", of, at, n)))
           /\ Update("answer", of, at, n).content = n
           /\ Refusal(of) \in Texts /\ ~Snap(Refusal(of))
           /\ Message("answer", "detach", at) \in Texts /\ ~Snap(Message("answer", "detach", at))
           /\ Event(n) \in Texts /\ ~Snap(Event(n)) /\ Event(n).type = "progress" /\ Event(n).last = n
  <1>1. last \in Nat
    BY DEF Sound, LogOK
  <1>2. TRUE \in BOOLEAN /\ FALSE \in BOOLEAN
    OBVIOUS
  <1>3. QED
    BY <1>1, <1>2 DEF Update, Message, Refusal, Event, Texts, Snap

LEMMA ToAllTells ==
    ASSUME NEW q \in [Conns -> Seq(Texts)], NEW ks, NEW m \in Texts, NEW k \in Conns,
           NEW at, NEW has, NEW n,
           \/ Reaches(q[k], at, has, n) /\ (Snap(m) => n <= m.content)
           \/ k \in ks /\ link[k] = "open" /\ Snap(m) /\ n <= m.content
    PROVE  ToAll(q, ks, m) \in [Conns -> Seq(Texts)] /\ Reaches(ToAll(q, ks, m)[k], at, has, n)
  <1>1. q[k] \in Seq(Texts)
    OBVIOUS
  <1>2. ToAll(q, ks, m)[k] = IF k \in ks /\ link[k] = "open" THEN Append(q[k], m) ELSE q[k]
    BY DEF ToAll
  <1>3. ASSUME Snap(m), n <= m.content PROVE Reaches(Append(q[k], m), at, has, n)
    BY <1>1, <1>3, SnapReaches
  <1>4. ASSUME ~Snap(m), Reaches(q[k], at, has, n) PROVE Reaches(Append(q[k], m), at, has, n)
    BY <1>1, <1>4, PlainReaches
  <1>5. QED
    BY <1>2, <1>3, <1>4, ToAllTyped

\* The same of a snapshot to some and an answer to one.
LEMMA ToBothTells ==
    ASSUME NEW q \in [Conns -> Seq(Texts)], NEW ks, NEW m \in Texts, NEW k0, NEW a \in Texts, NEW k \in Conns,
           NEW at, NEW has, NEW n, Snap(m), n <= m.content, Snap(a) => n <= a.content,
           Reaches(q[k], at, has, n) \/ (k \in ks /\ link[k] = "open") \/ (k = k0 /\ link[k] = "open" /\ Snap(a))
    PROVE  Reaches(To(ToAll(q, ks, m), k0, a)[k], at, has, n)
  <1> DEFINE p == ToAll(q, ks, m)
  <1>1. p \in [Conns -> Seq(Texts)]
    BY ToAllTyped
  <1>2. Reaches(p[k], at, has, n) \/ (k \in {k0} /\ link[k] = "open" /\ Snap(a))
    BY ToAllTells
  <1> HIDE DEF p
  <1>3. Reaches(ToAll(p, {k0}, a)[k], at, has, n)
    BY <1>1, <1>2, ToAllTells
  <1>4. QED
    BY <1>3 DEF To, p

\* Who has been told of the same events remains told, if the queue loses nothing.
LEMMA InformedKept ==
    ASSUME Sound, Informed, UNCHANGED <<conn, cursor, view, last>>,
           \A c \in Clients : Told(c)' => Told(c),
           \A k \in Conns, n \in 1 .. last, c \in Clients :
              k = conn[c] /\ Told(c) /\ Told(c)' /\ Reaches(toClient[k], cursor[c], view[c], n)
                 => Reaches(toClient'[k], cursor[c], view[c], n)
    PROVE  Informed'
  <1> SUFFICES ASSUME NEW c \in Clients, Told(c)', NEW n \in 1 .. last'
               PROVE  Reaches(toClient'[conn'[c]], cursor'[c], view'[c], n)
    BY DEF Informed
  <1>1. Told(c) /\ conn'[c] = conn[c] /\ cursor'[c] = cursor[c] /\ view'[c] = view[c] /\ n \in 1 .. last
    OBVIOUS
  <1>2. conn[c] \in Conns
    BY <1>1 DEF Told, Sound, ClientOK
  <1>3. Reaches(toClient[conn[c]], cursor[c], view[c], n)
    BY <1>1 DEF Informed
  <1>4. Reaches(toClient'[conn[c]], cursor[c], view[c], n)
    BY <1>1, <1>2, <1>3
  <1>5. QED
    BY <1>1, <1>4

LEMMA AttachInforms ==
    ASSUME Sound, Informed, NEW js \in SUBSET Joiners, Attach(js),
           UNCHANGED <<last, content, link, conn, cursor, view>>
    PROVE  Informed'
  <1> DEFINE ok == {j \in js : link[j.conn] # "closed"}
             ks == {j.conn : j \in ok}
             fast == {j.conn : j \in {i \in ok : ~Replays(i)}}
             m == Update("snapshot", "none", TRUE, content)
             a == Update("answer", "attach", TRUE, content)
             q == IF fast = {} THEN toClient ELSE ToAll(toClient, member \cup ks, m)
  <1> SUFFICES ASSUME NEW c \in Clients, Told(c)', NEW n \in 1 .. last'
               PROVE  Reaches(toClient'[conn'[c]], cursor'[c], view'[c], n)
    BY DEF Informed
  <1> DEFINE k == conn[c]
  <1>1. conn'[c] = k /\ cursor'[c] = cursor[c] /\ view'[c] = view[c] /\ n \in 1 .. last
    OBVIOUS
  <1>2. k \in Conns /\ link[k] = "open" /\ k \in member' /\ replay'[k] = NoReplay /\ content = last /\ content \in Nat
    BY DEF Told, Sound, ClientOK, LogOK
  <1>3. m \in Texts /\ Snap(m) /\ m.content = content /\ a \in Texts /\ Snap(a) /\ a.content = content
    BY <1>2, TextIs
  <1>4. toClient \in [Conns -> Seq(Texts)] /\ n <= content
    BY <1>1, <1>2, TextsOnTheWay
  <1>5. toClient' = ToAll(q, fast, a) /\ member' = member \cup ks
    BY DEF Attach
  <1>6. q \in [Conns -> Seq(Texts)]
    BY <1>3, <1>4, ToAllTyped
  <1>7. ~\E j \in ok : j.conn = k /\ Replays(j)
    BY <1>2 DEF Attach, NoReplay
  <1>8. replay[k] = NoReplay
    BY <1>2, <1>7 DEF Attach
  <1>9. k \in fast \/ k \in member
    BY <1>2, <1>5, <1>7
  <1>10. CASE k \in fast
    <2> HIDE DEF q, fast, a
    <2>1. Reaches(ToAll(q, fast, a)[k], cursor[c], view[c], n)
      BY <1>2, <1>3, <1>4, <1>6, <1>10, ToAllTells
    <2>2. QED
      BY <1>1, <1>5, <2>1
  <1>11. CASE k \in member
    <2>1. Reaches(toClient[k], cursor[c], view[c], n)
      BY <1>1, <1>2, <1>8, <1>11 DEF Informed, Told
    <2>2. Reaches(q[k], cursor[c], view[c], n)
      <3> HIDE DEF fast, ks, m
      <3>1. Reaches(ToAll(toClient, member \cup ks, m)[k], cursor[c], view[c], n)
        BY <1>2, <1>3, <1>4, <2>1, ToAllTells
      <3>2. QED
        BY <2>1, <3>1
    <2> HIDE DEF q, fast, a
    <2>3. Reaches(ToAll(q, fast, a)[k], cursor[c], view[c], n)
      BY <1>2, <1>3, <1>4, <1>6, <2>2, ToAllTells
    <2>4. QED
      BY <1>1, <1>5, <2>3
  <1>12. QED
    BY <1>9, <1>10, <1>11

-----------------------------------------------------------------------------
\* Every connection has its client, and everything said on it is said by that
\* client or to it.
LEMMA OwnLinkStep == ASSUME Sound, OwnLink, [Next]_vars PROVE OwnLink'
  <1> USE DEF OwnLink
  <1>1. ASSUME NEW q \in Seq(Joiners), NEW j \in Joiners, NEW k, Joins(Append(q, j), k)
        PROVE  Joins(q, k) \/ j.conn = k
    BY <1>1 DEF Joins
  <1>2. ASSUME NEW q, NEW ks, NEW m, NEW k \in Conns, q[k] = <<>>, link[k] = "unused"
        PROVE  ToAll(q, ks, m)[k] = <<>>
    BY <1>2 DEF ToAll
  <1>3. ASSUME NEW q, NEW ks, NEW m, NEW k0, NEW a, NEW k \in Conns, q[k] = <<>>, link[k] = "unused"
        PROVE  To(ToAll(q, ks, m), k0, a)[k] = <<>> /\ To(q, k0, a)[k] = <<>>
    BY <1>2, <1>3 DEF To
  <1>4. opening \in Seq(Joiners) /\ waiting \in Seq(Joiners)
    BY DEF Sound, SessionOK
  <1>5. ASSUME NEW js \in SUBSET Joiners, Attach(js), NEW k \in Conns, link[k] = "unused",
               \A j \in js : j.conn # k
        PROVE  k \notin member' /\ toClient'[k] = <<>>
    <2> DEFINE ok == {j \in js : link[j.conn] # "closed"}
               ks == {j.conn : j \in ok}
               fast == {j.conn : j \in {i \in ok : ~Replays(i)}}
               m == Update("snapshot", "none", TRUE, content)
               a == Update("answer", "attach", TRUE, content)
               q == IF fast = {} THEN toClient ELSE ToAll(toClient, member \cup ks, m)
    <2>1. member' = member \cup ks /\ toClient' = ToAll(q, fast, a) /\ k \notin ks
      BY <1>5 DEF Attach
    <2>2. q[k] = <<>>
      <3> HIDE DEF fast, ks, m
      <3>1. QED
        BY <1>2, <1>5
    <2> HIDE DEF q, fast, a
    <2>3. QED
      BY <1>2, <1>5, <2>1, <2>2
  <1>6. CASE Opened
    <2>1. Attach(ToSet(opening)) /\ ToSet(opening) \in SUBSET Joiners /\ opening' = <<>>
      BY <1>4, <1>6 DEF Opened, ToSet
    <2>2. \A k \in Conns : ~Joins(opening, k) => \A j \in ToSet(opening) : j.conn # k
      BY DEF Joins, ToSet
    <2>3. \A k : ~Joins(<<>>, k)
      BY DEF Joins
    <2>4. UNCHANGED <<waiting, link, toServer, conn>>
      BY <1>6 DEF Opened, client
    <2>5. \A k \in Conns : Joins(waiting', k) = Joins(waiting, k) /\ ~Joins(opening', k)
      BY <2>1, <2>3, <2>4
    <2>6. ASSUME NEW k \in Conns, link[k] = "unused" PROVE k \notin member' /\ toClient'[k] = <<>>
      BY <1>5, <2>1, <2>2, <2>6
    <2>7. QED
      BY <2>4, <2>5, <2>6 DEF Joins
  <1>7. CASE OpenFails
    BY <1>2, <1>7 DEF OpenFails, client, log, Joins
  <1>8. CASE DisposeEnds
    <2>1. opening' = opening \o waiting /\ waiting' = <<>> /\ member' = {} /\ UNCHANGED <<link, toServer, toClient, conn>>
      BY <1>8 DEF DisposeEnds, Disposes, net, client
    <2>2. ASSUME NEW k, Joins(opening', k) PROVE Joins(opening, k) \/ Joins(waiting, k)
      <3>1. PICK i \in 1 .. Len(opening) + Len(waiting) : (opening \o waiting)[i].conn = k
        BY <1>4, <2>1, <2>2 DEF Joins
      <3>2. CASE i <= Len(opening)
        BY <1>4, <3>1, <3>2 DEF Joins
      <3>3. CASE i > Len(opening)
        <4>1. i - Len(opening) \in DOMAIN waiting /\ (opening \o waiting)[i] = waiting[i - Len(opening)]
          BY <1>4, <3>1, <3>3
        <4>2. QED
          BY <3>1, <4>1 DEF Joins
      <3>4. QED
        BY <1>4, <3>1, <3>2, <3>3
    <2>3. \A k : ~Joins(waiting', k)
      BY <2>1 DEF Joins
    <2>4. QED
      BY <2>1, <2>2, <2>3
  <1>9. CASE Progress
    BY <1>2, <1>9 DEF Progress, session, client
  <1>10. CASE TurnEnds
    <2>1. UNCHANGED <<opening, waiting, member, link, conn, toServer>>
      BY <1>10 DEF TurnEnds, Ends, client
    <2>2. PICK m, a : toClient' = To(ToAll(toClient, member, m), turn, a)
      BY <1>10 DEF TurnEnds, Ends
    <2>3. \A k \in Conns : link[k] = "unused" => toClient'[k] = <<>>
      BY <1>3, <2>2
    <2>4. QED
      BY <2>1, <2>3
  <1>11. CASE Terminate
    <2>1. /\ UNCHANGED <<opening, waiting, conn, member>>
          /\ link' = [k \in Conns |-> IF k \in member /\ link[k] = "open" THEN "lost" ELSE link[k]]
          /\ toServer' = [k \in Conns |-> IF k \in member THEN <<>> ELSE toServer[k]]
          /\ toClient' = [k \in Conns |-> IF k \in member THEN <<>> ELSE toClient[k]]
      BY <1>11 DEF Terminate, client
    <2>2. \A c \in Clients : conn[c] # None => conn[c] \in Conns
      BY DEF Sound, ClientOK
    <2>3. \A k \in Conns : link'[k] = "unused" =>
              link[k] = "unused" /\ toServer'[k] = toServer[k] /\ toClient'[k] = toClient[k]
      BY <2>1
    <2>4. QED
      BY <2>1, <2>2, <2>3
  <1>12. ASSUME NEW k \in Conns, Acquire(k) PROVE OwnLink'
    <2> SUFFICES ASSUME NEW n \in Conns, link[n] = "unused"
                 PROVE  n \notin member' /\ toServer'[n] = <<>> /\ toClient'[n] = <<>> /\ ~Joins(opening', n) /\ ~Joins(waiting', n)
      BY <1>12 DEF Acquire, AcquireLive, AcquireTerminal, AcquireLater, AcquireOpening, client
    <2>1. link[k] = "open" /\ Taken(k) /\ Joining(k) \in Joiners /\ Joining(k).conn = k
      BY <1>12, HeadTyped DEF Acquire, AcquireLive, AcquireTerminal, AcquireLater, AcquireOpening, HeadIs, Sound, Joining
    <2>2. n # k /\ toServer'[n] = <<>>
      BY <2>1 DEF Taken, Sound, NetOK
    <2>3. CASE AcquireLive(k)
      <3>1. Attach({Joining(k)}) /\ {Joining(k)} \in SUBSET Joiners /\ UNCHANGED <<opening, waiting>>
        BY <2>1, <2>3 DEF AcquireLive
      <3>2. n \notin member' /\ toClient'[n] = <<>>
        BY <1>5, <2>1, <2>2, <3>1
      <3>3. QED
        BY <2>2, <3>1, <3>2
    <2>4. CASE AcquireTerminal(k)
      BY <1>2, <2>2, <2>4 DEF AcquireTerminal, To, session
    <2>5. CASE AcquireLater(k)
      <3>1. ~Joins(Append(waiting, Joining(k)), n)
        BY <1>1, <1>4, <2>1, <2>2
      <3>2. QED
        BY <2>2, <2>5, <3>1 DEF AcquireLater
    <2>6. CASE AcquireOpening(k)
      <3>1. ~Joins(Append(opening, Joining(k)), n)
        BY <1>1, <1>4, <2>1, <2>2
      <3>2. QED
        BY <2>2, <2>6, <3>1 DEF AcquireOpening
    <2>7. QED
      BY <1>12, <2>3, <2>4, <2>5, <2>6 DEF Acquire
  <1>13. ASSUME NEW k \in Conns, Prompt(k) \/ Busy(k) \/ Adjust(k) \/ Detach(k) PROVE OwnLink'
    <2>1. link[k] = "open" /\ Taken(k) /\ UNCHANGED <<link, conn, opening, waiting>> /\ member' \subseteq member
      BY <1>13 DEF Prompt, Busy, Adjust, Detach, Leaves, HeadIs, session, client
    <2>2. ASSUME NEW n \in Conns, link[n] = "unused" PROVE toServer'[n] = <<>> /\ toClient'[n] = <<>>
      <3>1. n # k /\ toServer'[n] = <<>>
        BY <2>1, <2>2 DEF Taken, Sound, NetOK
      <3>2. toClient'[n] = <<>>
        <4>1. CASE Prompt(k)
          BY <2>2, <4>1 DEF Prompt
        <4>2. CASE Busy(k)
          <5>1. PICK m, a : toClient' = To(ToAll(toClient, member, m), k, a)
            BY <4>2 DEF Busy
          <5>2. QED
            BY <1>3, <2>2, <5>1
        <4>3. CASE Adjust(k)
          <5>1. PICK m, a : toClient' = To(ToAll(toClient, member, m), k, a)
            BY <4>3 DEF Adjust
          <5>2. QED
            BY <1>3, <2>2, <5>1
        <4>4. CASE Detach(k)
          <5>1. PICK rest, m, a : toClient' = To(ToAll(toClient, rest, m), k, a)
            BY <4>4 DEF Detach, Leaves
          <5>2. QED
            BY <1>3, <2>2, <5>1
        <4>5. QED
          BY <1>13, <4>1, <4>2, <4>3, <4>4
      <3>3. QED
        BY <3>1, <3>2
    <2>3. QED
      BY <2>1, <2>2
  <1>14. ASSUME NEW k \in Conns, Replay(k) PROVE OwnLink'
    <2>1. ASSUME NEW n \in Conns, link[n] = "unused" PROVE toClient'[n] = <<>>
      <3>1. CASE ReplayNext(k)
        <4>1. PICK e : toClient' = To(toClient, k, e) \/ toClient' = toClient
          BY <3>1 DEF ReplayNext
        <4>2. QED
          BY <1>3, <2>1, <4>1
      <3>2. CASE ReplayEnds(k)
        <4>1. PICK m, a : toClient' = To(ToAll(toClient, member, m), k, a)
          BY <3>2 DEF ReplayEnds
        <4>2. QED
          BY <1>3, <2>1, <4>1
      <3>3. QED
        BY <1>14, <3>1, <3>2 DEF Replay
    <2>2. UNCHANGED <<link, conn, opening, waiting, member, toServer>>
      BY <1>14 DEF Replay, ReplayNext, ReplayEnds, session, client
    <2>3. QED
      BY <2>1, <2>2
  <1>15. ASSUME NEW k \in Conns, Disconnect(k) PROVE OwnLink'
    BY <1>15 DEF Disconnect, client, Sound, SessionOK
  <1>16. ASSUME NEW c \in Clients, Connect(c) PROVE OwnLink'
    <2>1. PICK k \in Conns : link[k] = "unused" /\ link' = [link EXCEPT ![k] = "open"] /\ conn' = [conn EXCEPT ![c] = k]
      BY <1>16 DEF Connect
    <2>2. \A d \in Clients : conn[d] # k /\ conn'[d] = IF d = c THEN k ELSE conn[d]
      BY <2>1, SessionsAssumption DEF Sound, ClientOK, Conns
    <2>3. \A n \in Conns : link'[n] = IF n = k THEN "open" ELSE link[n]
      BY <2>1 DEF Sound, SessionOK
    <2>4. k # None /\ UNCHANGED <<opening, waiting, member, toServer, toClient>>
      BY <1>16, SessionsAssumption DEF Connect, session, Conns
    <2>5. \A d \in Clients : conn[d] # None => conn[d] \in Conns
      BY DEF Sound, ClientOK
    <2>6. \A d \in Clients : conn'[d] # None => link'[conn'[d]] # "unused" /\ \A e \in Clients : conn'[e] = conn'[d] => d = e
      BY <2>2, <2>3, <2>4, <2>5
    <2>7. QED
      BY <2>3, <2>4, <2>6
  <1>17. ASSUME NEW c \in Clients, Drop(c) \/ FindClosed(c) PROVE OwnLink'
    <2>1. UNCHANGED <<opening, waiting, member>> /\ conn' = [conn EXCEPT ![c] = None]
      BY <1>17 DEF Drop, FindClosed, Forget, session
    <2>2. \A n \in Conns : link'[n] = "unused" <=> link[n] = "unused"
      BY <1>17 DEF Drop, FindClosed, net, Sound, SessionOK, ClientOK
    <2>3. \A n \in Conns : /\ toServer[n] = <<>> => toServer'[n] = <<>>
                           /\ toClient[n] = <<>> => toClient'[n] = <<>>
      BY <1>17 DEF Drop, FindClosed, net, Sound, NetOK
    <2>4. \A d \in Clients : conn'[d] # None => d # c /\ conn'[d] = conn[d] /\ conn[d] \in Conns
      BY <2>1 DEF Sound, ClientOK
    <2>5. QED
      BY <2>1, <2>2, <2>3, <2>4
  <1>18. ASSUME NEW c \in Clients, Receive(c) PROVE OwnLink'
    <2>1. UNCHANGED <<opening, waiting, member, link, conn, toServer>> /\ conn[c] \in Conns /\ link[conn[c]] = "open"
          /\ toClient' = [toClient EXCEPT ![conn[c]] = Tail(@)]
      BY <1>18 DEF Receive, session, Sound, ClientOK
    <2>2. QED
      BY <2>1 DEF Sound, NetOK
  <1>19. ASSUME NEW c \in Clients, NEW command \in {"prompt", "adjust", "detach"}, AskAttach(c) \/ AskCommand(c, command)
         PROVE OwnLink'
    <2>1. PICK r : UNCHANGED <<opening, waiting, member, link, conn, toClient>> /\ conn[c] # None /\ link[conn[c]] = "open"
          /\ toServer' = [toServer EXCEPT ![conn[c]] = Append(@, r)]
      BY <1>19 DEF AskAttach, AskCommand, Ask, session
    <2>2. conn[c] \in Conns
      BY <2>1 DEF Sound, ClientOK
    <2>3. QED
      BY <2>1, <2>2 DEF Sound, NetOK
  <1>20. CASE UNCHANGED vars
    BY <1>20 DEF vars
  <1>21. QED
    BY <1>6, <1>7, <1>8, <1>9, <1>10, <1>11, <1>12, <1>13, <1>14, <1>15, <1>16, <1>17, <1>18, <1>19, <1>20
       DEF Next, Handle

LEMMA InformedStep == ASSUME Sound, OwnLink, Informed, [Next]_vars PROVE Informed'
  <1>1. toClient \in [Conns -> Seq(Texts)] /\ last \in Nat /\ done \in 0 .. last /\ content \in done .. last
        /\ (\A k \in Conns : \A j \in DOMAIN toClient[k] : toClient[k][j].last \in 0 .. last)
        /\ conn \in [Clients -> Conns \cup {None}]
    BY TextsOnTheWay DEF Sound, LogOK, ClientOK
  <1>2. CASE Opened
    <2>1. ToSet(opening) \in SUBSET Joiners /\ Attach(ToSet(opening))
      BY <1>2 DEF Opened, ToSet, Sound, SessionOK
    <2>2. UNCHANGED <<last, content, link, conn, cursor, view>>
      BY <1>2 DEF Opened, log, client
    <2>3. QED
      BY <2>1, <2>2, AttachInforms
  <1>3. ASSUME NEW k \in Conns, AcquireLive(k) PROVE Informed'
    <2>1. Joining(k) \in Joiners /\ Attach({Joining(k)}) /\ {Joining(k)} \in SUBSET Joiners
      BY <1>3, HeadTyped DEF AcquireLive, Sound
    <2>2. UNCHANGED <<last, content, link, conn, cursor, view>>
      BY <1>3 DEF AcquireLive, log, client
    <2>3. QED
      BY <2>1, <2>2, AttachInforms
  \* Refusals, and requests that wait.
  <1>4. ASSUME NEW k0, OpenFails \/ AcquireTerminal(k0) PROVE Informed'
    <2>1. PICK ks, of : of = "attach" /\ toClient' = ToAll(toClient, ks, Refusal(of))
      <3>1. OpenFails => toClient' = ToAll(toClient, {j.conn : j \in ToSet(opening)}, Refusal("attach"))
        BY DEF OpenFails
      <3>2. AcquireTerminal(k0) => toClient' = ToAll(toClient, {k0}, Refusal("attach"))
        BY DEF AcquireTerminal, To
      <3>3. QED
        BY <1>4, <3>1, <3>2, Zenon
    <2>2. UNCHANGED <<conn, cursor, view, last, member, replay, link, content>>
      BY <1>4 DEF OpenFails, AcquireTerminal, session, log, client
    <2>3. Refusal(of) \in Texts /\ ~Snap(Refusal(of))
      BY <2>1, TextIs
    <2>4. \A c \in Clients : Told(c)' => Told(c)
      BY <1>1, <2>2 DEF Told
    <2> DEFINE m == Refusal(of)
    <2> HIDE DEF m
    <2>5. m \in Texts /\ ~Snap(m) /\ toClient' = ToAll(toClient, ks, m)
      BY <2>1, <2>3 DEF m
    <2>6. ASSUME NEW k \in Conns, NEW n \in 1 .. last, NEW c \in Clients, Reaches(toClient[k], cursor[c], view[c], n)
          PROVE  Reaches(toClient'[k], cursor[c], view[c], n)
      BY <1>1, <2>5, <2>6, ToAllTells
    <2>7. QED
      BY <2>2, <2>4, <2>6, InformedKept
  <1>5. ASSUME NEW k0, DisposeEnds \/ AcquireLater(k0) \/ AcquireOpening(k0) \/ Prompt(k0) \/ Disconnect(k0)
        PROVE  Informed'
    <2>1. UNCHANGED <<conn, cursor, view, last, content, replay, toClient>> /\ member' \subseteq member
      BY <1>5 DEF DisposeEnds, Disposes, AcquireLater, AcquireOpening, Prompt, Disconnect, log, net, client
    <2>2. \A k \in Conns : link'[k] = "open" => link[k] = "open"
      BY <1>5 DEF DisposeEnds, Disposes, AcquireLater, AcquireOpening, Prompt, Disconnect, net, Sound, SessionOK
    <2>3. \A c \in Clients : Told(c)' => Told(c)
      BY <1>1, <2>1, <2>2 DEF Told
    <2>4. QED
      BY <2>1, <2>3, InformedKept
  \* A replay says nothing until it ends with a snapshot.
  <1>6. ASSUME NEW k0 \in Conns, ReplayNext(k0) PROVE Informed'
    <2>1. UNCHANGED <<conn, cursor, view, last, content, member, link>>
      BY <1>6 DEF ReplayNext, session, log, client
    <2>2. replay[k0] # NoReplay /\ replay' = [replay EXCEPT ![k0].index = @ + 1]
          /\ replay \in [Conns -> [index : Nat \cup {-1}, after : Nat]]
      BY <1>6 DEF ReplayNext, Sound, NetOK
    <2>3. replay'[k0] # NoReplay /\ \A k \in Conns \ {k0} : replay'[k] = replay[k]
      <3>1. replay'[k0].index = replay[k0].index + 1 /\ replay'[k0].after = replay[k0].after
        BY <2>2
      <3>2. replay'[k0] = NoReplay => replay[k0].index = -2
        BY <2>2, <3>1 DEF NoReplay
      <3>3. QED
        BY <2>2, <3>2
    <2>4. \A k \in Conns \ {k0} : toClient'[k] = toClient[k]
      BY <1>6 DEF ReplayNext, To, ToAll
    <2>5. \A c \in Clients : Told(c)' => Told(c) /\ conn[c] \in Conns \ {k0}
      BY <1>1, <2>1, <2>3 DEF Told
    <2>6. QED
      BY <2>1, <2>4, <2>5, InformedKept
  <1>7. ASSUME NEW k0 \in Conns, ReplayEnds(k0) PROVE Informed'
    <2> DEFINE m == Update("snapshot", "none", TRUE, content)
               at == k0 \in holds
               a == Update("answer", "attach", at, content)
    <2>1. /\ UNCHANGED <<conn, cursor, view, last, content, member, link>>
          /\ replay' = [replay EXCEPT ![k0] = NoReplay] /\ toClient' = To(ToAll(toClient, member, m), k0, a)
      BY <1>7 DEF ReplayEnds, session, log, client
    <2>2. at \in BOOLEAN
      OBVIOUS
    <2>3. m \in Texts /\ Snap(m) /\ m.content = content /\ a \in Texts /\ Snap(a) /\ a.content = content
      <3> HIDE DEF at
      <3>1. content \in Nat
        BY <1>1
      <3>2. m \in Texts /\ Snap(m) /\ m.content = content
        BY <3>1, TextIs
      <3>3. a \in Texts /\ a.content = content
        BY <2>2, <3>1, TextIs
      <3>4. Snap(a)
        BY <2>2, <3>1, TextIs
      <3>5. QED
        BY <3>2, <3>3, <3>4
    <2>4. SUFFICES ASSUME NEW c \in Clients, Told(c)', NEW n \in 1 .. last
                   PROVE  Reaches(toClient'[conn[c]], cursor[c], view[c], n)
      BY <2>1 DEF Informed
    <2>5. conn[c] \in Conns /\ link[conn[c]] = "open" /\ conn[c] \in member /\ content = last
      BY <1>1, <2>1, <2>4 DEF Told
    <2> HIDE DEF m, a
    <2>6. n <= m.content /\ n <= a.content
      BY <1>1, <2>3, <2>5
    <2>7. Reaches(To(ToAll(toClient, member, m), k0, a)[conn[c]], cursor[c], view[c], n)
      BY <1>1, <2>3, <2>5, <2>6, ToBothTells
    <2>8. QED
      BY <2>1, <2>7
  <1>8. ASSUME NEW k0 \in Conns, Adjust(k0) \/ Busy(k0) PROVE Informed'
    <2> DEFINE m == Update("snapshot", "none", TRUE, done)
               a == IF Adjust(k0) THEN Update("answer", "adjust", TRUE, done) ELSE Refusal("prompt")
    <2>1. /\ UNCHANGED <<conn, cursor, view, last, member, replay, link>>
          /\ content' = done /\ toClient' = To(ToAll(toClient, member, m), k0, a)
      BY <1>8 DEF Adjust, Busy, Operation, session, client
    <2>2. m \in Texts /\ Snap(m) /\ m.content = done /\ a \in Texts /\ (Snap(a) => a.content = done)
      <3>1. done \in Nat /\ TRUE \in BOOLEAN
        BY <1>1
      <3>2. QED
        BY <3>1, TextIs
    <2>3. SUFFICES ASSUME NEW c \in Clients, Told(c)', NEW n \in 1 .. last
                   PROVE  Reaches(toClient'[conn[c]], cursor[c], view[c], n)
      BY <2>1 DEF Informed
    <2>4. conn[c] \in Conns /\ link[conn[c]] = "open" /\ conn[c] \in member /\ done = last
      BY <1>1, <2>1, <2>3 DEF Told
    <2> HIDE DEF m, a
    <2>5. n <= m.content /\ (Snap(a) => n <= a.content)
      BY <1>1, <2>2, <2>4
    <2>6. Reaches(To(ToAll(toClient, member, m), k0, a)[conn[c]], cursor[c], view[c], n)
      BY <1>1, <2>2, <2>4, <2>5, ToBothTells
    <2>7. QED
      BY <2>1, <2>6
  <1>9. CASE TurnEnds
    <2> DEFINE m == Update("snapshot", "none", TRUE, last)
               at == turn \in holds
               a == Update("answer", "prompt", at, last)
    <2>1. /\ UNCHANGED <<conn, cursor, view, last, member, replay, link>>
          /\ toClient' = To(ToAll(toClient, member, m), turn, a)
      BY <1>9 DEF TurnEnds, Ends, client
    <2>2. m \in Texts /\ Snap(m) /\ m.content = last /\ a \in Texts /\ Snap(a) /\ a.content = last
      <3>1. at \in BOOLEAN
        OBVIOUS
      <3> HIDE DEF at
      <3>2. QED
        BY <1>1, <3>1, TextIs
    <2>3. SUFFICES ASSUME NEW c \in Clients, Told(c)', NEW n \in 1 .. last
                   PROVE  Reaches(toClient'[conn[c]], cursor[c], view[c], n)
      BY <2>1 DEF Informed
    <2>4. conn[c] \in Conns /\ link[conn[c]] = "open" /\ conn[c] \in member
      BY <1>1, <2>1, <2>3 DEF Told
    <2> HIDE DEF m, a
    <2>5. n <= m.content /\ n <= a.content
      BY <1>1, <2>2
    <2>6. Reaches(To(ToAll(toClient, member, m), turn, a)[conn[c]], cursor[c], view[c], n)
      BY <1>1, <2>2, <2>4, <2>5, ToBothTells
    <2>7. QED
      BY <2>1, <2>6
  <1>10. ASSUME NEW k0 \in Conns, Detach(k0) PROVE Informed'
    <2> DEFINE m == Update("snapshot", "none", TRUE, content)
               a == Message("answer", "detach", FALSE)
    <2>1. UNCHANGED <<conn, cursor, view, last, content, replay, link>> /\ member' \subseteq member
      BY <1>10 DEF Detach, Leaves, log, client
    <2>2. PICK rest : toClient' = To(ToAll(toClient, rest, m), k0, a)
      BY <1>10 DEF Detach, Leaves
    <2>3. m \in Texts /\ Snap(m) /\ m.content = content /\ a \in Texts /\ ~Snap(a)
      <3>1. content \in Nat
        BY <1>1
      <3>2. QED
        BY <3>1, TextIs
    <2>4. \A c \in Clients : Told(c)' => Told(c)
      BY <1>1, <2>1 DEF Told
    <2> HIDE DEF m, a
    <2>5. ASSUME NEW k \in Conns, NEW n \in 1 .. last, NEW c \in Clients, content = last,
                 Reaches(toClient[k], cursor[c], view[c], n)
          PROVE  Reaches(To(ToAll(toClient, rest, m), k0, a)[k], cursor[c], view[c], n)
      <3>1. n <= m.content
        BY <1>1, <2>3, <2>5
      <3>2. QED
        BY <1>1, <2>3, <2>5, <3>1, ToBothTells
    <2>6. QED
      BY <2>1, <2>2, <2>4, <2>5, InformedKept DEF Told
  \* An event goes to every connection of the session.
  <1>11. CASE Progress
    <2> DEFINE m == Event(last + 1)
    <2>1. /\ UNCHANGED <<conn, cursor, view, member, replay, link>> /\ last' = last + 1
          /\ content' = IF content = last THEN last + 1 ELSE content
          /\ toClient' = ToAll(toClient, member, m)
      BY <1>11 DEF Progress, session, client
    <2>2. m \in Texts /\ ~Snap(m) /\ m.type = "progress" /\ m.last = last + 1
      BY <1>1, TextIs
    <2> HIDE DEF m
    <2>3. SUFFICES ASSUME NEW c \in Clients, Told(c)', NEW n \in 1 .. last + 1
                   PROVE  Reaches(toClient'[conn[c]], cursor[c], view[c], n)
      BY <2>1 DEF Informed
    <2>4. conn[c] \in Conns /\ link[conn[c]] = "open" /\ conn[c] \in member /\ Told(c)
      BY <1>1, <2>1, <2>3 DEF Told
    <2>5. CASE n = last + 1
      <3>1. cursor[c] < last + 1
        BY <1>1 DEF Sound, ClientOK
      <3>2. \A j \in DOMAIN toClient[conn[c]] : toClient[conn[c]][j].last < last + 1
        BY <1>1, <2>4
      <3>3. toClient[conn[c]] \in Seq(Texts)
        BY <1>1, <2>4
      <3>4. Reaches(Append(toClient[conn[c]], m), cursor[c], view[c], m.last)
        BY <2>2, <3>1, <3>2, <3>3, EventReaches
      <3>5. toClient'[conn[c]] = Append(toClient[conn[c]], m)
        BY <2>1, <2>4 DEF ToAll
      <3>6. QED
        BY <2>2, <2>5, <3>4, <3>5
    <2>6. CASE n \in 1 .. last
      <3>1. Reaches(toClient[conn[c]], cursor[c], view[c], n)
        BY <2>4, <2>6 DEF Informed
      <3>2. Reaches(ToAll(toClient, member, m)[conn[c]], cursor[c], view[c], n)
        BY <1>1, <2>2, <2>4, <3>1, ToAllTells
      <3>3. QED
        BY <2>1, <3>2
    <2>7. n = last + 1 \/ n \in 1 .. last
      BY <1>1
    <2>8. QED
      BY <2>5, <2>6, <2>7
  <1>12. CASE Terminate
    <2>1. UNCHANGED <<conn, member>> /\ \A k \in Conns : k \in member => link'[k] # "open"
      BY <1>12 DEF Terminate, client
    <2>2. QED
      BY <1>1, <2>1 DEF Informed, Told
  <1>13. ASSUME NEW c0 \in Clients, Connect(c0) PROVE Informed'
    <2>1. PICK k0 \in Conns : link[k0] = "unused" /\ link' = [link EXCEPT ![k0] = "open"] /\ conn' = [conn EXCEPT ![c0] = k0]
      BY <1>13 DEF Connect
    <2>2. UNCHANGED <<cursor, view, last, content, member, replay, toClient>>
      BY <1>13 DEF Connect, session, log
    <2>3. k0 \notin member /\ \A c \in Clients : conn'[c] = IF c = c0 THEN k0 ELSE conn[c]
      BY <1>1, <2>1 DEF OwnLink
    <2>4. \A k \in Conns \ {k0} : link'[k] = link[k]
      BY <2>1 DEF Sound, SessionOK
    <2>5. SUFFICES ASSUME NEW c \in Clients, Told(c)', NEW n \in 1 .. last
                   PROVE  Reaches(toClient[conn'[c]], cursor[c], view[c], n)
      BY <2>2 DEF Informed
    <2>6. c # c0 /\ conn'[c] = conn[c] /\ conn[c] \in Conns \ {k0}
      BY <1>1, <2>2, <2>3, <2>5 DEF Told
    <2>7. Told(c)
      BY <2>2, <2>4, <2>5, <2>6 DEF Told
    <2>8. QED
      BY <2>6, <2>7 DEF Informed
  <1>14. ASSUME NEW c0 \in Clients, Drop(c0) \/ FindClosed(c0) PROVE Informed'
    <2>1. UNCHANGED <<cursor, view, last, content, member, replay>> /\ conn' = [conn EXCEPT ![c0] = None] /\ conn[c0] # None
      BY <1>14 DEF Drop, FindClosed, Forget, session, log
    <2>2. \A k \in Conns : k # conn[c0] => link'[k] = link[k] /\ toClient'[k] = toClient[k]
      BY <1>14 DEF Drop, FindClosed, net, Sound, SessionOK, NetOK
    <2>3. SUFFICES ASSUME NEW c \in Clients, Told(c)', NEW n \in 1 .. last
                   PROVE  Reaches(toClient'[conn'[c]], cursor[c], view[c], n)
      BY <2>1 DEF Informed
    <2>4. c # c0 /\ conn'[c] = conn[c] /\ conn[c] \in Conns
      BY <1>1, <2>1, <2>3 DEF Told
    <2>5. conn[c] # conn[c0]
      BY <2>1, <2>4 DEF OwnLink
    <2>6. Told(c) /\ toClient'[conn[c]] = toClient[conn[c]]
      BY <2>1, <2>2, <2>3, <2>4, <2>5 DEF Told
    <2>7. QED
      BY <2>4, <2>6 DEF Informed
  <1>15. ASSUME NEW c0 \in Clients, Receive(c0) PROVE Informed'
    <2> DEFINE k0 == conn[c0]
    <2>1. /\ k0 \in Conns /\ toClient[k0] # <<>> /\ toClient' = [toClient EXCEPT ![k0] = Tail(@)]
          /\ UNCHANGED <<last, content, member, replay, link, conn>>
      BY <1>1, <1>15 DEF Receive, session, log
    <2>2. Takes(toClient[k0][1], cursor[c0], view[c0], cursor'[c0], view'[c0])
          /\ \A c \in Clients : c # c0 => cursor'[c] = cursor[c] /\ view'[c] = view[c]
      BY <1>15 DEF Receive, Takes, Snap, TakeSnapshot, TakeProgress, Fresh, Sound, ClientOK
    <2>3. SUFFICES ASSUME NEW c \in Clients, Told(c)', NEW n \in 1 .. last
                   PROVE  Reaches(toClient'[conn[c]], cursor'[c], view'[c], n)
      BY <2>1 DEF Informed
    <2>4. Told(c) /\ conn[c] \in Conns
      BY <1>1, <2>1, <2>3 DEF Told
    <2>5. Reaches(toClient[conn[c]], cursor[c], view[c], n)
      BY <2>4 DEF Informed
    <2>6. CASE c = c0
      <3>1. toClient'[k0] = Tail(toClient[k0]) /\ toClient[k0] \in Seq(Texts) /\ cursor[c0] \in Nat /\ n \in Nat \ {0}
        BY <1>1, <2>1 DEF Sound, ClientOK
      <3> HIDE DEF k0
      <3>2. Reaches(toClient[k0], cursor[c0], view[c0], n)
        BY <2>5, <2>6 DEF k0
      <3>3. Reaches(Tail(toClient[k0]), cursor'[c0], view'[c0], n)
        BY <2>1, <2>2, <3>1, <3>2, TakenReaches
      <3>4. QED
        BY <2>6, <3>1, <3>3 DEF k0
    <2>7. CASE c # c0
      <3>1. conn[c] # k0
        BY <2>1, <2>4, <2>7 DEF OwnLink, Told
      <3>2. toClient'[conn[c]] = toClient[conn[c]]
        BY <1>1, <2>1, <2>4, <3>1
      <3>3. QED
        BY <2>2, <2>5, <2>7, <3>2
    <2>8. QED
      BY <2>6, <2>7
  <1>16. ASSUME NEW c0 \in Clients, NEW command \in {"prompt", "adjust", "detach"}, AskAttach(c0) \/ AskCommand(c0, command)
         PROVE Informed'
    <2>1. UNCHANGED <<conn, cursor, view, last, content, member, replay, link, toClient>>
      BY <1>16 DEF AskAttach, AskCommand, Ask, session, log
    <2>2. QED
      BY <2>1 DEF Informed, Told
  <1>17. CASE UNCHANGED vars
    BY <1>17 DEF vars, Informed, Told
  <1>18. QED
    BY <1>2, <1>3, <1>4, <1>5, <1>6, <1>7, <1>8, <1>9, <1>10, <1>11, <1>12, <1>13, <1>14, <1>15, <1>16, <1>17
       DEF Next, Handle, Acquire, Replay

(***************************************************************************)
(* Replays, live events and snapshots fit together: a client that is       *)
(* attached, and to whom nothing is on its way, has every event that the   *)
(* server's snapshot has, over any number of connections and evictions     *)
(* (sessions.ts, attachSession and replay; state.ts, applyEvent).          *)
(***************************************************************************)
THEOREM QuietClientsAgree == ASSUME ~Strand PROVE Spec => []QuietAgrees
  <1>1. Init => OwnLink /\ Informed
    BY DEF Init, OwnLink, Informed, Told, Joins
  <1>2. Sound /\ OwnLink /\ Informed /\ [Next]_vars => OwnLink' /\ Informed'
    BY OwnLinkStep, InformedStep
  <1>3. Sound /\ Informed /\ HoldersAreMembers => QuietAgrees
    <2> SUFFICES ASSUME Sound, Informed, HoldersAreMembers, NEW c \in Clients,
                        Quiet(c) /\ conn[c] \in holds /\ live = "ready" /\ content = last
                 PROVE  view[c] = 1 .. last
      BY DEF QuietAgrees
    <2>1. Told(c) /\ toClient[conn[c]] = <<>>
      BY DEF Quiet, HoldersAreMembers, Told
    <2>2. \A n \in 1 .. last : n \in view[c]
      BY <2>1 DEF Informed, Reaches, BySnapshot, ByEvent
    <2>3. QED
      BY <2>2 DEF Sound, ClientOK
  <1>4. Spec => []Sound
    BY SoundInit, SoundStep, PTL DEF Spec
  <1>5. QED
    BY <1>1, <1>2, <1>3, <1>4, HoldersCounted, PTL DEF Spec
=============================================================================
