----------------------------- MODULE TurnLedger -----------------------------
(***************************************************************************)
(* What the event stream of a conversation promises its readers (the       *)
(* persistence order in the comment of executeTurn, service.ts:631-646):   *)
(* one turn writes at a time, its events follow turn/start, user/message,  *)
(* then assistant/message and turn/end or turn/failed, and a turn that has *)
(* given up the stream never writes again.  Other events may appear        *)
(* anywhere.                                                               *)
(***************************************************************************)
EXTENDS ContextRestore

VARIABLES
    log,     \* the event stream
    writer,  \* the turn that may write, or NoTurn
    begun    \* the turns that have been given the stream

vars == <<log, writer, begun>>

\* The events only the running turn writes; the others are side events.
CoreTypes == {"start", "user", "assistant", "end", "failed"}

CoreEventOf(e, t) == e.type \in CoreTypes /\ e.turn = t

Written(s, t, type) == \E i \in DOMAIN s : s[i].type = type /\ s[i].turn = t

\* May turn t write a core event of this type next?
Allowed(s, t, type) ==
    /\ ~Written(s, t, type) /\ ~Written(s, t, "end") /\ ~Written(s, t, "failed")
    /\ IF type = "start" THEN \A c \in CoreTypes : ~Written(s, t, c) ELSE Written(s, t, "start")
    /\ type \in {"assistant", "end", "failed"} => Written(s, t, "user")
    /\ type = "user" => ~Written(s, t, "assistant")
    /\ type = "failed" => ~Written(s, t, "assistant")

Init == log = <<>> /\ writer = NoTurn /\ begun = {}

Begin(t) ==
    /\ writer = NoTurn /\ t \notin begun
    /\ writer' = t /\ begun' = begun \cup {t}
    /\ UNCHANGED log

Write(t) ==
    /\ writer = t
    /\ \E e \in Events : CoreEventOf(e, t) /\ Allowed(log, t, e.type) /\ log' = Append(log, e)
    /\ UNCHANGED <<writer, begun>>

Note ==
    /\ \E e \in Events : e.type \notin CoreTypes /\ log' = Append(log, e)
    /\ UNCHANGED <<writer, begun>>

Release ==
    /\ writer # NoTurn /\ writer' = NoTurn
    /\ UNCHANGED <<log, begun>>

Next == (\E t \in Turns : Begin(t) \/ Write(t)) \/ Note \/ Release

Spec == Init /\ [][Next]_vars

-----------------------------------------------------------------------------
TypeOK ==
    /\ log \in Seq(Events)
    /\ writer \in Turns \cup {NoTurn}
    /\ begun \subseteq Turns

(***************************************************************************)
(* The core events of a turn are contiguous: between two of them there is  *)
(* no core event of another turn, so a reader that goes by position, as    *)
(* restoreContext does, attributes them to the right turn.                 *)
(***************************************************************************)
Contiguous ==
    \A i, j, k \in DOMAIN log :
        (/\ i < j /\ j < k
         /\ log[i].type \in CoreTypes /\ log[j].type \in CoreTypes /\ log[k].type \in CoreTypes
         /\ log[i].turn = log[k].turn)
        => log[j].turn = log[i].turn

(***************************************************************************)
(* The core events of one turn come in the persistence order: each at most *)
(* once, and nothing after turn/end or turn/failed.                        *)
(***************************************************************************)
Follows == {<<"start", "user">>, <<"start", "assistant">>, <<"start", "end">>,
            <<"start", "failed">>, <<"user", "assistant">>, <<"user", "end">>,
            <<"user", "failed">>, <<"assistant", "end">>}

Grammatical ==
    \A i, j \in DOMAIN log :
        (/\ i < j /\ log[i].turn = log[j].turn
         /\ log[i].type \in CoreTypes /\ log[j].type \in CoreTypes)
        => <<log[i].type, log[j].type>> \in Follows
=============================================================================
