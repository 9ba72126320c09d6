--------------------------- MODULE ContextRestore ---------------------------
(***************************************************************************)
(* What the conversation service reads back from the durable event stream: *)
(* which turns a restored context holds, which turns it reports as         *)
(* interrupted, and where a summary may cut the stream                     *)
(* (server/src/runtime/context-restore.ts and compaction-drive.ts).        *)
(*                                                                         *)
(* The source folds over the events.  Here the same facts are stated by    *)
(* position: a user message opens a segment, the next closing event ends   *)
(* it.  ContextRestoreFold holds the folds themselves, as loops, and       *)
(* ContextRestoreProofs proves that the two agree.                         *)
(*                                                                         *)
(* An event is [type, turn, from].  `turn` is the turnId column and `from` *)
(* stands for the payload text of an assistant message: the turn whose     *)
(* answer that text is.                                                    *)
(***************************************************************************)
EXTENDS Integers, Sequences

CONSTANTS Turns,   \* turn ids, one for each request to run a turn
          NoTurn   \* the null turn id

ASSUME NoTurnAssumption == NoTurn \notin Turns

(***************************************************************************)
(* "call" and "result" are tool/call and tool/result or tool/error;        *)
(* "partial" is an assistant/message whose payload status is interrupted,  *)
(* which only the debug plane writes; "other" stands for every event       *)
(* type that restoring skips (conversation/archived, /rollover, ...).      *)
(***************************************************************************)
EventTypes == {"start", "user", "call", "result", "assistant", "partial",
               "end", "failed", "interrupted", "other"}

Events == [type : EventTypes, turn : Turns \cup {NoTurn}, from : Turns \cup {NoTurn}]

Event(type, turn, from) == [type |-> type, turn |-> turn, from |-> from]

\* Events that finish or discard the pending turn of the fold.
Closing == {"user", "end", "failed", "interrupted"}

\* Events that make the pending turn count as completed (hasCompletion).
Completing == {"call", "result", "assistant"}

(***************************************************************************)
(* The positions a restore reads: everything after the summary's           *)
(* throughSequence, without the events of the excluded turn.               *)
(***************************************************************************)
Replayed(log, through, excluded) ==
    {i \in DOMAIN log : i > through /\ log[i].turn # excluded}

UserPositions(log, P) == {i \in P : log[i].type = "user"}

ClosedBetween(log, P, i, j) == \E k \in P : i < k /\ k < j /\ log[k].type \in Closing

\* The events the fold adds to the turn opened by the user message at i.
Segment(log, P, i) == {j \in P : /\ i < j
                                 /\ log[j].type \notin Closing
                                 /\ ~ClosedBetween(log, P, i, j)}

HasCompletion(log, P, i) == \E j \in Segment(log, P, i) : log[j].type \in Completing

DiscardedByAny(log, P, i) == \E k \in P : i < k /\ log[k].type \in {"failed", "interrupted"}

DiscardedByFailure(log, P, i) == \E k \in P : /\ i < k
                                              /\ log[k].type = "failed"
                                              /\ ~ClosedBetween(log, P, i, k)

\* turn/failed and turn/interrupted discard the pending turn.
Discarded(log, P, i) == \E k \in P : /\ i < k
                                     /\ log[k].type \in {"failed", "interrupted"}
                                     /\ ~ClosedBetween(log, P, i, k)

\* The user positions of the turns that are restored.
KeptUnlessDiscarded(log, P) == {i \in UserPositions(log, P) : ~Discarded(log, P, i)}

CompletedPositions(log, P) ==
    {i \in UserPositions(log, P) : ~Discarded(log, P, i) /\ HasCompletion(log, P, i)}

\* The user positions of the turns reported in interruptedTurnIds.
InterruptedPositions(log, P) ==
    {i \in UserPositions(log, P) : ~Discarded(log, P, i) /\ ~HasCompletion(log, P, i)}

(***************************************************************************)
(* trimTurnsToBudget keeps a suffix of the completed turns, at least the   *)
(* newest.  The sizes are data, so every such suffix is possible.          *)
(***************************************************************************)
TrimmedSuffixes(C) == IF C = {} THEN {{}} ELSE {{i \in C : i >= first} : first \in C}

\* Does the segment opened at i put an assistant item into the transcript?
HasAssistantItem(log, P, i) ==
    \E j \in Segment(log, P, i) : log[j].type \in {"assistant", "call"}

\* The turn of the last assistant item of a restored transcript.
LastAnswered(log, P, kept) ==
    LET answered == {i \in kept : HasAssistantItem(log, P, i)}
        newest   == {i \in answered : \A j \in answered : j <= i}
    IN  IF newest = {} THEN NoTurn ELSE log[CHOOSE i \in newest : TRUE].turn

(***************************************************************************)
(* completedTurns of the compaction driver: an assistant message whose     *)
(* nearest preceding user, assistant, failed or end event is a user        *)
(* message.  Unlike a restore it does not look at the payload status, and  *)
(* turn/interrupted does not clear the pending user message.               *)
(***************************************************************************)
PairingTypes == {"user", "assistant", "partial", "failed", "end"}

PairedWith(log, through, i, j) ==
    /\ through < i /\ i < j
    /\ log[i].type = "user" /\ log[j].type \in {"assistant", "partial"}
    /\ \A k \in i + 1 .. j - 1 : log[k].type \notin PairingTypes

PairedAnswers(log, through) ==
    {j \in DOMAIN log : \E i \in DOMAIN log : PairedWith(log, through, i, j)}

BoundariesAtQuestion(log, through) ==
    {i \in UserPositions(log, DOMAIN log) : i > through /\ i < Len(log)}

(***************************************************************************)
(* planCompaction cuts behind a paired answer and keeps at least the       *)
(* newest pair.  Token counts decide which one: every one is possible.     *)
(***************************************************************************)
SummaryBoundaries(log, through) ==
    {j \in PairedAnswers(log, through) : \E k \in PairedAnswers(log, through) : j < k}
=============================================================================
