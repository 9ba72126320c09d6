------------------------- MODULE ContextRestoreFold -------------------------
(***************************************************************************)
(* The two loops over the event stream as the source writes them, beside   *)
(* the positional definitions of ContextRestore.  Every step reads one     *)
(* more event, an arbitrary one, so that they are compared on every event  *)
(* stream, the ones no writer produces included.                           *)
(***************************************************************************)
EXTENDS ContextRestore

CONSTANTS MaxLen,   \* bound on the length of the event stream
          Cuts      \* the lengths of what the newest summary may cover

ASSUME CutsAssumption == Cuts \subseteq Nat

VARIABLES
    log,        \* the event stream, as far as it has been read
    through,    \* throughSequence of the newest summary
    excluded,   \* the turn whose events the restore leaves out, or NoTurn
    restored,   \* the locals of restoreContext
    paired      \* the locals of completedTurns

vars == <<log, through, excluded, restored, paired>>

ReadEvents == {Event(type, t, t) : type \in EventTypes \ {"start", "other"}, t \in Turns}

(***************************************************************************)
(* restoreContext.  A turn stands at the position of its first event, which *)
(* is 0 when no turn is pending (null).                                    *)
(***************************************************************************)
NoPending == [turn |-> NoTurn, at |-> 0, hasUser |-> FALSE, hasCompletion |-> FALSE]

Pending(e, i, hasUser) == [turn |-> e.turn, at |-> i, hasUser |-> hasUser, hasCompletion |-> FALSE]

EmptyFold == [current |-> NoPending, turns |-> <<>>, interrupted |-> <<>>]

FinalizeCurrent(s, drop) ==
    LET turn == s.current
        kept == ~drop /\ turn.hasUser
    IN  [current |-> NoPending,
         turns |-> IF kept /\ turn.hasCompletion THEN Append(s.turns, turn.at) ELSE s.turns,
         interrupted |-> IF kept /\ ~turn.hasCompletion /\ turn.turn # NoTurn
                         THEN Append(s.interrupted, turn.at) ELSE s.interrupted]

Complete(s) == [s EXCEPT !.current = [@ EXCEPT !.hasCompletion = TRUE]]

RestoreStepKeepsInterrupted(s, e, i) ==
    CASE e.type = "user" -> [FinalizeCurrent(s, FALSE) EXCEPT !.current = Pending(e, i, TRUE)]
      [] e.type = "assistant" -> IF s.current.hasUser THEN Complete(s) ELSE s
      [] e.type \in {"call", "result"} -> IF s.current = NoPending THEN s ELSE Complete(s)
      [] e.type \in {"end", "interrupted"} -> FinalizeCurrent(s, FALSE)
      [] e.type = "failed" -> FinalizeCurrent(s, TRUE)
      [] OTHER -> s

RestoreStep(s, e, i) ==
    CASE e.type = "user" -> [FinalizeCurrent(s, FALSE) EXCEPT !.current = Pending(e, i, TRUE)]
      [] e.type = "assistant" -> IF s.current.hasUser THEN Complete(s) ELSE s
      [] e.type = "call" ->
            IF s.current = NoPending THEN Complete([s EXCEPT !.current = Pending(e, i, FALSE)])
                                     ELSE Complete(s)
      [] e.type = "result" -> IF s.current = NoPending THEN s ELSE Complete(s)
      [] e.type = "end" -> FinalizeCurrent(s, FALSE)
      [] e.type \in {"failed", "interrupted"} -> FinalizeCurrent(s, TRUE)
      [] OTHER -> s

\* restoreHistory hands over the events behind the summary, less a turn's.
Restoring(e, i) == restored' = IF e.turn = excluded THEN restored ELSE RestoreStep(restored, e, i)

\* What restoreContext returns when the stream ends here.
RestoredContext == FinalizeCurrent(restored, FALSE)

(***************************************************************************)
(* completedTurns of the compaction driver: is a question pending, and the *)
(* positions of the answers (assistantSequence) so far.                    *)
(***************************************************************************)
NoPairs == [pending |-> FALSE, out |-> <<>>]

CompactStep(s, e, i) ==
    CASE e.type = "user" -> [s EXCEPT !.pending = TRUE]
      [] e.type \in {"assistant", "partial"} ->
            IF s.pending THEN [pending |-> FALSE, out |-> Append(s.out, i)] ELSE s
      [] e.type \in {"failed", "end"} -> [s EXCEPT !.pending = FALSE]
      [] OTHER -> s

-----------------------------------------------------------------------------
\* Both loops begin behind the summary.
Init == /\ through \in Cuts /\ log \in [1 .. through -> ReadEvents]
        /\ excluded \in Turns \cup {NoTurn}
        /\ restored = EmptyFold /\ paired = NoPairs

Read(e) == /\ Len(log) < MaxLen
           /\ log' = Append(log, e)
           /\ Restoring(e, Len(log) + 1)
           /\ paired' = CompactStep(paired, e, Len(log) + 1)
           /\ UNCHANGED <<through, excluded>>

Next == \E e \in ReadEvents : Read(e)

Spec == Init /\ [][Next]_vars

-----------------------------------------------------------------------------
\* The positions of S, in increasing order.
Lists(s, S) == /\ {s[k] : k \in DOMAIN s} = S
               /\ \A j, k \in DOMAIN s : j < k => s[j] < s[k]

Identified(S) == {i \in S : log[i].turn # NoTurn}

(***************************************************************************)
(* The positional definitions say what the loops compute, for every stream, *)
(* every summary and every excluded turn: the completed turns in order, the *)
(* interrupted turns in order (context-restore.ts:103-250), and the answers *)
(* a summary may cut behind (compaction-drive.ts:259-287).                 *)
(***************************************************************************)
FoldsAgree ==
    LET P == Replayed(log, through, excluded)
    IN  /\ Lists(RestoredContext.turns, CompletedPositions(log, P))
        /\ Lists(RestoredContext.interrupted, Identified(InterruptedPositions(log, P)))
        /\ Lists(paired.out, PairedAnswers(log, through))
=============================================================================
