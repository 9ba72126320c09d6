------------------------ MODULE MCConversationTurns ------------------------
(***************************************************************************)
(* Budgets for model checking ConversationTurns.  Each names the faults    *)
(* and optional events one run allows; all others never happen in it.      *)
(***************************************************************************)
EXTENDS ConversationTurns, TLC

Allow(quota) == [k \in BudgetKinds |-> IF k \in DOMAIN quota THEN quota[k] ELSE 0]

\* Every fault once, for two turns.
FaultBudget == Allow([crash |-> 1, append |-> 1, fail |-> 1, throw |-> 1, stop |-> 1, tool |-> 1])

\* The process dies twice between turns that fail in the other ways.
RestartBudget == Allow([crash |-> 2, throw |-> 1, fail |-> 1, stop |-> 1, archive |-> 1])

\* Turns that succeed while the context is summarised again and again.
SummaryBudget == Allow([summary |-> 2, rollover |-> 1, append |-> 1, crash |-> 1, tool |-> 1])

Symmetry == Permutations(Turns)
=============================================================================
