----------------------- MODULE ConversationTurnsProofs -----------------------
(***************************************************************************)
(* For every set of turns and every budget of faults: the types, the       *)
(* single writer, that the stream implements TurnLedger, hence is readable *)
(* by position, and what a reader gets out of it.                          *)
(*                                                                         *)
(* The inductive invariant adds to the types and the single writer what a  *)
(* turn has written by each phase: that is what makes the next write legal.*)
(***************************************************************************)
EXTENDS ConversationTurns, TLAPS

Wrote(t, type) == Ledger!Written(log, t, type)

NothingWritten == {"idle", "checked", "rejected", "entered", "converging", "restored"}
UserWritten == {"asked", "rebuilding", "ready", "prompting", "answered", "failing"}

StageOf(t) ==
    /\ pc[t] \in NothingWritten => \A c \in Ledger!CoreTypes : ~Wrote(t, c)
    /\ pc[t] = "started" =>
          Wrote(t, "start") /\ \A c \in Ledger!CoreTypes \ {"start"} : ~Wrote(t, c)
    /\ pc[t] \in UserWritten =>
          /\ Wrote(t, "start") /\ Wrote(t, "user")
          /\ ~Wrote(t, "assistant") /\ ~Wrote(t, "end") /\ ~Wrote(t, "failed")
    /\ pc[t] = "ending" =>
          /\ Wrote(t, "start") /\ Wrote(t, "user")
          /\ ~Wrote(t, "end") /\ ~Wrote(t, "failed")

Stages == \A t \in Turns : StageOf(t)

IInv == TypeOK /\ SingleWriter /\ Stages

LedgerStep == [Ledger!Next]_<<log, Writer, Begun>>

-----------------------------------------------------------------------------
LEMMA EventType ==
    ASSUME NEW type \in EventTypes, NEW t \in TurnIds, NEW from \in TurnIds
    PROVE  /\ Event(type, t, from) \in Events
           /\ Event(type, t, from).type = type /\ Event(type, t, from).turn = t
  BY DEF Event, Events, TurnIds

LEMMA AppendType ==
    ASSUME NEW s \in Seq(Events), NEW e \in Events
    PROVE  Append(s, e) \in Seq(Events)
  OBVIOUS

LEMMA WrittenAppend ==
    ASSUME NEW s \in Seq(Events), NEW e \in Events, NEW u, NEW c
    PROVE  Ledger!Written(Append(s, e), u, c) <=>
              (Ledger!Written(s, u, c) \/ (e.type = c /\ e.turn = u))
<1>1. /\ DOMAIN Append(s, e) = DOMAIN s \cup {Len(s) + 1}
      /\ \A i \in DOMAIN s : Append(s, e)[i] = s[i]
      /\ Append(s, e)[Len(s) + 1] = e
  OBVIOUS
<1>2. QED
  BY <1>1 DEF Ledger!Written

\* A restore reads from a whole number on, -1 when there is no summary.
LEMMA ThroughNumbers ==
    /\ Nat \subseteq Throughs /\ NoSummary \in Throughs /\ NoSummary \notin Nat
    /\ \A n \in Throughs : n \in Int /\ n >= NoSummary
  BY DEF Throughs, NoSummary

\* What a restore keeps are positions of the stream, so its result is typed.
LEMMA RestoredType ==
    ASSUME TypeOK, NEW through, NEW excluded,
           NEW kept \in TrimmedSuffixes(CompletedPositions(log, Replayed(log, through, excluded)))
    PROVE  Restored(kept, Replayed(log, through, excluded)) \in Contexts
<1> DEFINE P == Replayed(log, through, excluded)
<1>1. P \subseteq DOMAIN log
  BY DEF Replayed
<1>2. CompletedPositions(log, P) \subseteq P
  BY DEF CompletedPositions, UserPositions
<1>3. kept \subseteq CompletedPositions(log, P)
  BY DEF TrimmedSuffixes
<1>4. \A i \in DOMAIN log : log[i].turn \in TurnIds
  <2>1. log \in Seq(Events)
    BY DEF TypeOK
  <2>2. \A i \in DOMAIN log : log[i] \in Events
    BY <2>1
  <2>3. QED
    BY <2>2 DEF Events, TurnIds
<1>5. LastAnswered(log, P, kept) \in TurnIds
  BY <1>1, <1>2, <1>3, <1>4 DEF LastAnswered, TurnIds
<1>6. {log[i].turn : i \in kept} \subseteq TurnIds
  BY <1>1, <1>2, <1>3, <1>4
<1>7. summary \in Throughs
  BY DEF TypeOK
<1>8. QED
  BY <1>5, <1>6, <1>7 DEF Restored, Contexts

-----------------------------------------------------------------------------
(* The abstract writer is the turn in execution, in any assignment of phases. *)
LEMMA WriterIs ==
    ASSUME NEW p, NEW t \in Turns, p[t] \in Executing,
           \A u \in Turns : p[u] \in Executing => u = t
    PROVE  WriterOf(p) = t
  BY DEF WriterOf

LEMMA WriterNone ==
    ASSUME NEW p, \A t \in Turns : p[t] \notin Executing
    PROVE  WriterOf(p) = NoTurn
  BY DEF WriterOf

(***************************************************************************)
(* A step that keeps every turn on its side of the guard leaves the        *)
(* abstract writer alone.                                                  *)
(***************************************************************************)
LEMMA SameWriter ==
    ASSUME TypeOK, SingleWriter,
           \A u \in Turns : /\ pc'[u] \in Executing <=> pc[u] \in Executing
                            /\ pc'[u] \in {"idle", "checked", "rejected"} <=>
                               pc[u] \in {"idle", "checked", "rejected"}
    PROVE  Writer' = Writer /\ Begun' = Begun
<1>1. Begun' = Begun
  BY DEF Begun
<1>2. CASE \E t \in Turns : InExecution(t)
  <2>1. PICK t \in Turns : InExecution(t)
    BY <1>2
  <2>2. \A u \in Turns : pc[u] \in Executing => u = t
    BY <2>1 DEF SingleWriter, InExecution
  <2>3. Writer = t
    BY <2>1, <2>2, WriterIs DEF Writer, InExecution
  <2>4. Writer' = t
    BY <2>1, <2>2, WriterIs DEF Writer, InExecution
  <2>5. QED
    BY <1>1, <2>3, <2>4
<1>3. CASE \A t \in Turns : ~InExecution(t)
  <2>1. Writer = NoTurn /\ Writer' = NoTurn
    BY <1>3, WriterNone DEF Writer, InExecution
  <2>2. QED
    BY <1>1, <2>1
<1>4. QED
  BY <1>2, <1>3

\* A move of the turn in execution that stays in execution.
LEMMA StaysIn ==
    ASSUME TypeOK, SingleWriter, NEW t \in Turns,
           NEW from \in Executing, NEW to \in Executing,
           Goto(t, from, to), UNCHANGED running
    PROVE  SingleWriter' /\ Writer' = Writer /\ Begun' = Begun /\ Writer = t
           /\ pc' \in [Turns -> Phases]
<1>1. /\ pc' = [pc EXCEPT ![t] = to] /\ pc[t] = from /\ pc \in [Turns -> Phases]
  BY DEF Goto, TypeOK
<1>2. /\ from \notin {"idle", "checked", "rejected"} /\ to \notin {"idle", "checked", "rejected"}
      /\ to \in Phases
  BY DEF Executing, Phases
<1>3. \A u \in Turns : /\ pc'[u] \in Executing <=> pc[u] \in Executing
                       /\ pc'[u] \in {"idle", "checked", "rejected"} <=>
                          pc[u] \in {"idle", "checked", "rejected"}
  BY <1>1, <1>2
<1>4. Writer' = Writer /\ Begun' = Begun
  BY <1>3, SameWriter
<1>5. SingleWriter'
  BY <1>3 DEF SingleWriter, InExecution
<1>6. Writer = t
  BY <1>1, WriterIs DEF SingleWriter, InExecution, Writer
<1>7. QED
  BY <1>1, <1>2, <1>4, <1>5, <1>6

-----------------------------------------------------------------------------
(* Types. *)
LEMMA SpendType ==
    ASSUME TypeOK, NEW kind \in BudgetKinds, Spend(kind)
    PROVE  used' \in [BudgetKinds -> Nat]
  BY DEF TypeOK, Spend

LEMMA SafeAppendType ==
    ASSUME TypeOK, NEW type \in EventTypes, NEW t \in TurnIds, NEW from \in TurnIds,
           SafeAppend(type, t, from)
    PROVE  log' \in Seq(Events) /\ used' \in [BudgetKinds -> Nat]
<1>1. log \in Seq(Events) /\ used \in [BudgetKinds -> Nat]
  BY DEF TypeOK
<1>2. CASE Append_(type, t, from) /\ UNCHANGED used
  BY <1>1, <1>2, EventType, AppendType DEF Append_
<1>3. CASE Spend("append") /\ UNCHANGED log
  BY <1>1, <1>3, SpendType DEF BudgetKinds
<1>4. QED
  BY <1>2, <1>3 DEF SafeAppend

LEMMA GotoType ==
    ASSUME TypeOK, NEW t \in Turns, NEW from, NEW to \in Phases, Goto(t, from, to)
    PROVE  pc' \in [Turns -> Phases]
  BY DEF TypeOK, Goto

LEMMA InsertSummaryType ==
    ASSUME TypeOK, InsertSummary
    PROVE  summary' \in Throughs /\ used' \in [BudgetKinds -> Nat]
<1>1. log \in Seq(Events)
  BY DEF TypeOK
<1>2. DOMAIN log \subseteq Nat
  BY <1>1
<1>3. SummaryBoundaries(log, summary) \subseteq DOMAIN log
  BY DEF SummaryBoundaries, PairedAnswers
<1>4. summary' \in Nat
  BY <1>2, <1>3 DEF InsertSummary
<1>5. QED
  BY <1>4, ThroughNumbers, SpendType DEF InsertSummary, BudgetKinds

\* The rollover check moves the newest summary forward or leaves it alone.
LEMMA RolloverSummary ==
    ASSUME TypeOK, NEW t \in Turns, RolloverCheck(t)
    PROVE  summary' \in Throughs /\ summary' >= summary
<1> DEFINE covered == {summary, 0} \cup {j \in PairedAnswers(log, 0) : j <= ListLimit}
<1>1. log \in Seq(Events) /\ summary \in Throughs
  BY DEF TypeOK
<1>2. covered \subseteq Throughs
  BY <1>1, ThroughNumbers DEF PairedAnswers
<1>3. CASE UNCHANGED summary
  BY <1>1, <1>3, ThroughNumbers
<1>4. CASE \E n \in covered : Newest(covered, n) /\ summary' = n
  BY <1>1, <1>2, <1>4 DEF Newest
<1>5. QED
  BY <1>3, <1>4 DEF RolloverCheck

\* Hydrating the runtime with a typed context gives a typed runtime.
LEMMA HydrateType ==
    ASSUME TypeOK, NEW t \in Turns
    PROVE  Hydrate(t) \in Runtimes
  BY DEF TypeOK, Hydrate, Runtimes, Contexts

LEMMA PhaseNames ==
    /\ Executing \subseteq Phases
    /\ {"idle", "checked", "done", "failed", "rejected", "lost"} \subseteq Phases
    /\ Turns \subseteq TurnIds /\ NoTurn \in TurnIds
  BY DEF Phases, TurnIds

LEMMA InitType == Init => TypeOK
<1>1. NoContext \in Contexts /\ NoRuntime \in Runtimes
  BY ThroughNumbers DEF NoContext, Contexts, NoRuntime, Runtimes, TurnIds
<1>2. "idle" \in Phases /\ NoTurn \in TurnIds
  BY PhaseNames
<1>3. Init => /\ log \in Seq(Events) /\ status \in {"active", "archived"} /\ summary \in Throughs
              /\ running \in BOOLEAN
  <2>1. Init => log = <<>> /\ status = "active" /\ summary = NoSummary /\ running = FALSE
    BY DEF Init
  <2>2. ASSUME log = <<>> PROVE log \in Seq(Events)
    BY <2>2
  <2>3. ASSUME Init PROVE log \in Seq(Events)
    BY <2>1, <2>2, <2>3
  <2>4. ASSUME Init PROVE status \in {"active", "archived"} /\ summary \in Throughs
    BY <2>1, <2>4, ThroughNumbers
  <2>5. ASSUME Init PROVE running \in BOOLEAN
    BY <2>5 DEF Init
  <2>6. QED
    BY <2>3, <2>4, <2>5
<1>4. Init => /\ pc \in [Turns -> Phases] /\ history \in [Turns -> Contexts]
              /\ orphans \in [Turns -> SUBSET Turns] /\ reply \in [Turns -> TurnIds]
              /\ tool \in [Turns -> {"none", "called", "finished"}]
  BY <1>1, <1>2 DEF Init
<1>5. Init => /\ pending \subseteq ToolEvents /\ runtime \in Runtimes
              /\ archiving \in {"no", "read", "updated"} /\ used \in [BudgetKinds -> Nat]
  BY <1>1 DEF Init
<1>6. QED
  BY <1>3, <1>4, <1>5 DEF TypeOK

LEMMA TurnStepType ==
    ASSUME TypeOK, NEW t \in Turns, TurnStep(t)
    PROVE  TypeOK'
<1> USE PhaseNames
<1>1. CASE Enter(t) \/ AlreadyRunning(t) \/ Converged(t)
  BY <1>1, GotoType DEF Enter, AlreadyRunning, Converged, durable, locals, TypeOK, Executing
<1>2. CASE RestoreHistory(t)
  <2>1. history' \in [Turns -> Contexts]
    BY <1>2, RestoredType DEF RestoreHistory, TypeOK
  <2>2. orphans' \in [Turns -> SUBSET Turns]
    <3> DEFINE P == Replayed(log, summary, NoTurn)
    <3>1. InterruptedPositions(log, P) \subseteq DOMAIN log
      BY DEF InterruptedPositions, UserPositions, Replayed
    <3>2. log \in Seq(Events)
      BY DEF TypeOK
    <3>3. \A i \in DOMAIN log : log[i] \in Events
      BY <3>2
    <3>4. {log[i].turn : i \in InterruptedPositions(log, P)} \ {NoTurn} \subseteq Turns
      BY <3>1, <3>3 DEF Events
    <3>5. QED
      BY <1>2, <3>4 DEF RestoreHistory, TypeOK
  <2>3. pc' \in [Turns -> Phases]
    BY <1>2, GotoType DEF RestoreHistory, Executing
  <2>4. QED
    BY <1>2, <2>1, <2>2, <2>3 DEF RestoreHistory, durable, TypeOK
<1>3. CASE Converge(t)
  <2>1. PICK u \in orphans[t] : /\ SafeAppend("interrupted", u, NoTurn)
                               /\ orphans' = [orphans EXCEPT ![t] = @ \ {u}]
    BY <1>3 DEF Converge
  <2>2. u \in TurnIds
    BY DEF TypeOK, TurnIds
  <2>3. log' \in Seq(Events) /\ used' \in [BudgetKinds -> Nat]
    BY <2>1, <2>2, SafeAppendType DEF EventTypes
  <2>4. QED
    BY <1>3, <2>1, <2>3 DEF Converge, TypeOK
<1>4. CASE WriteStart(t) \/ WriteUser(t)
  <2>1. /\ pc' \in [Turns -> Phases]
        /\ SafeAppend("start", t, NoTurn) \/ SafeAppend("user", t, t)
    BY <1>4, GotoType DEF WriteStart, WriteUser, SafeAppend, Executing
  <2>2. log' \in Seq(Events) /\ used' \in [BudgetKinds -> Nat]
    BY <2>1, SafeAppendType DEF EventTypes
  <2>3. QED
    BY <1>4, <2>1, <2>2 DEF WriteStart, WriteUser, locals, TypeOK
<1>5. CASE PrePromptGuard(t)
  <2>1. pc' \in [Turns -> Phases]
    BY <1>5, GotoType DEF PrePromptGuard, Executing
  <2>2. summary' \in Throughs /\ used' \in [BudgetKinds -> Nat]
    BY <1>5, InsertSummaryType DEF PrePromptGuard, TypeOK
  <2>3. QED
    BY <1>5, <2>1, <2>2 DEF PrePromptGuard, locals, TypeOK
<1>6. CASE Rebuild(t)
  <2>1. history' \in [Turns -> Contexts]
    BY <1>6, RestoredType DEF Rebuild, TypeOK
  <2>2. pc' \in [Turns -> Phases]
    BY <1>6, GotoType DEF Rebuild, Executing
  <2>3. QED
    BY <1>6, <2>1, <2>2 DEF Rebuild, durable, TypeOK
<1>7. CASE Prompt(t)
  <2>1. runtime' \in Runtimes
    <3>1. Hydrate(t) \in Runtimes
      BY HydrateType
    <3>2. QED
      BY <1>7, <3>1 DEF Prompt, Runtimes
  <2>2. pc' \in [Turns -> Phases]
    BY <1>7, GotoType DEF Prompt, Executing
  <2>3. QED
    BY <1>7, <2>1, <2>2 DEF Prompt, durable, locals, TypeOK
<1>8. CASE PromptThrows(t)
  <2>1. runtime' \in Runtimes /\ used' \in [BudgetKinds -> Nat]
    BY <1>8, HydrateType, SpendType DEF PromptThrows, BudgetKinds
  <2>2. pc' \in [Turns -> Phases]
    BY <1>8, GotoType DEF PromptThrows, Executing
  <2>3. QED
    BY <1>8, <2>1, <2>2 DEF PromptThrows, durable, locals, TypeOK
<1>9. CASE ToolStarted(t)
  <2>1. used' \in [BudgetKinds -> Nat]
    BY <1>9, SpendType DEF ToolStarted, BudgetKinds
  <2>2. runtime' \in Runtimes
    BY <1>9 DEF ToolStarted, TypeOK, Runtimes
  <2>3. pending' \subseteq ToolEvents
    BY <1>9 DEF ToolStarted, TypeOK, ToolEvents
  <2>4. QED
    BY <1>9, <2>1, <2>2, <2>3 DEF ToolStarted, durable, locals, TypeOK
<1>10. CASE ToolFinished(t)
  <2>1. pending' \subseteq ToolEvents
    BY <1>10 DEF ToolFinished, TypeOK, ToolEvents
  <2>2. QED
    BY <1>10, <2>1 DEF ToolFinished, durable, locals, TypeOK
<1>11. CASE Answer(t)
  <2>1. runtime' \in Runtimes
    BY <1>11 DEF Answer, TypeOK, Runtimes
  <2>2. reply' \in [Turns -> TurnIds]
    BY <1>11 DEF Answer, TypeOK
  <2>3. pc' \in [Turns -> Phases]
    BY <1>11, GotoType DEF Answer, Executing
  <2>4. QED
    BY <1>11, <2>1, <2>2, <2>3 DEF Answer, durable, TypeOK
<1>12. CASE Stop(t)
  <2>1. used' \in [BudgetKinds -> Nat]
    BY <1>12, SpendType DEF Stop, BudgetKinds
  <2>2. reply' \in [Turns -> TurnIds]
    <3>1. runtime.last \in TurnIds
      BY DEF TypeOK, Runtimes
    <3>2. QED
      BY <1>12, <3>1 DEF Stop, TypeOK
  <2>3. pc' \in [Turns -> Phases]
    BY <1>12, GotoType DEF Stop, Executing
  <2>4. QED
    BY <1>12, <2>1, <2>2, <2>3 DEF Stop, durable, TypeOK
<1>13. CASE WriteAssistant(t) \/ WriteEnd(t) \/ WriteFailed(t)
  <2>1. pc' \in [Turns -> Phases]
    BY <1>13, GotoType DEF WriteAssistant, WriteEnd, WriteFailed, Executing
  <2>2. reply[t] \in TurnIds
    BY DEF TypeOK
  <2>3. log' \in Seq(Events) /\ used' \in [BudgetKinds -> Nat]
    BY <1>13, <2>2, SafeAppendType DEF WriteAssistant, WriteEnd, WriteFailed, EventTypes
  <2>4. QED
    BY <1>13, <2>1, <2>3 DEF WriteAssistant, WriteEnd, WriteFailed, locals, TypeOK
<1>14. CASE Compact(t)
  <2>1. pc' \in [Turns -> Phases]
    BY <1>14, GotoType DEF Compact, Executing
  <2>2. summary' \in Throughs /\ used' \in [BudgetKinds -> Nat]
    BY <1>14, InsertSummaryType DEF Compact, TypeOK
  <2>3. QED
    BY <1>14, <2>1, <2>2 DEF Compact, locals, TypeOK
<1>15. CASE ResetRuntime(t)
  <2>1. runtime' \in Runtimes
    BY <1>15, ThroughNumbers DEF ResetRuntime, NoRuntime, Runtimes, TurnIds
  <2>2. pc' \in [Turns -> Phases]
    BY <1>15, GotoType DEF ResetRuntime, Executing
  <2>3. QED
    BY <1>15, <2>1, <2>2 DEF ResetRuntime, durable, locals, TypeOK
<1>16. CASE FailsUncaught(t)
  <2>1. used' \in [BudgetKinds -> Nat]
    BY <1>16, SpendType DEF FailsUncaught, BudgetKinds
  <2>2. QED
    BY <1>16, <2>1 DEF FailsUncaught, durable, locals, TypeOK, Executing
<1>17. CASE RolloverCheck(t)
  <2>1. pc' \in [Turns -> Phases]
    BY <1>17, GotoType DEF RolloverCheck, Executing
  <2>2. used' \in [BudgetKinds -> Nat]
    BY <1>17, SpendType DEF RolloverCheck, BudgetKinds, TypeOK
  <2>3. summary' \in Throughs
    BY <1>17, RolloverSummary DEF RolloverCheck, TypeOK
  <2>4. QED
    BY <1>17, <2>1, <2>2, <2>3 DEF RolloverCheck, locals, TypeOK
<1>18. CASE RecordRollover(t)
  <2>1. pc' \in [Turns -> Phases]
    BY <1>18, GotoType DEF RecordRollover, Executing
  <2>2. log' \in Seq(Events) /\ used' \in [BudgetKinds -> Nat]
    BY <1>18, SafeAppendType DEF RecordRollover, EventTypes
  <2>3. QED
    BY <1>18, <2>1, <2>2 DEF RecordRollover, locals, TypeOK
<1>19. CASE Leave(t)
  <2>1. pc' \in [Turns -> Phases]
    BY <1>19, GotoType DEF Leave
  <2>2. QED
    BY <1>19, <2>1, ThroughNumbers DEF Leave, durable, NoContext, Contexts, TypeOK
<1>20. CASE PromptFails(t)
  <2>1. used' \in [BudgetKinds -> Nat]
    BY <1>20, SpendType DEF PromptFails, BudgetKinds
  <2>2. pc' \in [Turns -> Phases]
    BY <1>20, GotoType DEF PromptFails, Executing
  <2>3. QED
    BY <1>20, <2>1, <2>2 DEF PromptFails, durable, locals, TypeOK
<1>21. QED
  BY <1>1, <1>2, <1>3, <1>4, <1>5, <1>6, <1>7, <1>8, <1>9, <1>10, <1>11, <1>12, <1>13,
     <1>14, <1>15, <1>16, <1>17, <1>18, <1>19, <1>20 DEF TurnStep

LEMMA EnvironmentType ==
    ASSUME TypeOK, Environment
    PROVE  TypeOK'
<1> USE PhaseNames
<1>1. CASE \E t \in Turns : Submit(t)
  BY <1>1, GotoType DEF Submit, TypeOK
<1>2. CASE \E e \in ToolEvents : PersistTool(e)
  <2>1. PICK e \in ToolEvents : PersistTool(e)
    BY <1>2
  <2>2. e.type \in EventTypes /\ e.turn \in TurnIds
    BY DEF ToolEvents, EventTypes
  <2>3. log' \in Seq(Events) /\ used' \in [BudgetKinds -> Nat]
    BY <2>1, <2>2, SafeAppendType DEF PersistTool
  <2>4. QED
    BY <2>1, <2>3 DEF PersistTool, locals, TypeOK
<1>3. CASE SweepIdle
  BY <1>3, ThroughNumbers DEF SweepIdle, NoRuntime, Runtimes, durable, locals, TypeOK
<1>4. CASE ArchiveRequested
  BY <1>4, SpendType DEF ArchiveRequested, BudgetKinds, durable, locals, TypeOK
<1>5. CASE ArchiveUpdated
  BY <1>5 DEF ArchiveUpdated, locals, TypeOK
<1>6. CASE ArchiveRecorded
  BY <1>6, SafeAppendType DEF ArchiveRecorded, EventTypes, locals, TypeOK
<1>7. CASE Crash
  <2>1. used' \in [BudgetKinds -> Nat]
    BY <1>7, SpendType DEF Crash, BudgetKinds
  <2>2. pc' \in [Turns -> Phases]
    BY <1>7 DEF Crash, TypeOK
  <2>3. QED
    BY <1>7, <2>1, <2>2, ThroughNumbers DEF Crash, durable, NoContext, Contexts, NoRuntime, Runtimes, TypeOK
<1>8. QED
  BY <1>1, <1>2, <1>3, <1>4, <1>5, <1>6, <1>7 DEF Environment

(***************************************************************************)
(* The state stays typed, for every set of turns and every budget.         *)
(***************************************************************************)
THEOREM TypeCorrect == Spec => []TypeOK
<1>1. TypeOK /\ [Next]_vars => TypeOK'
  <2> SUFFICES ASSUME TypeOK, [Next]_vars PROVE TypeOK'
    OBVIOUS
  <2>1. CASE UNCHANGED vars
    BY <2>1 DEF vars, TypeOK
  <2>2. CASE Next
    BY <2>2, TurnStepType, EnvironmentType DEF Next
  <2>3. QED
    BY <2>1, <2>2
<1>2. QED
  BY InitType, <1>1, PTL DEF Spec

-----------------------------------------------------------------------------
(***************************************************************************)
(* Every step preserves the single writer and the stages, and is a step of *)
(* the ledger or leaves it alone.                                          *)
(***************************************************************************)
StepGoal == SingleWriter' /\ Stages' /\ LedgerStep

\* The stages depend on the phases and on what is written, nothing else.
LEMMA StagesFrame ==
    ASSUME Stages,
           \A u \in Turns, c \in Ledger!CoreTypes :
              Ledger!Written(log', u, c) <=> Ledger!Written(log, u, c),
           \A u \in Turns : \/ pc'[u] = pc[u]
                            \/ pc'[u] \in {"done", "failed", "lost", "aborting", "compacting",
                                           "resetting", "checking", "recording", "returning"}
                            \/ pc'[u] \in NothingWritten /\ pc[u] \in NothingWritten
                            \/ pc'[u] \in UserWritten /\ pc[u] \in UserWritten
                            \/ pc'[u] = "ending" /\ pc[u] \in UserWritten
    PROVE  Stages'
  BY DEF Stages, StageOf, Wrote, NothingWritten, UserWritten, Ledger!CoreTypes

\* A step that does not touch the stream and moves the running turn on.
LEMMA QuietMove ==
    ASSUME IInv, NEW t \in Turns, NEW from \in Executing, NEW to \in Executing,
           Goto(t, from, to), UNCHANGED <<log, running>>,
           \/ to \in {"aborting", "compacting", "resetting", "checking", "recording", "returning"}
           \/ to \in NothingWritten /\ from \in NothingWritten
           \/ to \in UserWritten /\ from \in UserWritten
           \/ to = "ending" /\ from \in UserWritten
    PROVE  StepGoal
<1>1. SingleWriter' /\ Writer' = Writer /\ Begun' = Begun
  BY StaysIn DEF IInv
<1>2. Stages'
  <2>1. pc[t] = from /\ \A u \in Turns : pc'[u] = IF u = t THEN to ELSE pc[u]
    BY DEF Goto, IInv, TypeOK
  <2>2. QED
    BY <2>1, StagesFrame DEF IInv
<1>3. QED
  BY <1>1, <1>2 DEF StepGoal, LedgerStep

\* The running turn writes an event the ledger allows.
LEMMA WriteMove ==
    ASSUME IInv, NEW t \in Turns, NEW from \in Executing, NEW to \in Executing,
           Goto(t, from, to), UNCHANGED running,
           NEW type \in Ledger!CoreTypes, NEW x \in TurnIds,
           Append_(type, t, x), Ledger!Allowed(log, t, type)
    PROVE  /\ SingleWriter' /\ LedgerStep
           /\ \A u \in Turns, c \in Ledger!CoreTypes :
                 Ledger!Written(log', u, c) <=>
                    (Ledger!Written(log, u, c) \/ (c = type /\ u = t))
<1>1. SingleWriter' /\ Writer' = Writer /\ Begun' = Begun /\ Writer = t
  BY StaysIn DEF IInv
<1>2. /\ Event(type, t, x) \in Events
      /\ Event(type, t, x).type = type /\ Event(type, t, x).turn = t
  BY EventType DEF Ledger!CoreTypes, EventTypes, TurnIds
<1>3. log \in Seq(Events)
  BY DEF IInv, TypeOK
<1>4. log' = Append(log, Event(type, t, x))
  BY DEF Append_
<1>5. Ledger!CoreEventOf(Event(type, t, x), t) /\ Event(type, t, x) \in Ledger!Events
  BY <1>2 DEF Ledger!CoreEventOf, Ledger!Events, Ledger!EventTypes, Events, EventTypes
<1>6. Ledger!Write(t)
  BY <1>1, <1>2, <1>4, <1>5 DEF Ledger!Write
<1>7. LedgerStep
  BY <1>6 DEF LedgerStep, Ledger!Next
<1>8. QED
  BY <1>1, <1>2, <1>3, <1>4, <1>7, WrittenAppend

\* Anyone may append a side event: phases stay, or a turn done with the stream moves on.
LEMMA SideEventMove ==
    ASSUME IInv, Writer' = Writer, Begun' = Begun, SingleWriter',
           \A u \in Turns : pc'[u] = pc[u] \/ pc'[u] = "returning",
           NEW type \in EventTypes \ Ledger!CoreTypes, NEW t \in TurnIds, NEW x \in TurnIds,
           SafeAppend(type, t, x)
    PROVE  StepGoal
<1>1. Writer' = Writer /\ Begun' = Begun /\ SingleWriter'
  OBVIOUS
<1>2. CASE UNCHANGED log
  BY <1>1, <1>2, StagesFrame DEF StepGoal, LedgerStep, IInv
<1>3. CASE Append_(type, t, x)
  <2>1. /\ Event(type, t, x) \in Events
        /\ Event(type, t, x).type = type
    BY EventType
  <2>2. log \in Seq(Events) /\ log' = Append(log, Event(type, t, x))
    BY <1>3 DEF IInv, TypeOK, Append_
  <2>3. \A u \in Turns, c \in Ledger!CoreTypes :
           Ledger!Written(log', u, c) <=> Ledger!Written(log, u, c)
    BY <2>1, <2>2, WrittenAppend
  <2>4. Stages'
    BY <2>3, StagesFrame DEF IInv
  <2>5. Event(type, t, x) \in Ledger!Events
    BY <2>1 DEF Ledger!Events, Ledger!EventTypes, Events, EventTypes
  <2>6. Ledger!Note
    BY <1>1, <2>1, <2>2, <2>5 DEF Ledger!Note
  <2>7. QED
    BY <1>1, <2>4, <2>6 DEF StepGoal, LedgerStep, Ledger!Next
<1>4. QED
  BY <1>2, <1>3 DEF SafeAppend

LEMMA SideEvent ==
    ASSUME IInv, UNCHANGED <<pc, running>>,
           NEW type \in EventTypes \ Ledger!CoreTypes, NEW t \in TurnIds, NEW x \in TurnIds,
           SafeAppend(type, t, x)
    PROVE  StepGoal
<1>1. Writer' = Writer /\ Begun' = Begun /\ SingleWriter'
  BY DEF Writer, Begun, IInv, SingleWriter, InExecution
<1>2. QED
  BY <1>1, SideEventMove

\* A step that touches neither the stream nor the phases.
LEMMA Unseen ==
    ASSUME IInv, UNCHANGED <<log, pc, running>>
    PROVE  StepGoal
  BY DEF IInv, StepGoal, LedgerStep, SingleWriter, InExecution, Stages, StageOf, Wrote,
         Writer, Begun

\* A turn outside execution moves on outside it.
LEMMA WaitingMove ==
    ASSUME IInv, NEW t \in Turns, Goto(t, "idle", "checked") \/ Goto(t, "idle", "rejected")
                                  \/ Goto(t, "checked", "rejected"),
           UNCHANGED <<log, running>>
    PROVE  StepGoal
<1>1. /\ pc[t] \in {"idle", "checked"} /\ pc'[t] \in {"checked", "rejected"}
      /\ \A u \in Turns : u # t => pc'[u] = pc[u]
  BY DEF Goto, IInv, TypeOK
<1>2. \A u \in Turns : /\ pc'[u] \in Executing <=> pc[u] \in Executing
                       /\ pc'[u] \in {"idle", "checked", "rejected"} <=>
                          pc[u] \in {"idle", "checked", "rejected"}
  BY <1>1 DEF Executing
<1>3. Writer' = Writer /\ Begun' = Begun
  BY <1>2, SameWriter DEF IInv
<1>4. SingleWriter'
  BY <1>2 DEF IInv, SingleWriter, InExecution
<1>5. Stages'
  BY <1>1, StagesFrame DEF IInv, NothingWritten
<1>6. QED
  BY <1>3, <1>4, <1>5 DEF StepGoal, LedgerStep

\* Entering takes the ledger.
LEMMA EnterStep ==
    ASSUME IInv, NEW t \in Turns, Enter(t)
    PROVE  StepGoal
<1>1. /\ pc[t] = "checked" /\ pc'[t] = "entered"
      /\ \A u \in Turns : u # t => pc'[u] = pc[u]
      /\ ~running /\ running' /\ log' = log
  BY DEF Enter, Goto, durable, IInv, TypeOK
<1>2. \A u \in Turns : pc[u] \notin Executing
  BY <1>1 DEF IInv, SingleWriter, InExecution
<1>3. "entered" \in Executing
  BY DEF Executing
<1>4. Writer = NoTurn
  BY <1>2, WriterNone DEF Writer
<1>5. Writer' = t
  BY <1>1, <1>2, <1>3, WriterIs DEF Writer
<1>6. t \notin Begun /\ Begun' = Begun \cup {t}
  BY <1>1 DEF Begun
<1>7. SingleWriter'
  BY <1>1, <1>2, <1>3 DEF SingleWriter, InExecution
<1>8. Stages'
  BY <1>1, StagesFrame DEF IInv, NothingWritten
<1>9. Ledger!Begin(t)
  BY <1>1, <1>4, <1>5, <1>6 DEF Ledger!Begin
<1>10. QED
  BY <1>7, <1>8, <1>9 DEF StepGoal, LedgerStep, Ledger!Next

\* The running turn is over, by returning, throwing or dying: the ledger is released.
LEMMA GivesUp ==
    ASSUME IInv, log' = log, ~running',
           \A u \in Turns :
              \/ (pc'[u] = pc[u] /\ pc[u] \notin Executing)
              \/ (pc[u] \in Executing /\ pc'[u] \in {"done", "failed", "lost"})
              \/ (pc[u] = "checked" /\ pc'[u] = "rejected")
    PROVE  StepGoal
<1>1. \A u \in Turns : pc'[u] \notin Executing
  BY DEF Executing
<1>2. Writer' = NoTurn
  BY <1>1, WriterNone DEF Writer
<1>3. Begun' = Begun
  BY DEF Begun, Executing
<1>4. SingleWriter'
  BY <1>1 DEF SingleWriter, InExecution
<1>5. Stages'
  BY StagesFrame DEF IInv, NothingWritten
<1>6. CASE Writer = NoTurn
  BY <1>2, <1>3, <1>4, <1>5, <1>6 DEF StepGoal, LedgerStep
<1>7. CASE Writer # NoTurn
  BY <1>2, <1>3, <1>4, <1>5, <1>7 DEF StepGoal, LedgerStep, Ledger!Next, Ledger!Release
<1>8. QED
  BY <1>6, <1>7

-----------------------------------------------------------------------------
(* The writes of the running turn, one lemma each. *)
LEMMA WriteStartStep ==
    ASSUME IInv, NEW t \in Turns, WriteStart(t)
    PROVE  StepGoal
<1>1. {"restored", "started", "aborting"} \subseteq Executing /\ UNCHANGED running
  BY DEF Executing, WriteStart
<1>2. CASE Goto(t, "restored", "aborting") /\ UNCHANGED log
  BY <1>1, <1>2, QuietMove
<1>3. CASE Goto(t, "restored", "started") /\ Append_("start", t, NoTurn)
  <2>1. pc[t] = "restored" /\ pc' = [pc EXCEPT ![t] = "started"]
    BY <1>3 DEF Goto
  <2>2. \A c \in Ledger!CoreTypes : ~Wrote(t, c)
    BY <2>1 DEF IInv, Stages, StageOf, NothingWritten
  <2>3. Ledger!Allowed(log, t, "start")
    BY <2>2 DEF Wrote, Ledger!Allowed, Ledger!CoreTypes
  <2>4. "start" \in Ledger!CoreTypes /\ NoTurn \in TurnIds
    BY DEF Ledger!CoreTypes, TurnIds
  <2>5. /\ SingleWriter' /\ LedgerStep
        /\ \A u \in Turns, c \in Ledger!CoreTypes :
              Ledger!Written(log', u, c) <=>
                 (Ledger!Written(log, u, c) \/ (c = "start" /\ u = t))
    BY <1>1, <1>3, <2>3, <2>4, WriteMove
  <2>6. \A u \in Turns \ {t} : pc'[u] = pc[u]
    BY <2>1 DEF IInv, TypeOK
  <2>7. StageOf(t)'
    BY <2>1, <2>2, <2>5
       DEF IInv, TypeOK, StageOf, Wrote, NothingWritten, UserWritten, Ledger!CoreTypes
  <2>8. \A u \in Turns \ {t} : StageOf(u)'
    BY <2>5, <2>6 DEF IInv, Stages, StageOf, Wrote, Ledger!CoreTypes
  <2>9. QED
    BY <2>5, <2>7, <2>8 DEF StepGoal, Stages
<1>4. QED
  BY <1>2, <1>3 DEF WriteStart

LEMMA WriteUserStep ==
    ASSUME IInv, NEW t \in Turns, WriteUser(t)
    PROVE  StepGoal
<1>1. {"started", "asked", "aborting"} \subseteq Executing /\ UNCHANGED running
  BY DEF Executing, WriteUser
<1>2. CASE Goto(t, "started", "aborting") /\ UNCHANGED log
  BY <1>1, <1>2, QuietMove
<1>3. CASE Goto(t, "started", "asked") /\ Append_("user", t, t)
  <2>1. pc[t] = "started" /\ pc' = [pc EXCEPT ![t] = "asked"]
    BY <1>3 DEF Goto
  <2>2. Wrote(t, "start") /\ \A c \in Ledger!CoreTypes \ {"start"} : ~Wrote(t, c)
    BY <2>1 DEF IInv, Stages, StageOf
  <2>3. Ledger!Allowed(log, t, "user")
    BY <2>2 DEF Wrote, Ledger!Allowed, Ledger!CoreTypes
  <2>4. "user" \in Ledger!CoreTypes /\ t \in TurnIds
    BY DEF Ledger!CoreTypes, TurnIds
  <2>5. /\ SingleWriter' /\ LedgerStep
        /\ \A u \in Turns, c \in Ledger!CoreTypes :
              Ledger!Written(log', u, c) <=>
                 (Ledger!Written(log, u, c) \/ (c = "user" /\ u = t))
    BY <1>1, <1>3, <2>3, <2>4, WriteMove
  <2>6. \A u \in Turns \ {t} : pc'[u] = pc[u]
    BY <2>1 DEF IInv, TypeOK
  <2>7. StageOf(t)'
    BY <2>1, <2>2, <2>5
       DEF IInv, TypeOK, StageOf, Wrote, NothingWritten, UserWritten, Ledger!CoreTypes
  <2>8. \A u \in Turns \ {t} : StageOf(u)'
    BY <2>5, <2>6 DEF IInv, Stages, StageOf, Wrote, Ledger!CoreTypes
  <2>9. QED
    BY <2>5, <2>7, <2>8 DEF StepGoal, Stages
<1>4. QED
  BY <1>2, <1>3 DEF WriteUser

LEMMA WriteAssistantStep ==
    ASSUME IInv, NEW t \in Turns, WriteAssistant(t)
    PROVE  StepGoal
<1>1. /\ {"answered", "ending"} \subseteq Executing /\ UNCHANGED running
      /\ Goto(t, "answered", "ending")
  BY DEF Executing, WriteAssistant
<1>2. CASE UNCHANGED log
  <2>1. "answered" \in UserWritten
    BY DEF UserWritten
  <2>2. QED
    BY <1>1, <1>2, <2>1, QuietMove
<1>3. CASE Append_("assistant", t, reply[t])
  <2>1. pc[t] = "answered" /\ pc' = [pc EXCEPT ![t] = "ending"]
    BY <1>1 DEF Goto
  <2>2. /\ Wrote(t, "start") /\ Wrote(t, "user")
        /\ ~Wrote(t, "assistant") /\ ~Wrote(t, "end") /\ ~Wrote(t, "failed")
    BY <2>1 DEF IInv, Stages, StageOf, UserWritten
  <2>3. Ledger!Allowed(log, t, "assistant")
    BY <2>2 DEF Wrote, Ledger!Allowed, Ledger!CoreTypes
  <2>4. "assistant" \in Ledger!CoreTypes /\ reply[t] \in TurnIds
    BY DEF Ledger!CoreTypes, IInv, TypeOK
  <2>5. /\ SingleWriter' /\ LedgerStep
        /\ \A u \in Turns, c \in Ledger!CoreTypes :
              Ledger!Written(log', u, c) <=>
                 (Ledger!Written(log, u, c) \/ (c = "assistant" /\ u = t))
    BY <1>1, <1>3, <2>3, <2>4, WriteMove
  <2>6. \A u \in Turns \ {t} : pc'[u] = pc[u]
    BY <2>1 DEF IInv, TypeOK
  <2>7. StageOf(t)'
    BY <2>1, <2>2, <2>5
       DEF IInv, TypeOK, StageOf, Wrote, NothingWritten, UserWritten, Ledger!CoreTypes
  <2>8. \A u \in Turns \ {t} : StageOf(u)'
    BY <2>5, <2>6 DEF IInv, Stages, StageOf, Wrote, Ledger!CoreTypes
  <2>9. QED
    BY <2>5, <2>7, <2>8 DEF StepGoal, Stages
<1>4. QED
  BY <1>2, <1>3 DEF WriteAssistant, SafeAppend

LEMMA WriteEndStep ==
    ASSUME IInv, NEW t \in Turns, WriteEnd(t)
    PROVE  StepGoal
<1>1. /\ {"ending", "compacting"} \subseteq Executing /\ UNCHANGED running
      /\ Goto(t, "ending", "compacting")
  BY DEF Executing, WriteEnd
<1>2. CASE UNCHANGED log
  BY <1>1, <1>2, QuietMove
<1>3. CASE Append_("end", t, NoTurn)
  <2>1. pc[t] = "ending" /\ pc' = [pc EXCEPT ![t] = "compacting"]
    BY <1>1 DEF Goto
  <2>2. Wrote(t, "start") /\ Wrote(t, "user") /\ ~Wrote(t, "end") /\ ~Wrote(t, "failed")
    BY <2>1 DEF IInv, Stages, StageOf
  <2>3. Ledger!Allowed(log, t, "end")
    BY <2>2 DEF Wrote, Ledger!Allowed, Ledger!CoreTypes
  <2>4. "end" \in Ledger!CoreTypes /\ NoTurn \in TurnIds
    BY DEF Ledger!CoreTypes, TurnIds
  <2>5. /\ SingleWriter' /\ LedgerStep
        /\ \A u \in Turns, c \in Ledger!CoreTypes :
              Ledger!Written(log', u, c) <=>
                 (Ledger!Written(log, u, c) \/ (c = "end" /\ u = t))
    BY <1>1, <1>3, <2>3, <2>4, WriteMove
  <2>6. \A u \in Turns \ {t} : pc'[u] = pc[u]
    BY <2>1 DEF IInv, TypeOK
  <2>7. StageOf(t)'
    BY <2>1 DEF IInv, TypeOK, StageOf, NothingWritten, UserWritten
  <2>8. \A u \in Turns \ {t} : StageOf(u)'
    BY <2>5, <2>6 DEF IInv, Stages, StageOf, Wrote, Ledger!CoreTypes
  <2>9. QED
    BY <2>5, <2>7, <2>8 DEF StepGoal, Stages
<1>4. QED
  BY <1>2, <1>3 DEF WriteEnd, SafeAppend

LEMMA WriteFailedStep ==
    ASSUME IInv, NEW t \in Turns, WriteFailed(t)
    PROVE  StepGoal
<1>1. /\ {"failing", "aborting"} \subseteq Executing /\ UNCHANGED running
      /\ Goto(t, "failing", "aborting")
  BY DEF Executing, WriteFailed
<1>2. CASE UNCHANGED log
  BY <1>1, <1>2, QuietMove
<1>3. CASE Append_("failed", t, NoTurn)
  <2>1. pc[t] = "failing" /\ pc' = [pc EXCEPT ![t] = "aborting"]
    BY <1>1 DEF Goto
  <2>2. /\ Wrote(t, "start") /\ Wrote(t, "user")
        /\ ~Wrote(t, "assistant") /\ ~Wrote(t, "end") /\ ~Wrote(t, "failed")
    BY <2>1 DEF IInv, Stages, StageOf, UserWritten
  <2>3. Ledger!Allowed(log, t, "failed")
    BY <2>2 DEF Wrote, Ledger!Allowed, Ledger!CoreTypes
  <2>4. "failed" \in Ledger!CoreTypes /\ NoTurn \in TurnIds
    BY DEF Ledger!CoreTypes, TurnIds
  <2>5. /\ SingleWriter' /\ LedgerStep
        /\ \A u \in Turns, c \in Ledger!CoreTypes :
              Ledger!Written(log', u, c) <=>
                 (Ledger!Written(log, u, c) \/ (c = "failed" /\ u = t))
    BY <1>1, <1>3, <2>3, <2>4, WriteMove
  <2>6. \A u \in Turns \ {t} : pc'[u] = pc[u]
    BY <2>1 DEF IInv, TypeOK
  <2>7. StageOf(t)'
    BY <2>1 DEF IInv, TypeOK, StageOf, NothingWritten, UserWritten
  <2>8. \A u \in Turns \ {t} : StageOf(u)'
    BY <2>5, <2>6 DEF IInv, Stages, StageOf, Wrote, Ledger!CoreTypes
  <2>9. QED
    BY <2>5, <2>7, <2>8 DEF StepGoal, Stages
<1>4. QED
  BY <1>2, <1>3 DEF WriteFailed, SafeAppend

-----------------------------------------------------------------------------
(* Every step of a turn. *)
LEMMA TurnStepGoal ==
    ASSUME IInv, NEW t \in Turns, TurnStep(t)
    PROVE  StepGoal
<1>1. CASE Enter(t)
  BY <1>1, EnterStep
<1>2. CASE AlreadyRunning(t)
  BY <1>2, WaitingMove DEF AlreadyRunning, durable
<1>3. CASE RestoreHistory(t)
  <2>1. {"entered", "converging"} \subseteq Executing \cap NothingWritten
    BY DEF Executing, NothingWritten
  <2>2. Goto(t, "entered", "converging") /\ UNCHANGED <<log, running>>
    BY <1>3 DEF RestoreHistory, durable
  <2>3. QED
    BY <2>1, <2>2, QuietMove
<1>4. CASE Converge(t)
  <2>1. PICK u \in orphans[t] : SafeAppend("interrupted", u, NoTurn)
    BY <1>4 DEF Converge
  <2>2. u \in TurnIds /\ NoTurn \in TurnIds
    BY DEF IInv, TypeOK, TurnIds
  <2>3. "interrupted" \in EventTypes \ Ledger!CoreTypes
    BY DEF EventTypes, Ledger!CoreTypes
  <2>4. UNCHANGED <<pc, running>>
    BY <1>4 DEF Converge
  <2>5. QED
    BY <2>1, <2>2, <2>3, <2>4, SideEvent
<1>5. CASE Converged(t)
  <2>1. {"converging", "restored"} \subseteq Executing \cap NothingWritten
    BY DEF Executing, NothingWritten
  <2>2. Goto(t, "converging", "restored") /\ UNCHANGED <<log, running>>
    BY <1>5 DEF Converged, durable
  <2>3. QED
    BY <2>1, <2>2, QuietMove
<1>6. CASE WriteStart(t)
  BY <1>6, WriteStartStep
<1>7. CASE WriteUser(t)
  BY <1>7, WriteUserStep
<1> DEFINE Middle == {"asked", "rebuilding", "ready", "prompting", "answered", "failing"}
<1>8. Middle \subseteq Executing \cap UserWritten
  BY DEF Executing, UserWritten
<1>9. CASE PrePromptGuard(t) \/ Rebuild(t) \/ Prompt(t) \/ PromptThrows(t) \/ PromptFails(t) \/ Answer(t) \/ Stop(t)
  <2>1. UNCHANGED <<log, running>>
    BY <1>9 DEF PrePromptGuard, Rebuild, Prompt, PromptThrows, PromptFails, Answer, Stop, durable
  <2>2. \E from, to \in Middle : Goto(t, from, to)
    BY <1>9 DEF PrePromptGuard, Rebuild, Prompt, PromptThrows, PromptFails, Answer, Stop
  <2>3. QED
    BY <1>8, <2>1, <2>2, QuietMove
<1>10. CASE ToolStarted(t) \/ ToolFinished(t)
  BY <1>10, Unseen DEF ToolStarted, ToolFinished, durable
<1>11. CASE WriteAssistant(t)
  BY <1>11, WriteAssistantStep
<1>12. CASE WriteEnd(t)
  BY <1>12, WriteEndStep
<1>13. CASE WriteFailed(t)
  BY <1>13, WriteFailedStep
<1>14. CASE Compact(t) \/ ResetRuntime(t) \/ RolloverCheck(t)
  <2>1. {"compacting", "resetting", "checking", "recording", "returning"} \subseteq Executing
    BY DEF Executing
  <2>2. UNCHANGED <<log, running>>
    BY <1>14 DEF Compact, ResetRuntime, RolloverCheck, durable
  <2>3. \/ Goto(t, "compacting", "resetting") \/ Goto(t, "resetting", "checking")
        \/ Goto(t, "checking", "returning") \/ Goto(t, "checking", "recording")
    BY <1>14 DEF Compact, ResetRuntime, RolloverCheck
  <2>4. QED
    BY <2>1, <2>2, <2>3, QuietMove
<1>15. CASE RecordRollover(t)
  <2>1. {"recording", "returning"} \subseteq Executing
    BY DEF Executing
  <2>2. Goto(t, "recording", "returning") /\ UNCHANGED running
    BY <1>15 DEF RecordRollover
  <2>3. Writer' = Writer /\ Begun' = Begun /\ SingleWriter'
    BY <2>1, <2>2, StaysIn DEF IInv
  <2>4. \A u \in Turns : pc'[u] = pc[u] \/ pc'[u] = "returning"
    BY <2>2 DEF Goto, IInv, TypeOK
  <2>5. "other" \in EventTypes \ Ledger!CoreTypes /\ NoTurn \in TurnIds
    BY DEF EventTypes, Ledger!CoreTypes, TurnIds
  <2>6. SafeAppend("other", NoTurn, NoTurn)
    BY <1>15 DEF RecordRollover
  <2>7. QED
    BY <2>3, <2>4, <2>5, <2>6, SideEventMove
<1>16. CASE FailsUncaught(t)
  <2>1. pc[t] \in Executing /\ "aborting" \in Executing
    BY <1>16 DEF FailsUncaught, Fallible, Executing
  <2>2. Goto(t, pc[t], "aborting") /\ UNCHANGED <<log, running>>
    BY <1>16 DEF FailsUncaught, durable, Goto
  <2>3. QED
    BY <2>1, <2>2, QuietMove
<1>17. CASE Leave(t)
  <2>1. /\ pc[t] \in {"returning", "aborting"} /\ pc'[t] \in {"done", "failed"}
        /\ \A u \in Turns : u # t => pc'[u] = pc[u]
    BY <1>17 DEF Leave, Goto, IInv, TypeOK
  <2>2. pc[t] \in Executing
    BY <2>1 DEF Executing
  <2>3. \A u \in Turns : u # t => pc[u] \notin Executing
    BY <2>2 DEF IInv, SingleWriter, InExecution
  <2>4. log' = log /\ ~running'
    BY <1>17 DEF Leave, durable
  <2>5. \A u \in Turns :
              \/ (pc'[u] = pc[u] /\ pc[u] \notin Executing)
              \/ (pc[u] \in Executing /\ pc'[u] \in {"done", "failed", "lost"})
              \/ (pc[u] = "checked" /\ pc'[u] = "rejected")
    BY <2>1, <2>2, <2>3
  <2>6. QED
    BY <2>4, <2>5, GivesUp
<1>18. QED
  BY <1>1, <1>2, <1>3, <1>4, <1>5, <1>6, <1>7, <1>9, <1>10, <1>11, <1>12, <1>13, <1>14,
     <1>15, <1>16, <1>17 DEF TurnStep

LEMMA EnvironmentGoal ==
    ASSUME IInv, Environment
    PROVE  StepGoal
<1>1. CASE \E t \in Turns : Submit(t)
  BY <1>1, WaitingMove DEF Submit
<1>2. CASE \E e \in ToolEvents : PersistTool(e)
  <2>1. PICK e \in ToolEvents : PersistTool(e)
    BY <1>2
  <2>2. /\ e.type \in EventTypes \ Ledger!CoreTypes /\ e.turn \in TurnIds /\ NoTurn \in TurnIds
    BY DEF ToolEvents, EventTypes, Ledger!CoreTypes, TurnIds
  <2>3. SafeAppend(e.type, e.turn, NoTurn) /\ UNCHANGED <<pc, running>>
    BY <2>1 DEF PersistTool
  <2>4. QED
    BY <2>2, <2>3, SideEvent
<1>3. CASE SweepIdle \/ ArchiveRequested \/ ArchiveUpdated
  BY <1>3, Unseen DEF SweepIdle, ArchiveRequested, ArchiveUpdated, durable
<1>4. CASE ArchiveRecorded
  <2>1. "other" \in EventTypes \ Ledger!CoreTypes /\ NoTurn \in TurnIds
    BY DEF EventTypes, Ledger!CoreTypes, TurnIds
  <2>2. SafeAppend("other", NoTurn, NoTurn) /\ UNCHANGED <<pc, running>>
    BY <1>4 DEF ArchiveRecorded
  <2>3. QED
    BY <2>1, <2>2, SideEvent
<1>5. CASE Crash
  <2>1. \A u \in Turns : pc'[u] = IF pc[u] \in Executing THEN "lost"
                                  ELSE IF pc[u] = "checked" THEN "rejected" ELSE pc[u]
    BY <1>5 DEF Crash, InExecution
  <2>2. log' = log /\ ~running'
    BY <1>5 DEF Crash, durable
  <2>3. \A u \in Turns :
              \/ (pc'[u] = pc[u] /\ pc[u] \notin Executing)
              \/ (pc[u] \in Executing /\ pc'[u] \in {"done", "failed", "lost"})
              \/ (pc[u] = "checked" /\ pc'[u] = "rejected")
    BY <2>1
  <2>4. QED
    BY <2>2, <2>3, GivesUp
<1>6. QED
  BY <1>1, <1>2, <1>3, <1>4, <1>5 DEF Environment

-----------------------------------------------------------------------------
LEMMA InvInit == Init => IInv /\ Ledger!Init
<1> SUFFICES ASSUME Init PROVE IInv /\ Ledger!Init
  OBVIOUS
<1>1. TypeOK
  BY InitType
<1>2. log = <<>> /\ running = FALSE /\ \A t \in Turns : pc[t] = "idle"
  BY DEF Init
<1>3. \A t \in Turns : pc[t] \notin Executing
  BY <1>2 DEF Executing
<1>4. SingleWriter
  BY <1>2, <1>3 DEF SingleWriter, InExecution
<1>5. \A t \in Turns, c \in Ledger!CoreTypes : ~Wrote(t, c)
  BY <1>2 DEF Wrote, Ledger!Written
<1>6. Stages
  BY <1>2, <1>5 DEF Stages, StageOf, UserWritten
<1>7. Writer = NoTurn /\ Begun = {}
  BY <1>2, <1>3, WriterNone DEF Writer, Begun
<1>8. QED
  BY <1>1, <1>2, <1>4, <1>6, <1>7 DEF IInv, Ledger!Init

LEMMA InvStep == IInv /\ [Next]_vars => IInv' /\ LedgerStep
<1> SUFFICES ASSUME IInv, [Next]_vars PROVE IInv' /\ LedgerStep
  OBVIOUS
<1>1. CASE UNCHANGED vars
  <2>1. TypeOK'
    BY <1>1 DEF IInv, vars, TypeOK
  <2>2. StepGoal
    BY <1>1, Unseen DEF vars
  <2>3. QED
    BY <2>1, <2>2 DEF IInv, StepGoal
<1>2. CASE Next
  <2>1. TypeOK'
    BY <1>2, TurnStepType, EnvironmentType DEF IInv, Next
  <2>2. StepGoal
    BY <1>2, TurnStepGoal, EnvironmentGoal DEF Next
  <2>3. QED
    BY <2>1, <2>2 DEF IInv, StepGoal
<1>3. QED
  BY <1>1, <1>2

(***************************************************************************)
(* One turn at a time: whatever fails, is archived, swept or crashes, no   *)
(* two turns of a conversation execute together, and the single-writer     *)
(* slot is taken exactly while one does (executeTurn's runningTurns guard  *)
(* and its finally block).                                                 *)
(***************************************************************************)
THEOREM SingleWriterCorrect == Spec => []SingleWriter
<1>1. IInv => SingleWriter
  BY DEF IInv
<1>2. QED
  BY InvInit, InvStep, <1>1, PTL DEF Spec

(***************************************************************************)
(* The stream of a conversation implements TurnLedger: every append of     *)
(* executeTurn is one the persistence order allows.                        *)
(***************************************************************************)
THEOREM ImplementsLedger == Spec => LedgerSpec
  BY InvInit, InvStep, PTL DEF Spec, LedgerSpec, Ledger!Spec, LedgerStep, Ledger!vars

LP == INSTANCE TurnLedgerProofs WITH writer <- Writer, begun <- Begun

(***************************************************************************)
(* Whoever reads the stream by position, as restoreContext does, gives     *)
(* every event to the right turn: the core events of a turn are contiguous *)
(* and in the persistence order, in every reachable state of the service.  *)
(***************************************************************************)
THEOREM StreamReadable == Spec => []Readable
<1>1. Ledger!Init => LP!Init
  BY DEF Ledger!Init, LP!Init
<1>2. LedgerStep => [LP!Next]_LP!vars
  BY DEF LedgerStep, Ledger!Next, Ledger!Begin, Ledger!Write, Ledger!Note, Ledger!Release,
         LP!Next, LP!vars, LP!Begin, LP!Write, LP!Note, LP!Release,
         Ledger!Events, Ledger!EventTypes, Ledger!CoreEventOf, Ledger!CoreTypes,
         Ledger!Allowed, Ledger!Written,
         LP!Events, LP!EventTypes, LP!CoreEventOf, LP!CoreTypes, LP!Allowed, LP!Written
<1>3. LP!Contiguous /\ LP!Grammatical => Readable
  BY DEF Readable, Ledger!Contiguous, Ledger!Grammatical, Ledger!Follows, Ledger!CoreTypes,
         LP!Contiguous, LP!Grammatical, LP!Follows, LP!CoreTypes
<1>4. QED
  BY InvInit, InvStep, <1>1, <1>2, <1>3, LP!LedgerReadable, NoTurnAssumption, PTL
     DEF Spec, LP!Spec

-----------------------------------------------------------------------------
(* What a step may do to the durable stream and to the newest summary. *)
Grows ==
    /\ \E n \in 0 .. 1 : Len(log') = Len(log) + n
    /\ \A i \in DOMAIN log : log'[i] = log[i]
    /\ summary' >= summary

LEMMA AppendGrows ==
    ASSUME TypeOK, NEW type, NEW t, NEW from, Append_(type, t, from) \/ UNCHANGED log
    PROVE  /\ \E n \in 0 .. 1 : Len(log') = Len(log) + n
           /\ \A i \in DOMAIN log : log'[i] = log[i]
<1>1. log \in Seq(Events)
  BY DEF TypeOK
<1>2. CASE UNCHANGED log
  BY <1>1, <1>2
<1>3. CASE Append_(type, t, from)
  <2>1. log' = Append(log, Event(type, t, from))
    BY <1>3 DEF Append_
  <2>2. Len(Append(log, Event(type, t, from))) = Len(log) + 1
    BY <1>1
  <2>3. \A i \in DOMAIN log : Append(log, Event(type, t, from))[i] = log[i]
    BY <1>1
  <2>4. QED
    BY <2>1, <2>2, <2>3
<1>4. QED
  BY <1>2, <1>3

LEMMA SummaryGrows ==
    ASSUME TypeOK, UNCHANGED summary \/ InsertSummary
    PROVE  summary' >= summary
<1>1. log \in Seq(Events) /\ summary \in Int
  BY ThroughNumbers DEF TypeOK
<1>2. \A i \in DOMAIN log : i \in Nat
  BY <1>1
<1>3. CASE UNCHANGED summary
  BY <1>1, <1>3
<1>4. CASE InsertSummary
  <2>1. PICK boundary \in SummaryBoundaries(log, summary) : summary' = boundary
    BY <1>4 DEF InsertSummary
  <2>2. boundary \in DOMAIN log
    BY DEF SummaryBoundaries, PairedAnswers
  <2>3. PICK i \in DOMAIN log : summary < i /\ i < boundary
    BY DEF SummaryBoundaries, PairedAnswers, PairedWith
  <2>4. QED
    BY <1>1, <1>2, <2>1, <2>2, <2>3
<1>5. QED
  BY <1>3, <1>4

(***************************************************************************)
(* Nothing that was appended is changed or removed, a step appends at most *)
(* one event, and the newest summary never moves back                      *)
(* (ConversationEventRepository.append, getLatest by through_sequence).    *)
(***************************************************************************)
THEOREM StreamAppendOnly == Spec => AppendOnly
<1>1. TypeOK /\ [Next]_vars => [Grows]_vars
  <2> SUFFICES ASSUME TypeOK, Next PROVE Grows
    OBVIOUS
  <2>1. /\ \E type, t, from : Append_(type, t, from) \/ UNCHANGED log
        /\ UNCHANGED summary \/ InsertSummary \/ \E v \in Turns : RolloverCheck(v)
    <3>1. ASSUME NEW t \in Turns, TurnStep(t)
          PROVE  /\ \E type, u, from : Append_(type, u, from) \/ UNCHANGED log
                 /\ UNCHANGED summary \/ InsertSummary \/ \E v \in Turns : RolloverCheck(v)
      <4>1. CASE RolloverCheck(t)
        BY <4>1 DEF RolloverCheck
      <4>2. CASE RecordRollover(t)
        BY <4>2 DEF RecordRollover, SafeAppend
      <4>3. CASE ~RolloverCheck(t) /\ ~RecordRollover(t)
        BY <3>1, <4>3 DEF TurnStep, Enter, AlreadyRunning, RestoreHistory, Converge, Converged,
             WriteStart, WriteUser, PrePromptGuard, Rebuild, Prompt, PromptThrows, PromptFails, ToolStarted,
             ToolFinished, Answer, Stop, WriteAssistant, WriteEnd, Compact, ResetRuntime,
             WriteFailed, FailsUncaught, Leave, SafeAppend, durable
      <4>4. QED
        BY <4>1, <4>2, <4>3
    <3>2. ASSUME Environment
          PROVE  /\ \E type, u, from : Append_(type, u, from) \/ UNCHANGED log
                 /\ UNCHANGED summary \/ InsertSummary \/ \E v \in Turns : RolloverCheck(v)
      BY <3>2 DEF Environment, Submit, PersistTool, SweepIdle, ArchiveRequested, ArchiveUpdated,
             ArchiveRecorded, Crash, SafeAppend, durable
    <3>3. QED
      BY <3>1, <3>2 DEF Next
  <2>2. PICK type, u, from : Append_(type, u, from) \/ UNCHANGED log
    BY <2>1
  <2>3. /\ \E n \in 0 .. 1 : Len(log') = Len(log) + n
        /\ \A i \in DOMAIN log : log'[i] = log[i]
    BY <2>2, AppendGrows
  <2>4. summary' >= summary
    BY <2>1, SummaryGrows, RolloverSummary
  <2>5. QED
    BY <2>3, <2>4 DEF Grows
<1>2. QED
  BY InvInit, InvStep, <1>1, PTL DEF Spec, IInv, AppendOnly, Grows
-----------------------------------------------------------------------------
(***************************************************************************)
(* What a reader gets out of the stream: summaries cut between turns       *)
(* whatever fails; turns are restored with their own answers, settled once *)
(* and converged in time when the faults that break this are absent.       *)
(*                                                                         *)
(* Everything here rests on StreamReadable: the core events of a turn are  *)
(* contiguous and in order.  The invariants below add what each property   *)
(* needs to know of the events and of the turn that writes the next one.   *)
(***************************************************************************)
Settling == {"end", "failed", "interrupted"}

IsUser(i) == i \in DOMAIN log /\ log[i].type = "user"

\* Only a turn's start comes before its question, and no event has no turn
\* but those that nobody restores.
QuestionFirst ==
    \A j \in DOMAIN log :
        /\ log[j].type # "partial" /\ (log[j].type # "other" => log[j].turn \in Turns)
        /\ log[j].type \notin {"start", "user", "other"} =>
              \E i \in DOMAIN log : i < j /\ log[i].type = "user" /\ log[i].turn = log[j].turn

\* ... since only turns whose question is in the stream have more to write.
Asked ==
    /\ \A t \in Turns : \A u \in orphans[t] : Wrote(u, "user")
    /\ \A e \in pending : Wrote(e.turn, "user")

StreamInv == QuestionFirst /\ Asked

\* A summary covers events that are there.
SummaryInv == summary <= Len(log) /\ SummaryCutsBetweenTurns

-----------------------------------------------------------------------------
(***************************************************************************)
(* What is known already: types, single writer and stages, and that core   *)
(* events are contiguous, in order, and, once the running turn has one, its*)
(* own.                                                                    *)
(***************************************************************************)
CoreAt(i) == i \in DOMAIN log /\ log[i].type \in {"start", "user", "assistant", "end", "failed"}

CoresContiguous ==
    \A i, j, k \in DOMAIN log :
        CoreAt(i) /\ CoreAt(j) /\ CoreAt(k) /\ i < j /\ j < k /\ log[i].turn = log[k].turn
            => log[j].turn = log[i].turn

CoresOrdered ==
    \A i, j \in DOMAIN log :
        CoreAt(i) /\ CoreAt(j) /\ i < j /\ log[i].turn = log[j].turn
            => <<log[i].type, log[j].type>> \in Ledger!Follows

RunningLast ==
    \A t \in Turns : InExecution(t) =>
        \A i, j \in DOMAIN log : CoreAt(i) /\ CoreAt(j) /\ i < j /\ log[i].turn = t => log[j].turn = t

Ground == IInv /\ CoresContiguous /\ CoresOrdered /\ RunningLast

LEMMA GroundHolds == Spec => []Ground
<1>1. Ledger!Init => LP!Init
  BY DEF Ledger!Init, LP!Init
<1>2. LedgerStep => [LP!Next]_LP!vars
  BY DEF LedgerStep, Ledger!Next, Ledger!Begin, Ledger!Write, Ledger!Note, Ledger!Release,
         LP!Next, LP!vars, LP!Begin, LP!Write, LP!Note, LP!Release,
         Ledger!Events, Ledger!EventTypes, Ledger!CoreEventOf, Ledger!CoreTypes,
         Ledger!Allowed, Ledger!Written,
         LP!Events, LP!EventTypes, LP!CoreEventOf, LP!CoreTypes, LP!Allowed, LP!Written
<1>3. IInv /\ LP!LedgerInv => Ground
  <2> SUFFICES ASSUME IInv, LP!LedgerInv PROVE Ground
    OBVIOUS
  <2>1. CoresContiguous
    BY DEF LP!LedgerInv, LP!Contiguous, LP!CoreTypes, CoresContiguous, CoreAt
  <2>2. CoresOrdered
    BY DEF LP!LedgerInv, LP!Grammatical, LP!CoreTypes, LP!Follows, Ledger!Follows, CoresOrdered, CoreAt
  <2>3. \A t \in Turns : InExecution(t) => Writer = t
    BY WriterIs DEF IInv, SingleWriter, InExecution, Writer
  <2>4. RunningLast
    BY <2>3 DEF LP!LedgerInv, LP!WriterLast, LP!CoreTypes, RunningLast, CoreAt
  <2>5. QED
    BY <2>1, <2>2, <2>4 DEF Ground
<1>4. QED
  BY InvInit, InvStep, <1>1, <1>2, <1>3, LP!LedgerSound, NoTurnAssumption, PTL
     DEF Spec, LP!Spec

-----------------------------------------------------------------------------
(***************************************************************************)
(* A step writes one event or none: a core event moves its turn on, an     *)
(* interrupted one is taken off the list of the turn that converges.       *)
(***************************************************************************)
CoreWrites(e) ==
    /\ e.turn \in Turns
    /\ \/ e.type = "start" /\ Goto(e.turn, "restored", "started")
       \/ e.type = "user" /\ Goto(e.turn, "started", "asked")
       \/ e.type = "assistant" /\ Goto(e.turn, "answered", "ending") /\ e.from = reply[e.turn]
       \/ e.type = "end" /\ Goto(e.turn, "ending", "compacting")
       \/ e.type = "failed" /\ Goto(e.turn, "failing", "aborting")

Converges(e) ==
    /\ e.type = "interrupted"
    /\ \E t \in Turns : /\ pc[t] = "converging" /\ e.turn \in orphans[t]
                        /\ orphans' = [orphans EXCEPT ![t] = @ \ {e.turn}]

Lands(e) == e.type \in {"call", "result"} /\ \E p \in pending : p.turn = e.turn

Adds(e) ==
    /\ log' = Append(log, e) /\ UNCHANGED summary
    /\ CoreWrites(e) \/ Converges(e) \/ Lands(e) \/ e.type = "other"

LEMMA StreamGrows ==
    ASSUME TypeOK, [Next]_vars
    PROVE  UNCHANGED log \/ \E e \in Events : Adds(e)
<1> USE DEF EventTypes
<1>1. ASSUME NEW t \in Turns, TurnStep(t)
      PROVE  UNCHANGED log \/ \E e \in Events : Adds(e)
  <2>0. reply[t] \in TurnIds /\ t \in TurnIds /\ NoTurn \in TurnIds
    BY DEF TypeOK, TurnIds
  <2>1. CASE Converge(t)
    <3>1. PICK u \in orphans[t] : SafeAppend("interrupted", u, NoTurn) /\ orphans' = [orphans EXCEPT ![t] = @ \ {u}]
      BY <2>1 DEF Converge
    <3>2. u \in TurnIds
      BY DEF TypeOK, TurnIds
    <3> DEFINE e == Event("interrupted", u, NoTurn)
    <3>3. e \in Events /\ e.type = "interrupted" /\ e.turn = u
      BY <2>0, <3>2, EventType
    <3>4. Converges(e) /\ UNCHANGED summary
      BY <2>1, <3>1, <3>3 DEF Converge, Converges
    <3>5. log' = Append(log, e) \/ UNCHANGED log
      BY <3>1 DEF SafeAppend, Append_
    <3>6. QED
      BY <3>3, <3>4, <3>5 DEF Adds
  <2>2. CASE WriteStart(t) \/ WriteUser(t)
    BY <2>0, <2>2, EventType DEF WriteStart, WriteUser, Append_, Adds, CoreWrites
  <2>3. CASE WriteAssistant(t)
    BY <2>0, <2>3, EventType DEF WriteAssistant, SafeAppend, Append_, Adds, CoreWrites, Event
  <2>4. CASE WriteEnd(t) \/ WriteFailed(t)
    BY <2>0, <2>4, EventType DEF WriteEnd, WriteFailed, SafeAppend, Append_, Adds, CoreWrites
  <2>5. CASE RecordRollover(t)
    BY <2>0, <2>5, EventType DEF RecordRollover, SafeAppend, Append_, Adds
  <2>6. CASE \/ Enter(t) \/ AlreadyRunning(t) \/ RestoreHistory(t) \/ Converged(t) \/ PrePromptGuard(t)
             \/ Rebuild(t) \/ Prompt(t) \/ PromptThrows(t) \/ PromptFails(t) \/ ToolStarted(t)
             \/ ToolFinished(t) \/ Answer(t) \/ Stop(t) \/ Compact(t) \/ ResetRuntime(t) \/ RolloverCheck(t)
             \/ FailsUncaught(t) \/ Leave(t)
    BY <2>6 DEF Enter, AlreadyRunning, RestoreHistory, Converged, PrePromptGuard, Rebuild, Prompt,
         PromptThrows, PromptFails, ToolStarted, ToolFinished, Answer, Stop, Compact, ResetRuntime, RolloverCheck,
         FailsUncaught, Leave, durable
  <2>7. QED
    BY <1>1, <2>1, <2>2, <2>3, <2>4, <2>5, <2>6 DEF TurnStep
<1>2. ASSUME NEW p \in ToolEvents, PersistTool(p)
      PROVE  UNCHANGED log \/ \E e \in Events : Adds(e)
  <2>1. /\ p.type \in {"call", "result"} /\ p.turn \in TurnIds /\ p \in pending
        /\ SafeAppend(p.type, p.turn, NoTurn) /\ UNCHANGED summary
    BY <1>2 DEF PersistTool, ToolEvents, TurnIds
  <2>2. QED
    BY <2>1, EventType, PhaseNames DEF SafeAppend, Append_, Adds, Lands
<1>3. CASE ArchiveRecorded
  BY <1>3, EventType, PhaseNames DEF ArchiveRecorded, SafeAppend, Append_, Adds
<1>4. CASE \/ \E t \in Turns : Submit(t)
           \/ SweepIdle \/ ArchiveRequested \/ ArchiveUpdated \/ Crash
  BY <1>4 DEF Submit, SweepIdle, ArchiveRequested, ArchiveUpdated, Crash, durable
<1>5. QED
  BY <1>1, <1>2, <1>3, <1>4 DEF Next, Environment, vars

LEMMA Positions ==
    ASSUME TypeOK
    PROVE  /\ Len(log) \in Nat /\ DOMAIN log = 1 .. Len(log)
           /\ \A i \in DOMAIN log : i \in Nat /\ i > 0 /\ log[i] \in Events
  BY DEF TypeOK

\* An event appended is the last one, and the others stay where they are.
LEMMA Appended ==
    ASSUME TypeOK, NEW e \in Events, log' = Append(log, e)
    PROVE  /\ Len(log) \in Nat /\ Len(log') = Len(log) + 1
           /\ DOMAIN log = 1 .. Len(log) /\ DOMAIN log' = 1 .. Len(log) + 1
           /\ \A i \in DOMAIN log : log'[i] = log[i]
           /\ log'[Len(log) + 1] = e
  BY DEF TypeOK

LEMMA WroteStays ==
    ASSUME TypeOK, [Next]_vars
    PROVE  \A t, type : Wrote(t, type) => Wrote(t, type)'
<1>1. \A i \in DOMAIN log : i \in DOMAIN log' /\ log'[i] = log[i]
  BY StreamGrows, Appended DEF Adds
<1>2. QED
  BY <1>1 DEF Wrote, Ledger!Written

-----------------------------------------------------------------------------
(* The question comes first. *)
LEMMA QuestionFirstAppend ==
    ASSUME TypeOK, QuestionFirst, NEW e \in Events, log' = Append(log, e),
           e.type # "partial", e.type # "other" => e.turn \in Turns,
           e.type \notin {"start", "user", "other"} => Wrote(e.turn, "user")
    PROVE  QuestionFirst'
<1>1. /\ DOMAIN log = 1 .. Len(log) /\ DOMAIN log' = 1 .. Len(log) + 1 /\ Len(log) \in Nat
      /\ \A i \in DOMAIN log : log'[i] = log[i]
      /\ log'[Len(log) + 1] = e
  BY Appended
<1>2. ASSUME NEW j \in DOMAIN log
      PROVE  /\ log'[j].type # "partial" /\ (log'[j].type # "other" => log'[j].turn \in Turns)
             /\ log'[j].type \notin {"start", "user", "other"} =>
                  \E i \in DOMAIN log' : i < j /\ log'[i].type = "user" /\ log'[i].turn = log'[j].turn
  BY <1>1 DEF QuestionFirst
<1>3. e.type \notin {"start", "user", "other"} =>
         \E i \in DOMAIN log' : i < Len(log) + 1 /\ log'[i].type = "user" /\ log'[i].turn = e.turn
  BY <1>1 DEF Wrote, Ledger!Written
<1>4. QED
  BY <1>1, <1>2, <1>3 DEF QuestionFirst

LEMMA QuestionFirstStep ==
    ASSUME IInv, StreamInv, [Next]_vars
    PROVE  QuestionFirst'
<1>1. TypeOK /\ Stages /\ QuestionFirst /\ Asked
  BY DEF IInv, StreamInv
<1>2. CASE UNCHANGED log
  BY <1>1, <1>2 DEF QuestionFirst
<1>3. ASSUME NEW e \in Events, Adds(e) PROVE QuestionFirst'
  <2>1. CASE CoreWrites(e)
    <3>1. /\ e.type \in {"start", "user", "assistant", "end", "failed"} /\ e.turn \in Turns
          /\ e.type \in {"assistant", "end", "failed"} => pc[e.turn] \in UserWritten \cup {"ending"}
      BY <2>1 DEF CoreWrites, Goto, UserWritten
    <3>2. e.type \in {"assistant", "end", "failed"} => Wrote(e.turn, "user")
      BY <1>1, <3>1 DEF Stages, StageOf
    <3>3. QED
      BY <1>1, <1>3, <3>1, <3>2, QuestionFirstAppend DEF Adds
  <2>2. CASE Converges(e)
    <3>1. e.type = "interrupted" /\ e.turn \in Turns /\ Wrote(e.turn, "user")
      BY <1>1, <2>2 DEF TypeOK, Converges, Asked
    <3>2. QED
      BY <1>1, <1>3, <3>1, QuestionFirstAppend DEF Adds
  <2>3. CASE Lands(e)
    <3>1. e.type \in {"call", "result"} /\ e.turn \in Turns /\ Wrote(e.turn, "user")
      BY <1>1, <2>3 DEF TypeOK, ToolEvents, Lands, Asked
    <3>2. QED
      BY <1>1, <1>3, <3>1, QuestionFirstAppend DEF Adds
  <2>4. CASE e.type = "other"
    BY <1>1, <1>3, <2>4, QuestionFirstAppend DEF Adds
  <2>5. QED
    BY <1>3, <2>1, <2>2, <2>3, <2>4 DEF Adds
<1>4. QED
  BY <1>1, <1>2, <1>3, StreamGrows

\* Only a restore gives a turn something to converge, and only a prompt starts
\* the write of a tool event.
LEMMA OrphansStep ==
    ASSUME TypeOK, [Next]_vars, NEW t \in Turns
    PROVE  \/ orphans'[t] \subseteq orphans[t]
           \/ RestoreHistory(t)
<1>1. ASSUME NEW u \in Turns, TurnStep(u), ~(u = t /\ RestoreHistory(t))
      PROVE  orphans'[t] \subseteq orphans[t]
  BY <1>1 DEF TypeOK, TurnStep, Enter, AlreadyRunning, RestoreHistory, Converge, Converged, WriteStart,
       WriteUser, PrePromptGuard, Rebuild, Prompt, PromptThrows, PromptFails, ToolStarted, ToolFinished, Answer, Stop,
       WriteAssistant, WriteEnd, Compact, ResetRuntime, RolloverCheck, RecordRollover, WriteFailed,
       FailsUncaught, Leave, locals
<1>2. ASSUME Environment PROVE orphans'[t] \subseteq orphans[t]
  BY <1>2 DEF TypeOK, Environment, Submit, PersistTool, SweepIdle, ArchiveRequested, ArchiveUpdated,
       ArchiveRecorded, Crash, locals
<1>3. QED
  BY <1>1, <1>2 DEF Next, vars

LEMMA PendingStep ==
    ASSUME TypeOK, [Next]_vars, NEW e \in pending', e \notin pending
    PROVE  pc[e.turn] = "prompting" /\ e.turn \in Turns
<1>1. ASSUME NEW u \in Turns, TurnStep(u) PROVE pc[e.turn] = "prompting" /\ e.turn \in Turns
  BY <1>1 DEF TurnStep, Enter, AlreadyRunning, RestoreHistory, Converge, Converged, WriteStart,
       WriteUser, PrePromptGuard, Rebuild, Prompt, PromptThrows, PromptFails, ToolStarted, ToolFinished, Answer, Stop,
       WriteAssistant, WriteEnd, Compact, ResetRuntime, RolloverCheck, RecordRollover, WriteFailed,
       FailsUncaught, Leave
<1>2. ~Environment
  BY DEF Environment, Submit, PersistTool, SweepIdle, ArchiveRequested, ArchiveUpdated,
       ArchiveRecorded, Crash
<1>3. QED
  BY <1>1, <1>2 DEF Next, vars

LEMMA AskedStep ==
    ASSUME IInv, StreamInv, [Next]_vars
    PROVE  Asked'
<1>1. TypeOK /\ Stages /\ QuestionFirst /\ Asked
  BY DEF IInv, StreamInv
<1>2. ASSUME NEW t \in Turns, NEW u \in orphans'[t] PROVE Wrote(u, "user")'
  <2>1. CASE u \in orphans[t]
    BY <1>1, <2>1, WroteStays DEF Asked
  <2>2. CASE RestoreHistory(t)
    <3>1. \E i \in DOMAIN log : log[i].type = "user" /\ log[i].turn = u
      <4> DEFINE P == Replayed(log, summary, NoTurn)
                 interrupted == {log[i].turn : i \in InterruptedPositions(log, P)} \ {NoTurn}
      <4>1. orphans'[t] = IF summary = NoSummary THEN interrupted ELSE {}
        BY <1>1, <2>2 DEF TypeOK, RestoreHistory
      <4>2. u \in interrupted
        BY <1>2, <4>1
      <4>3. PICK i \in InterruptedPositions(log, P) : u = log[i].turn
        BY <4>2
      <4>4. i \in P /\ log[i].type = "user"
        BY <4>3 DEF InterruptedPositions, UserPositions
      <4>5. QED
        BY <4>3, <4>4 DEF Replayed
    <3>2. Wrote(u, "user")
      BY <3>1 DEF Wrote, Ledger!Written
    <3>3. QED
      BY <1>1, <3>2, WroteStays
  <2>3. QED
    BY <1>1, <1>2, <2>1, <2>2, OrphansStep
<1>3. ASSUME NEW e \in pending' PROVE Wrote(e.turn, "user")'
  <2>1. Wrote(e.turn, "user")
    BY <1>1, <1>3, PendingStep DEF Asked, Stages, StageOf, UserWritten
  <2>2. QED
    BY <1>1, <2>1, WroteStays
<1>4. QED
  BY <1>2, <1>3 DEF Asked

LEMMA StreamInit == Init => StreamInv
  BY DEF Init, StreamInv, QuestionFirst, Asked

LEMMA StreamStep ==
    ASSUME IInv, StreamInv, [Next]_vars
    PROVE  StreamInv'
  BY QuestionFirstStep, AskedStep DEF StreamInv

-----------------------------------------------------------------------------
(* Summaries. *)
Awaiting == {"asked", "rebuilding", "ready", "prompting", "answered"}

LEMMA AwaitingStep ==
    ASSUME TypeOK, [Next]_vars, NEW t \in Turns, pc'[t] \in Awaiting, pc[t] \notin Awaiting
    PROVE  WriteUser(t)
<1>1. ASSUME NEW u \in Turns, TurnStep(u) PROVE WriteUser(t)
  BY <1>1 DEF TypeOK, Awaiting, TurnStep, Enter, AlreadyRunning, RestoreHistory, Converge, Converged,
       WriteStart, WriteUser, PrePromptGuard, Rebuild, Prompt, PromptThrows, PromptFails, ToolStarted, ToolFinished,
       Answer, Stop, WriteAssistant, WriteEnd, Compact, ResetRuntime, RolloverCheck, RecordRollover,
       WriteFailed, FailsUncaught, Leave, Goto
<1>2. ~Environment
  BY DEF TypeOK, Awaiting, Environment, Submit, PersistTool, SweepIdle, ArchiveRequested, ArchiveUpdated,
       ArchiveRecorded, Crash, Goto
<1>3. ~UNCHANGED vars
  BY DEF vars
<1>4. QED
  BY <1>1, <1>2, <1>3 DEF Next

LEMMA SummaryStep ==
    ASSUME TypeOK, [Next]_vars
    PROVE  \/ UNCHANGED summary
           \/ UNCHANGED log /\ summary' \in {0} \cup PairedAnswers(log, summary) \cup PairedAnswers(log, 0)
<1>1. ASSUME InsertSummary PROVE summary' \in PairedAnswers(log, summary)
  BY <1>1 DEF InsertSummary, SummaryBoundaries
<1>2. ASSUME NEW t \in Turns, TurnStep(t)
      PROVE  \/ UNCHANGED summary
             \/ UNCHANGED log /\ summary' \in {0} \cup PairedAnswers(log, summary) \cup PairedAnswers(log, 0)
  BY <1>1, <1>2 DEF TurnStep, Enter, AlreadyRunning, RestoreHistory, Converge, Converged,
       WriteStart, WriteUser, PrePromptGuard, Rebuild, Prompt, PromptThrows, PromptFails, ToolStarted, ToolFinished,
       Answer, Stop, WriteAssistant, WriteEnd, Compact, ResetRuntime, RolloverCheck, RecordRollover,
       WriteFailed, FailsUncaught, Leave, durable
<1>3. ASSUME Environment PROVE UNCHANGED summary
  BY <1>3 DEF Environment, Submit, PersistTool, SweepIdle, ArchiveRequested, ArchiveUpdated,
       ArchiveRecorded, Crash, durable
<1>4. QED
  BY <1>2, <1>3 DEF Next, vars

\* A turn asks and answers once: its question is unique and before its answer.
LEMMA AsksOnce ==
    ASSUME Ground, NEW i \in DOMAIN log, NEW j \in DOMAIN log, log[i].turn = log[j].turn
    PROVE  /\ log[i].type = "user" /\ log[j].type = "user" => i = j
           /\ log[i].type = "user" /\ log[j].type \in {"assistant", "end", "failed"} => i < j
           /\ log[i].type = "assistant" /\ log[j].type = "end" => i < j
           /\ ~(log[i].type = "assistant" /\ log[j].type = "failed")
           /\ log[i].type = "assistant" /\ log[j].type = "assistant" => i = j
<1>1. i \in Nat /\ j \in Nat
  BY Positions DEF Ground, IInv
<1>2. QED
  BY <1>1 DEF Ground, CoresOrdered, CoreAt, Ledger!Follows

\* The events of a turn's transcript are on one side of any answer.
LEMMA AnswerCuts ==
    ASSUME Ground, NEW n \in DOMAIN log, log[n].type = "assistant",
           NEW i \in DOMAIN log, NEW j \in DOMAIN log,
           log[i].type \in {"user", "assistant"}, log[j].type \in {"user", "assistant"},
           log[i].turn = log[j].turn, i <= n
    PROVE  j <= n
<1> SUFFICES ASSUME n < j PROVE FALSE
  BY Positions DEF Ground, IInv
<1>1. CoreAt(i) /\ CoreAt(n) /\ CoreAt(j) /\ i \in Nat /\ n \in Nat /\ j \in Nat
  BY Positions DEF CoreAt, Ground, IInv
<1>2. log[n].turn = log[i].turn
  BY <1>1 DEF Ground, CoresContiguous
<1>3. QED
  BY <1>1, <1>2, AsksOnce

\* A turn that waits for its answer has asked after every answer there is.
LEMMA AwaitingAsksLast ==
    ASSUME Ground, NEW n \in DOMAIN log, log[n].type = "assistant",
           NEW i \in DOMAIN log, log[i].type = "user",
           InExecution(log[i].turn), pc[log[i].turn] \in Awaiting, log[i].turn \in Turns
    PROVE  n < i
<1> SUFFICES ASSUME i < n PROVE FALSE
  BY Positions DEF Ground, IInv
<1>1. log[n].turn = log[i].turn
  BY DEF Ground, RunningLast, CoreAt
<1>2. ~Wrote(log[i].turn, "assistant")
  BY DEF Ground, IInv, Stages, StageOf, Awaiting, UserWritten
<1>3. QED
  BY <1>1, <1>2 DEF Wrote, Ledger!Written

LEMMA SummaryInit == Init => SummaryInv
  BY DEF Init, SummaryInv, SummaryCutsBetweenTurns, NoSummary

\* A summary that moves covers an answer, and answers cut between turns.
LEMMA SummaryMoves ==
    ASSUME Ground, StreamInv, UNCHANGED log, summary' \in DOMAIN log, log[summary'].type = "assistant",
           \A t \in Turns : pc'[t] \in Awaiting => pc[t] \in Awaiting
    PROVE  SummaryInv'
<1> DEFINE n == summary'
<1>1. n \in Nat /\ n <= Len(log)
  BY Positions DEF Ground, IInv
<1>2. \A i, j \in DOMAIN log :
         (/\ log[i].type \in {"user", "assistant"} /\ log[j].type \in {"user", "assistant"}
          /\ log[i].turn = log[j].turn) => (i <= n <=> j <= n)
  BY AnswerCuts
<1>3. ASSUME NEW i \in 1 .. n, log[i].type = "user", pc'[log[i].turn] \in Awaiting PROVE FALSE
  <2>1. i \in DOMAIN log /\ i \in Nat /\ i <= n
    BY <1>1, <1>3, Positions DEF Ground, IInv
  <2>2. log[i].turn \in Turns
    BY <1>3, <2>1 DEF StreamInv, QuestionFirst
  <2>3. pc[log[i].turn] \in Awaiting
    BY <1>3, <2>2
  <2>4. InExecution(log[i].turn)
    BY <2>3 DEF InExecution, Executing, Awaiting
  <2>5. n < i
    BY <1>3, <2>1, <2>2, <2>3, <2>4, AwaitingAsksLast
  <2>6. QED
    BY <1>1, <2>1, <2>5
<1>4. QED
  BY <1>1, <1>2, <1>3 DEF SummaryInv, SummaryCutsBetweenTurns, Awaiting

\* A summary that stays is behind what is written, and whoever writes an
\* answer was waiting for it.
LEMMA SummaryStays ==
    ASSUME Ground, StreamInv, SummaryInv, NEW e \in Events, Adds(e),
           \A t \in Turns : pc'[t] \in Awaiting /\ pc[t] \notin Awaiting => WriteUser(t)
    PROVE  SummaryInv'
<1>1. /\ TypeOK /\ Stages /\ summary \in Int /\ summary' = summary /\ summary <= Len(log)
      /\ SummaryCutsBetweenTurns
  BY ThroughNumbers DEF Ground, IInv, TypeOK, SummaryInv, Adds
<1>2. /\ DOMAIN log = 1 .. Len(log) /\ DOMAIN log' = 1 .. Len(log) + 1 /\ Len(log) \in Nat
      /\ \A i \in DOMAIN log : log'[i] = log[i]
      /\ log'[Len(log) + 1] = e /\ Len(log') = Len(log) + 1
  BY <1>1, Appended DEF Adds
<1>3. ASSUME NEW i \in DOMAIN log, log[i].type \in {"user", "assistant"},
             e.type \in {"user", "assistant"}, log[i].turn = e.turn
      PROVE  summary < i
  <2>1. CoreWrites(e) /\ e.turn \in Turns
    BY <1>3 DEF Adds, CoreWrites, Converges, Lands
  <2>2. e.type = "assistant" /\ pc[e.turn] = "answered"
    <3>1. pc[e.turn] = "started" => ~Wrote(e.turn, "user") /\ ~Wrote(e.turn, "assistant")
      BY <1>1, <2>1 DEF Stages, StageOf, Ledger!CoreTypes
    <3>2. Wrote(e.turn, "user") \/ Wrote(e.turn, "assistant")
      BY <1>3 DEF Wrote, Ledger!Written
    <3>3. QED
      BY <1>3, <2>1, <3>1, <3>2 DEF CoreWrites, Goto
  <2>3. ~Wrote(e.turn, "assistant")
    BY <1>1, <2>1, <2>2 DEF Stages, StageOf, UserWritten
  <2>4. log[i].type = "user"
    BY <1>3, <2>3 DEF Wrote, Ledger!Written
  <2>5. InExecution(e.turn)
    BY <2>2 DEF InExecution, Executing
  <2>6. QED
    BY <1>1, <1>2, <1>3, <2>2, <2>4, <2>5 DEF SummaryCutsBetweenTurns
<1>4. ASSUME NEW i \in DOMAIN log', NEW j \in DOMAIN log',
             log'[i].type \in {"user", "assistant"}, log'[j].type \in {"user", "assistant"},
             log'[i].turn = log'[j].turn, i <= summary
      PROVE  j <= summary
  <2>1. i \in DOMAIN log /\ log'[i] = log[i]
    BY <1>1, <1>2, <1>4
  <2>2. j \in DOMAIN log
    BY <1>1, <1>2, <1>3, <1>4, <2>1
  <2>3. QED
    BY <1>1, <1>2, <1>4, <2>1, <2>2 DEF SummaryCutsBetweenTurns
<1>5. ASSUME NEW i \in 1 .. summary, log'[i].type = "user", pc'[log'[i].turn] \in Awaiting
      PROVE  FALSE
  <2>1. i \in DOMAIN log /\ log'[i] = log[i]
    BY <1>1, <1>2, <1>5
  <2>2. log[i].turn \in Turns
    BY <1>5, <2>1 DEF StreamInv, QuestionFirst
  <2>3. pc[log[i].turn] \notin Awaiting
    BY <1>1, <1>5, <2>1 DEF SummaryCutsBetweenTurns, InExecution, Executing, Awaiting
  <2>4. pc[log[i].turn] = "started"
    BY <1>5, <2>1, <2>2, <2>3 DEF WriteUser, Goto, Awaiting
  <2>5. ~Wrote(log[i].turn, "user")
    BY <1>1, <2>2, <2>4 DEF Stages, StageOf, Ledger!CoreTypes
  <2>6. QED
    BY <1>5, <2>1, <2>5 DEF Wrote, Ledger!Written
<1>6. SummaryCutsBetweenTurns'
  <2>1. \A i, j \in DOMAIN log' :
           (/\ log'[i].type \in {"user", "assistant"} /\ log'[j].type \in {"user", "assistant"}
            /\ log'[i].turn = log'[j].turn) => (i <= summary <=> j <= summary)
    BY <1>4
  <2>2. \A i \in 1 .. summary :
           log'[i].type = "user" => pc'[log'[i].turn] \notin Awaiting
    BY <1>5
  <2>3. QED
    BY <1>1, <2>1, <2>2 DEF SummaryCutsBetweenTurns, Awaiting
<1>7. QED
  BY <1>1, <1>2, <1>6 DEF SummaryInv

LEMMA SummaryInvStep ==
    ASSUME Ground, StreamInv, SummaryInv, [Next]_vars
    PROVE  SummaryInv'
<1>1. TypeOK
  BY DEF Ground, IInv
<1>2. \A t \in Turns : pc'[t] \in Awaiting /\ pc[t] \notin Awaiting => WriteUser(t)
  BY <1>1, AwaitingStep
<1>3. ASSUME NEW e \in Events, Adds(e) PROVE SummaryInv'
  BY <1>2, <1>3, SummaryStays
<1>4. CASE UNCHANGED log
  <2>1. \A t \in Turns : pc'[t] \in Awaiting => pc[t] \in Awaiting
    <3>1. ASSUME NEW t \in Turns, WriteUser(t), pc'[t] \in Awaiting PROVE FALSE
      BY <1>1, <1>4, <3>1, EventType, PhaseNames, Appended DEF WriteUser, Append_, EventTypes, TypeOK, Goto, Awaiting
    <3>2. QED
      BY <1>2, <3>1
  <2>2. CASE UNCHANGED summary
    <3>1. ASSUME NEW i \in 1 .. summary, log[i].type = "user", pc'[log[i].turn] \in Awaiting
          PROVE  FALSE
      <4>1. i \in DOMAIN log
        BY <1>1, <3>1, Positions, ThroughNumbers DEF SummaryInv, TypeOK
      <4>2. pc[log[i].turn] \in Awaiting
        BY <2>1, <3>1, <4>1 DEF StreamInv, QuestionFirst
      <4>3. QED
        BY <3>1, <4>2 DEF SummaryInv, SummaryCutsBetweenTurns, InExecution, Executing, Awaiting
    <3>2. QED
      BY <1>4, <2>2, <3>1 DEF SummaryInv, SummaryCutsBetweenTurns, Awaiting
  <2>3. CASE summary' \in PairedAnswers(log, summary) \cup PairedAnswers(log, 0)
    <3>1. summary' \in DOMAIN log /\ log[summary'].type \in {"assistant", "partial"}
      BY <2>3 DEF PairedAnswers, PairedWith
    <3>2. log[summary'].type = "assistant"
      BY <3>1 DEF StreamInv, QuestionFirst
    <3>3. QED
      BY <1>4, <2>1, <3>1, <3>2, SummaryMoves
  <2>4. CASE summary' = 0
    BY <1>1, <1>4, <2>4, Positions DEF SummaryInv, SummaryCutsBetweenTurns
  <2>5. QED
    BY <1>1, <2>2, <2>3, <2>4, SummaryStep
<1>5. QED
  BY <1>1, <1>3, <1>4, StreamGrows

(***************************************************************************)
(* Whatever fails and in whatever order, a summary ends between turns: the *)
(* pre-prompt compaction, the one after the turn and the rollover never    *)
(* split a turn's transcript or cover a turn still to be answered          *)
(* (compaction-drive.ts:186-188).                                          *)
(***************************************************************************)
THEOREM SummariesCutBetweenTurns == Spec => []SummaryCutsBetweenTurns
<1>1. Ground => IInv
  BY DEF Ground
<1>2. SummaryInv => SummaryCutsBetweenTurns
  BY DEF SummaryInv
<1>3. QED
  BY StreamInit, StreamStep, SummaryInit, SummaryInvStep, GroundHolds, <1>1, <1>2, PTL DEF Spec

-----------------------------------------------------------------------------
(* What the budget rules out does not happen. *)
LEMMA NoneSpent ==
    ASSUME TypeOK, NEW kind \in BudgetKinds, Budget[kind] = 0
    PROVE  ~Spend(kind)
  BY DEF TypeOK, Spend

-----------------------------------------------------------------------------
(* The runtime holds what the stream gives. *)

\* Phases in which the runtime is the running turn's.
Holding == {"prompting", "answered", "ending", "compacting", "resetting"}

\* What keeps a runtime from being found by a later turn.
ContextInv ==
    /\ ContextFromLog
    /\ runtime = NoRuntime \/ \E t \in Turns : pc[t] \in Holding
    /\ \A t \in Turns : t \notin history[t].turns

LEMMA HistoryStep ==
    ASSUME TypeOK, [Next]_vars, NEW t \in Turns, ~RestoreHistory(t), ~Rebuild(t)
    PROVE  history'[t] = history[t] \/ history'[t] = NoContext
<1>1. ASSUME NEW u \in Turns, TurnStep(u) PROVE history'[t] = history[t] \/ history'[t] = NoContext
  <2>1. CASE u = t
    BY <1>1, <2>1 DEF TypeOK, TurnStep, Enter, AlreadyRunning, Converge, Converged,
       WriteStart, WriteUser, PrePromptGuard, Prompt, PromptThrows, PromptFails, ToolStarted, ToolFinished,
       Answer, Stop, WriteAssistant, WriteEnd, Compact, ResetRuntime, RolloverCheck, RecordRollover,
       WriteFailed, FailsUncaught, Leave, locals
  <2>2. CASE u # t
    BY <1>1, <2>2 DEF TypeOK, TurnStep, Enter, AlreadyRunning, RestoreHistory, Converge, Converged,
       WriteStart, WriteUser, PrePromptGuard, Rebuild, Prompt, PromptThrows, PromptFails, ToolStarted, ToolFinished,
       Answer, Stop, WriteAssistant, WriteEnd, Compact, ResetRuntime, RolloverCheck, RecordRollover,
       WriteFailed, FailsUncaught, Leave, locals
  <2>3. QED
    BY <2>1, <2>2
<1>2. ASSUME Environment PROVE history'[t] = history[t] \/ history'[t] = NoContext
  BY <1>2 DEF Environment, Submit, PersistTool, SweepIdle, ArchiveRequested, ArchiveUpdated,
       ArchiveRecorded, Crash, locals
<1>3. QED
  BY <1>1, <1>2 DEF Next, vars

\* Only a prompt brings a turn to "prompting", and while it is there only it
\* touches the runtime, and not the turns it holds.
LEMMA PromptingStep ==
    ASSUME TypeOK, SingleWriter, NEW t \in Turns, TurnStep(t), ~Prompt(t),
           NEW u \in Turns, pc'[u] = "prompting"
    PROVE  /\ pc[u] = "prompting" /\ history'[u] = history[u]
           /\ runtime'.turns = runtime.turns /\ runtime'.through = runtime.through
<1>1. pc[u] = "prompting"
  BY DEF TypeOK, TurnStep, Enter, AlreadyRunning, RestoreHistory, Converge, Converged,
       WriteStart, WriteUser, PrePromptGuard, Rebuild, PromptThrows, PromptFails, ToolStarted, ToolFinished,
       Answer, Stop, WriteAssistant, WriteEnd, Compact, ResetRuntime, RolloverCheck, RecordRollover,
       WriteFailed, FailsUncaught, Leave, Goto
<1>2. InExecution(t) => t = u
  BY <1>1 DEF SingleWriter, InExecution, Executing
<1>3. t = u => pc[t] = "prompting" /\ pc'[t] = "prompting"
  BY <1>1
<1>4. CASE t # u
  BY <1>2, <1>4 DEF TypeOK, InExecution, Executing, Fallible, TurnStep, Enter, AlreadyRunning, RestoreHistory, Converge, Converged,
       WriteStart, WriteUser, PrePromptGuard, Rebuild, PromptThrows, PromptFails, ToolStarted, ToolFinished,
       Answer, Stop, WriteAssistant, WriteEnd, Compact, ResetRuntime, RolloverCheck, RecordRollover,
       WriteFailed, FailsUncaught, Leave, Goto, locals
<1>5. CASE t = u
  <2>1. ToolStarted(t) \/ ToolFinished(t)
    BY <1>3, <1>5 DEF TypeOK, Fallible, TurnStep, Enter, AlreadyRunning, RestoreHistory, Converge, Converged,
       WriteStart, WriteUser, PrePromptGuard, Rebuild, PromptThrows, PromptFails,
       Answer, Stop, WriteAssistant, WriteEnd, Compact, ResetRuntime, RolloverCheck, RecordRollover,
       WriteFailed, FailsUncaught, Leave, Goto
  <2>2. QED
    BY <1>1, <2>1 DEF ToolStarted, ToolFinished, locals, TypeOK, Runtimes
<1>6. QED
  BY <1>4, <1>5

\* Nobody else moves the turn that holds the runtime, and it gives the
\* runtime up when it is done with it.
LEMMA HoldingStep ==
    ASSUME TypeOK, SingleWriter, NEW t \in Turns, TurnStep(t), ~Prompt(t), ~PromptFails(t), ~FailsUncaught(t),
           NEW u \in Turns, pc[u] \in Holding
    PROVE  runtime' = NoRuntime \/ pc'[u] \in Holding
  BY DEF TypeOK, Holding, TurnStep, Enter, AlreadyRunning, RestoreHistory, Converge, Converged,
       WriteStart, WriteUser, PrePromptGuard, Rebuild, PromptThrows, ToolStarted, ToolFinished,
       Answer, Stop, WriteAssistant, WriteEnd, Compact, ResetRuntime, RolloverCheck, RecordRollover,
       WriteFailed, Leave, Goto

LEMMA NotInOwnHistory ==
    ASSUME TypeOK, Stages, NEW t \in Turns, t \notin history[t].turns, [Next]_vars
    PROVE  t \notin history'[t].turns
<1>1. ASSUME NEW P, P \subseteq DOMAIN log, \A i \in P : ~(log[i].type = "user" /\ log[i].turn = t),
             NEW kept \in TrimmedSuffixes(CompletedPositions(log, P))
      PROVE  t \notin Restored(kept, P).turns
  BY <1>1 DEF Restored, TrimmedSuffixes, CompletedPositions, UserPositions
<1>2. CASE RestoreHistory(t)
  <2>1. ~Wrote(t, "user")
    BY <1>2 DEF RestoreHistory, Goto, Stages, StageOf, NothingWritten, Ledger!CoreTypes
  <2>2. \A i \in DOMAIN log : ~(log[i].type = "user" /\ log[i].turn = t)
    BY <2>1 DEF Wrote, Ledger!Written
  <2> DEFINE P == Replayed(log, summary, NoTurn)
  <2>3. P \subseteq DOMAIN log
    BY DEF Replayed
  <2>4. PICK kept \in TrimmedSuffixes(CompletedPositions(log, P)) :
            history' = [history EXCEPT ![t] = Restored(kept, P)]
    BY <1>2 DEF RestoreHistory
  <2>5. t \notin Restored(kept, P).turns
    BY <1>1, <2>2, <2>3
  <2>6. QED
    BY <2>4, <2>5 DEF TypeOK
<1>3. CASE Rebuild(t)
  <2> DEFINE P == Replayed(log, summary, t)
  <2>1. P \subseteq DOMAIN log /\ \A i \in P : ~(log[i].type = "user" /\ log[i].turn = t)
    BY DEF Replayed
  <2>2. PICK kept \in TrimmedSuffixes(CompletedPositions(log, P)) :
            history' = [history EXCEPT ![t] = Restored(kept, P)]
    BY <1>3 DEF Rebuild
  <2>3. t \notin Restored(kept, P).turns
    BY <1>1, <2>1
  <2>4. QED
    BY <2>2, <2>3 DEF TypeOK
<1>4. ASSUME ~RestoreHistory(t), ~Rebuild(t) PROVE t \notin history'[t].turns
  BY <1>4, HistoryStep DEF NoContext
<1>5. QED
  BY <1>2, <1>3, <1>4

LEMMA ContextStep ==
    ASSUME Budget["throw"] = 0, Budget["fail"] = 0, IInv, ContextInv, [Next]_vars
    PROVE  ContextInv'
<1>1. TypeOK /\ Stages /\ SingleWriter
  BY DEF IInv
<1>2. \A t \in Turns : ~PromptThrows(t) /\ ~PromptFails(t) /\ ~FailsUncaught(t)
  BY <1>1, NoneSpent DEF PromptThrows, PromptFails, FailsUncaught, BudgetKinds
<1>3. \A t \in Turns : t \notin history'[t].turns
  BY <1>1, NotInOwnHistory DEF ContextInv
<1>4. \A t \in Turns : pc[t] \in Holding => InExecution(t)
  BY DEF Holding, InExecution, Executing
<1>5. ASSUME NEW t \in Turns, Prompt(t) PROVE ContextInv'
  <2>1. \A u \in Turns : InExecution(u) => u = t
    BY <1>1, <1>5 DEF SingleWriter, Prompt, Goto, InExecution, Executing
  <2>2. \A u \in Turns : pc[u] \notin Holding
    BY <1>4, <1>5, <2>1 DEF Prompt, Goto, Holding
  <2>3. runtime = NoRuntime
    BY <2>2 DEF ContextInv
  <2>4. runtime'.turns = history[t].turns \cup {t} /\ runtime'.through = history[t].through
    BY <1>5, <2>3 DEF Prompt, Hydrate, NoRuntime
  <2>5. pc' = [pc EXCEPT ![t] = "prompting"] /\ pc \in [Turns -> Phases] /\ UNCHANGED history
    BY <1>1, <1>5 DEF Prompt, Goto, TypeOK, locals
  <2>6. ContextFromLog'
    <3> SUFFICES ASSUME NEW u \in Turns, pc'[u] = "prompting"
                 PROVE  runtime'.turns \ {u} = history'[u].turns /\ runtime'.through = history'[u].through
      BY DEF ContextFromLog
    <3>1. u = t
      BY <2>2, <2>5 DEF Holding
    <3>2. QED
      BY <2>4, <2>5, <3>1 DEF ContextInv
  <2>7. \E u \in Turns : pc'[u] \in Holding
    BY <2>5 DEF Holding
  <2>8. QED
    BY <1>3, <2>6, <2>7 DEF ContextInv
<1>6. ASSUME NEW t \in Turns, TurnStep(t), ~Prompt(t) PROVE ContextInv'
  <2>1. ContextFromLog'
    <3> SUFFICES ASSUME NEW u \in Turns, pc'[u] = "prompting"
                 PROVE  runtime'.turns \ {u} = history'[u].turns /\ runtime'.through = history'[u].through
      BY DEF ContextFromLog
    <3>1. pc[u] = "prompting" /\ InExecution(u)
      BY <1>1, <1>6, PromptingStep DEF InExecution, Executing
    <3>2. runtime.turns \ {u} = history[u].turns /\ runtime.through = history[u].through
      BY <3>1 DEF ContextInv, ContextFromLog
    <3>3. runtime'.turns = runtime.turns /\ runtime'.through = runtime.through /\ history'[u] = history[u]
      BY <1>1, <1>6, <3>1, PromptingStep
    <3>4. QED
      BY <3>2, <3>3
  <2>2. runtime' = NoRuntime \/ \E u \in Turns : pc'[u] \in Holding
    <3>1. CASE runtime = NoRuntime /\ UNCHANGED runtime
      BY <3>1
    <3>2. CASE runtime' = NoRuntime
      BY <3>2
    <3>3. ASSUME NEW u \in Turns, pc[u] \in Holding PROVE runtime' = NoRuntime \/ pc'[u] \in Holding
      BY <1>1, <1>2, <1>6, <3>3, HoldingStep
    <3>4. ASSUME runtime = NoRuntime, ~UNCHANGED runtime PROVE runtime' = NoRuntime \/ pc[t] \in Holding
      BY <1>1, <1>2, <1>6, <3>4 DEF TurnStep, Enter, AlreadyRunning, RestoreHistory, Converge, Converged,
       WriteStart, WriteUser, PrePromptGuard, Rebuild, ToolStarted, ToolFinished,
       Answer, Stop, WriteAssistant, WriteEnd, Compact, ResetRuntime, RolloverCheck, RecordRollover,
       WriteFailed, Leave, Goto, Holding
    <3>5. QED
      BY <3>1, <3>2, <3>3, <3>4 DEF ContextInv
  <2>3. QED
    BY <1>3, <2>1, <2>2 DEF ContextInv
<1>7. CASE Environment
  <2>1. \/ UNCHANGED <<runtime, history>> /\ \A u \in Turns : pc[u] \in Holding => pc'[u] = pc[u]
        \/ runtime' = NoRuntime /\ \A u \in Turns : ~InExecution(u)'
    <3>1. CASE \E t \in Turns : Submit(t)
      BY <1>1, <3>1 DEF TypeOK, Submit, Goto, Holding
    <3>2. CASE (\E e \in ToolEvents : PersistTool(e)) \/ ArchiveRequested \/ ArchiveUpdated \/ ArchiveRecorded
      <4>1. UNCHANGED <<runtime, history, pc>>
        BY <3>2 DEF PersistTool, ArchiveRequested, ArchiveUpdated, ArchiveRecorded, locals
      <4>2. QED
        BY <4>1
    <3>3. CASE SweepIdle
      BY <3>3 DEF SweepIdle, InExecution
    <3>4. CASE Crash
      BY <3>4 DEF Crash, InExecution, Executing
    <3>5. QED
      BY <1>7, <3>1, <3>2, <3>3, <3>4 DEF Environment
  <2>2. \A u \in Turns : pc'[u] = "prompting" => pc[u] = "prompting" /\ InExecution(u)'
    BY <1>1, <1>7 DEF TypeOK, Environment, Submit, PersistTool, SweepIdle, ArchiveRequested, ArchiveUpdated,
       ArchiveRecorded, Crash, Goto, locals, durable, InExecution, Executing
  <2>3. ContextFromLog'
    BY <2>1, <2>2 DEF ContextInv, ContextFromLog
  <2>4. QED
    BY <1>3, <2>1, <2>3 DEF ContextInv
<1>8. CASE UNCHANGED vars
  BY <1>8 DEF vars, ContextInv, ContextFromLog
<1>9. QED
  BY <1>5, <1>6, <1>7, <1>8 DEF Next

(***************************************************************************)
(* As long as no call of a turn throws where only the finally block        *)
(* follows, the runtime a turn prompts holds the turns restored for it and *)
(* nothing else (conversation-runtime.ts:104-114, service.ts:859-868).  A  *)
(* turn that throws leaves its runtime behind, which the runs show.        *)
(***************************************************************************)
THEOREM PromptedFromLog ==
    ASSUME Budget["throw"] = 0, Budget["fail"] = 0
    PROVE  Spec => []ContextFromLog
<1>1. Init => ContextInv
  BY DEF Init, ContextInv, ContextFromLog, NoContext
<1>2. IInv /\ ContextInv /\ [Next]_vars => ContextInv'
  BY ContextStep
<1>3. ContextInv => ContextFromLog
  BY DEF ContextInv
<1>4. QED
  BY <1>1, <1>2, <1>3, InvInit, InvStep, PTL DEF Spec

-----------------------------------------------------------------------------
(* Turns are restored with their answer. *)

\* The last question before an answer or end of a turn is the turn's own.
LEMMA QuestionOf ==
    ASSUME Ground, QuestionFirst, NEW i \in DOMAIN log, NEW j \in DOMAIN log, i < j,
           log[i].type = "user", log[j].type \in {"assistant", "end", "failed"},
           \A m \in DOMAIN log : log[m].type = "user" /\ log[m].turn = log[j].turn => ~(i < m /\ m < j)
    PROVE  log[i].turn = log[j].turn
<1>1. PICK m \in DOMAIN log : m < j /\ log[m].type = "user" /\ log[m].turn = log[j].turn
  BY DEF QuestionFirst
<1>2. i \in Nat /\ m \in Nat /\ ~(i < m)
  BY <1>1, Positions DEF Ground, IInv
<1>3. m = i \/ m < i
  BY <1>2
<1>4. ASSUME m < i PROVE log[i].turn = log[m].turn
  BY <1>1, <1>4 DEF Ground, CoresContiguous, CoreAt
<1>5. QED
  BY <1>1, <1>3, <1>4

\* Without tools only an answer completes a turn.
ToolsUnused ==
    /\ pending = {} /\ \A t \in Turns : tool[t] = "none"
    /\ \A i \in DOMAIN log : log[i].type \notin {"call", "result"}

LEMMA ToolsStep ==
    ASSUME Budget["tool"] = 0, TypeOK, ToolsUnused, [Next]_vars
    PROVE  ToolsUnused'
<1>1. \A t \in Turns : ~ToolStarted(t) /\ ~ToolFinished(t)
  BY NoneSpent DEF ToolStarted, ToolFinished, BudgetKinds, ToolsUnused
<1>2. ASSUME NEW t \in Turns, TurnStep(t) PROVE UNCHANGED <<pending, tool>>
  BY <1>1, <1>2 DEF TurnStep, Enter, AlreadyRunning, RestoreHistory, Converge, Converged,
       WriteStart, WriteUser, PrePromptGuard, Rebuild, Prompt, PromptThrows, PromptFails,
       Answer, Stop, WriteAssistant, WriteEnd, Compact, ResetRuntime, RolloverCheck, RecordRollover,
       WriteFailed, FailsUncaught, Leave
<1>3. ASSUME Environment PROVE pending' \subseteq pending /\ UNCHANGED tool
  BY <1>3 DEF Environment, Submit, PersistTool, SweepIdle, ArchiveRequested, ArchiveUpdated,
       ArchiveRecorded, Crash
<1>4. pending' = {} /\ \A t \in Turns : tool'[t] = "none"
  BY <1>2, <1>3 DEF Next, vars, ToolsUnused
<1>5. ASSUME NEW e \in Events, Adds(e) PROVE ToolsUnused'
  <2>1. e.type \notin {"call", "result"}
    BY <1>5 DEF Adds, CoreWrites, Converges, Lands, ToolsUnused
  <2>2. QED
    BY <1>4, <1>5, <2>1, Appended DEF Adds, ToolsUnused
<1>6. CASE UNCHANGED log
  BY <1>4, <1>6 DEF ToolsUnused
<1>7. QED
  BY <1>5, <1>6, StreamGrows

\* A turn that a restore counts as completed has its answer in the stream.
LEMMA CompletedAnswered ==
    ASSUME Ground, StreamInv, SummaryInv, ToolsUnused, NEW x,
           NEW i \in CompletedPositions(log, Replayed(log, summary, x))
    PROVE  i \in DOMAIN log /\ Wrote(log[i].turn, "assistant") /\ log[i].turn # x
<1> DEFINE P == Replayed(log, summary, x)
<1>1. /\ i \in DOMAIN log /\ i > summary /\ log[i].turn # x /\ log[i].type = "user"
      /\ HasCompletion(log, P, i)
  BY DEF CompletedPositions, UserPositions, Replayed
<1>2. PICK j \in P : /\ i < j /\ ~ClosedBetween(log, P, i, j) /\ log[j].type \in Completing
  BY <1>1 DEF HasCompletion, Segment
<1>3. j \in DOMAIN log /\ j > summary /\ log[j].turn # x /\ log[j].type = "assistant"
  BY <1>2 DEF Replayed, Completing, ToolsUnused
<1>4. ASSUME NEW m \in DOMAIN log, log[m].type = "user", log[m].turn = log[j].turn, i < m, m < j
      PROVE  FALSE
  <2>1. m > summary
    BY <1>3, <1>4, Positions, ThroughNumbers DEF SummaryInv, SummaryCutsBetweenTurns, Ground, IInv, TypeOK
  <2>2. m \in P
    BY <1>3, <1>4, <2>1 DEF Replayed
  <2>3. QED
    BY <1>2, <1>4, <2>2 DEF ClosedBetween, Closing
<1>5. log[i].turn = log[j].turn
  BY <1>1, <1>2, <1>3, <1>4, QuestionOf DEF StreamInv
<1>6. QED
  BY <1>1, <1>3, <1>5 DEF Wrote, Ledger!Written

LEMMA RestoredAnswered ==
    ASSUME Ground, StreamInv, SummaryInv, ToolsUnused, NEW x,
           NEW kept \in TrimmedSuffixes(CompletedPositions(log, Replayed(log, summary, x)))
    PROVE  \A u \in Restored(kept, Replayed(log, summary, x)).turns : Wrote(u, "assistant") /\ u # x
<1>1. kept \subseteq CompletedPositions(log, Replayed(log, summary, x))
  BY DEF TrimmedSuffixes
<1>2. QED
  BY <1>1, CompletedAnswered DEF Restored

LEMMA AnsweredOnlyStep ==
    ASSUME Ground, StreamInv, SummaryInv, ToolsUnused, RestoresAnsweredOnly, [Next]_vars
    PROVE  RestoresAnsweredOnly'
<1>1. TypeOK /\ Stages
  BY DEF Ground, IInv
<1>2. RestoresAnsweredOnly <=> \A t \in Turns : \A u \in history[t].turns : u # t /\ Wrote(u, "assistant")
  BY DEF RestoresAnsweredOnly, Wrote, Ledger!Written
<1>3. RestoresAnsweredOnly' <=> \A t \in Turns : \A u \in history'[t].turns : u # t /\ Wrote(u, "assistant")'
  BY DEF RestoresAnsweredOnly, Wrote, Ledger!Written
<1>4. \A u : Wrote(u, "assistant") => Wrote(u, "assistant")'
  BY <1>1, WroteStays
<1>5. ASSUME NEW t \in Turns, NEW u \in history'[t].turns PROVE u # t /\ Wrote(u, "assistant")
  <2>1. u # t
    BY <1>1, <1>2, <1>5, NotInOwnHistory
  <2>2. CASE RestoreHistory(t)
    <3>1. PICK kept \in TrimmedSuffixes(CompletedPositions(log, Replayed(log, summary, NoTurn))) :
              history' = [history EXCEPT ![t] = Restored(kept, Replayed(log, summary, NoTurn))]
      BY <2>2 DEF RestoreHistory
    <3>2. u \in Restored(kept, Replayed(log, summary, NoTurn)).turns
      BY <1>1, <1>5, <3>1 DEF TypeOK
    <3>3. QED
      BY <2>1, <3>2, RestoredAnswered
  <2>3. CASE Rebuild(t)
    <3>1. PICK kept \in TrimmedSuffixes(CompletedPositions(log, Replayed(log, summary, t))) :
              history' = [history EXCEPT ![t] = Restored(kept, Replayed(log, summary, t))]
      BY <2>3 DEF Rebuild
    <3>2. u \in Restored(kept, Replayed(log, summary, t)).turns
      BY <1>1, <1>5, <3>1 DEF TypeOK
    <3>3. QED
      BY <2>1, <3>2, RestoredAnswered
  <2>4. CASE ~RestoreHistory(t) /\ ~Rebuild(t)
    BY <1>1, <1>2, <1>5, <2>1, <2>4, HistoryStep DEF NoContext
  <2>5. QED
    BY <2>2, <2>3, <2>4
<1>6. QED
  BY <1>3, <1>4, <1>5

(***************************************************************************)
(* As long as no tool is run, only turns with a persisted answer are       *)
(* restored, and never the reader itself (service.ts:672, 544-546),        *)
(* whatever fails.  A tool event counts as an answer, which the runs show. *)
(***************************************************************************)
THEOREM OnlyAnsweredRestored ==
    ASSUME Budget["tool"] = 0
    PROVE  Spec => []RestoresAnsweredOnly
<1> DEFINE Inv == StreamInv /\ SummaryInv /\ ToolsUnused /\ RestoresAnsweredOnly
<1>1. Init => Inv
  BY StreamInit, SummaryInit DEF Init, ToolsUnused, RestoresAnsweredOnly, NoContext
<1>2. Ground => IInv /\ TypeOK
  BY DEF Ground, IInv
<1>3. Ground /\ Inv /\ [Next]_vars => Inv'
  BY <1>2, StreamStep, SummaryInvStep, ToolsStep, AnsweredOnlyStep
<1>4. Inv => RestoresAnsweredOnly
  OBVIOUS
<1>5. QED
  BY <1>1, <1>3, <1>4, GroundHolds, PTL DEF Spec

-----------------------------------------------------------------------------
(* An answer that is not the turn's own was in the stream before. *)

\* A turn whose answer the stream l holds, or none.
Known(l, u) == u = NoTurn \/ \E i \in DOMAIN l : l[i].type = "assistant" /\ l[i].turn = u

\* The last assistant item of a restored context is in the stream, and the one
\* of the runtime's transcript is, or is the answer about to be written.
LastInv ==
    /\ AnswersFromStream
    /\ \A t \in Turns : Known(log, history[t].last)
    /\ Known(log, runtime.last) \/ (runtime.last \in Turns /\ pc[runtime.last] = "answered")
    /\ \A t \in Turns : pc[t] = "answered" => reply[t] = t \/ Known(log, reply[t])

LEMMA RestoredLast ==
    ASSUME Ground, StreamInv, SummaryInv, ToolsUnused, NEW x,
           NEW kept \in TrimmedSuffixes(CompletedPositions(log, Replayed(log, summary, x)))
    PROVE  Known(log, Restored(kept, Replayed(log, summary, x)).last)
<1> DEFINE P == Replayed(log, summary, x)
<1>1. kept \subseteq CompletedPositions(log, P)
  BY DEF TrimmedSuffixes
<1>2. LastAnswered(log, P, kept) = NoTurn \/ \E i \in kept : LastAnswered(log, P, kept) = log[i].turn
  BY DEF LastAnswered
<1>3. QED
  BY <1>1, <1>2, CompletedAnswered DEF Restored, Known, Wrote, Ledger!Written

LEMMA HistoryLast ==
    ASSUME Ground, StreamInv, SummaryInv, ToolsUnused, LastInv, [Next]_vars, NEW t \in Turns
    PROVE  Known(log, history'[t].last)
<1>1. TypeOK
  BY DEF Ground, IInv
<1>2. CASE RestoreHistory(t)
  <2>1. PICK kept \in TrimmedSuffixes(CompletedPositions(log, Replayed(log, summary, NoTurn))) :
            history' = [history EXCEPT ![t] = Restored(kept, Replayed(log, summary, NoTurn))]
    BY <1>2 DEF RestoreHistory
  <2>2. history'[t] = Restored(kept, Replayed(log, summary, NoTurn))
    BY <1>1, <2>1 DEF TypeOK
  <2>3. QED
    BY <2>2, RestoredLast
<1>3. CASE Rebuild(t)
  <2>1. PICK kept \in TrimmedSuffixes(CompletedPositions(log, Replayed(log, summary, t))) :
            history' = [history EXCEPT ![t] = Restored(kept, Replayed(log, summary, t))]
    BY <1>3 DEF Rebuild
  <2>2. history'[t] = Restored(kept, Replayed(log, summary, t))
    BY <1>1, <2>1 DEF TypeOK
  <2>3. QED
    BY <2>2, RestoredLast
<1>4. CASE ~RestoreHistory(t) /\ ~Rebuild(t)
  BY <1>1, <1>4, HistoryStep DEF LastInv, NoContext, Known
<1>5. QED
  BY <1>2, <1>3, <1>4

\* Without tools the transcript's last answer comes from the restored history
\* or from a run that completes.
LEMMA RuntimeLast ==
    ASSUME TypeOK, ToolsUnused, [Next]_vars, Budget["tool"] = 0
    PROVE  \/ runtime'.last = runtime.last \/ runtime'.last = NoTurn
           \/ \E t \in Turns : runtime'.last = history[t].last \/ (Answer(t) /\ runtime'.last = t)
<1>1. ASSUME NEW t \in Turns, Prompt(t) \/ PromptThrows(t)
      PROVE  runtime'.last = runtime.last \/ runtime'.last = history[t].last
  <2>1. Hydrate(t).last = runtime.last \/ Hydrate(t).last = history[t].last
    BY DEF Hydrate
  <2>2. Hydrate(t) \in Runtimes
    BY HydrateType
  <2>3. runtime'.last = Hydrate(t).last
    BY <1>1, <2>2 DEF Prompt, PromptThrows, Runtimes
  <2>4. QED
    BY <2>1, <2>3
<1>2. ASSUME NEW t \in Turns, Answer(t) PROVE runtime'.last = t
  BY <1>2 DEF Answer, TypeOK, Runtimes
<1>3. \A t \in Turns : ~ToolStarted(t)
  BY NoneSpent DEF ToolStarted, BudgetKinds
<1>4. ASSUME NEW t \in Turns, TurnStep(t), ~Prompt(t), ~PromptThrows(t), ~Answer(t)
      PROVE  runtime'.last = runtime.last \/ runtime'.last = NoTurn
  BY <1>3, <1>4 DEF TurnStep, Enter, AlreadyRunning, RestoreHistory, Converge, Converged,
       WriteStart, WriteUser, PrePromptGuard, Rebuild, PromptFails, ToolFinished, Stop,
       WriteAssistant, WriteEnd, Compact, ResetRuntime, RolloverCheck, RecordRollover,
       WriteFailed, FailsUncaught, Leave, NoRuntime
<1>5. ASSUME Environment PROVE runtime'.last = runtime.last \/ runtime'.last = NoTurn
  BY <1>5 DEF Environment, Submit, PersistTool, SweepIdle, ArchiveRequested, ArchiveUpdated,
       ArchiveRecorded, Crash, NoRuntime
<1>6. QED
  BY <1>1, <1>2, <1>4, <1>5 DEF Next, vars

\* A turn that has its answer writes it next, unless the process dies.
LEMMA AnsweredLeaves ==
    ASSUME TypeOK, [Next]_vars, NEW t \in Turns, pc[t] = "answered"
    PROVE  pc'[t] = "answered" \/ WriteAssistant(t) \/ runtime'.last = NoTurn
<1>1. ASSUME NEW u \in Turns, TurnStep(u) PROVE pc'[t] = "answered" \/ WriteAssistant(t)
  BY <1>1 DEF TypeOK, Fallible, TurnStep, Enter, AlreadyRunning, RestoreHistory, Converge, Converged,
       WriteStart, WriteUser, PrePromptGuard, Rebuild, Prompt, PromptThrows, PromptFails, ToolStarted,
       ToolFinished, Answer, Stop, WriteAssistant, WriteEnd, Compact, ResetRuntime, RolloverCheck,
       RecordRollover, WriteFailed, FailsUncaught, Leave, Goto
<1>2. ASSUME Environment PROVE pc'[t] = "answered" \/ runtime'.last = NoTurn
  BY <1>2 DEF TypeOK, Environment, Submit, PersistTool, SweepIdle, ArchiveRequested, ArchiveUpdated,
       ArchiveRecorded, Crash, Goto, NoRuntime
<1>3. QED
  BY <1>1, <1>2 DEF Next, vars

\* What a turn gets is its own answer or the last one of the transcript.
LEMMA ReplyStep ==
    ASSUME TypeOK, [Next]_vars, NEW t \in Turns, pc'[t] = "answered"
    PROVE  \/ pc[t] = "answered" /\ reply'[t] = reply[t]
           \/ reply'[t] = t
           \/ pc[t] = "prompting" /\ reply'[t] = runtime.last
<1>1. ASSUME NEW u \in Turns, TurnStep(u)
      PROVE  \/ pc[t] = "answered" /\ reply'[t] = reply[t]
             \/ reply'[t] = t
             \/ pc[t] = "prompting" /\ reply'[t] = runtime.last
  BY <1>1 DEF TypeOK, TurnStep, Enter, AlreadyRunning, RestoreHistory, Converge, Converged,
       WriteStart, WriteUser, PrePromptGuard, Rebuild, Prompt, PromptThrows, PromptFails, ToolStarted,
       ToolFinished, Answer, Stop, WriteAssistant, WriteEnd, Compact, ResetRuntime, RolloverCheck,
       RecordRollover, WriteFailed, FailsUncaught, Leave, Goto, locals
<1>2. ASSUME Environment PROVE pc[t] = "answered" /\ reply'[t] = reply[t]
  BY <1>2 DEF TypeOK, Environment, Submit, PersistTool, SweepIdle, ArchiveRequested, ArchiveUpdated,
       ArchiveRecorded, Crash, Goto, locals, InExecution, Executing
<1>3. QED
  BY <1>1, <1>2 DEF Next, vars

LEMMA FromStreamStep ==
    ASSUME Ground, StreamInv, LastInv, [Next]_vars
    PROVE  AnswersFromStream'
<1>1. TypeOK
  BY DEF Ground, IInv
<1>2. CASE UNCHANGED log
  BY <1>2 DEF LastInv, AnswersFromStream
<1>3. ASSUME NEW e \in Events, Adds(e) PROVE AnswersFromStream'
  <2>1. /\ DOMAIN log = 1 .. Len(log) /\ DOMAIN log' = 1 .. Len(log) + 1 /\ Len(log) \in Nat
        /\ \A i \in DOMAIN log : log'[i] = log[i]
        /\ log'[Len(log) + 1] = e
    BY <1>1, <1>3, Appended DEF Adds
  <2>2. ASSUME NEW i \in DOMAIN log, log[i].type = "assistant", log[i].from \notin {log[i].turn, NoTurn}
        PROVE  \E j \in 1 .. i - 1 : log'[j].type = "assistant" /\ log'[j].turn = log[i].from
    <3>1. PICK j \in 1 .. i - 1 : log[j].type = "assistant" /\ log[j].turn = log[i].from
      BY <2>2 DEF LastInv, AnswersFromStream
    <3>2. j \in DOMAIN log
      BY <2>1, <3>1
    <3>3. QED
      BY <2>1, <3>1, <3>2
  <2>3. ASSUME e.type = "assistant", e.from \notin {e.turn, NoTurn}
        PROVE  \E j \in 1 .. Len(log) : log'[j].type = "assistant" /\ log'[j].turn = e.from
    <3>1. e.turn \in Turns /\ pc[e.turn] = "answered" /\ e.from = reply[e.turn]
      BY <1>3, <2>3 DEF Adds, CoreWrites, Converges, Lands, Goto
    <3>2. PICK j \in DOMAIN log : log[j].type = "assistant" /\ log[j].turn = e.from
      BY <2>3, <3>1 DEF LastInv, Known
    <3>3. QED
      BY <2>1, <3>2
  <2>4. \A i \in DOMAIN log' : i \in DOMAIN log \/ (i = Len(log) + 1 /\ i - 1 = Len(log))
    BY <2>1
  <2>5. ASSUME NEW i \in DOMAIN log', log'[i].type = "assistant", log'[i].from \notin {log'[i].turn, NoTurn}
        PROVE  \E j \in 1 .. i - 1 : log'[j].type = "assistant" /\ log'[j].turn = log'[i].from
    <3>1. CASE i \in DOMAIN log
      BY <2>1, <2>2, <2>5, <3>1
    <3>2. CASE i = Len(log) + 1 /\ i - 1 = Len(log)
      BY <2>1, <2>3, <2>5, <3>2
    <3>3. QED
      BY <2>4, <3>1, <3>2
  <2>6. QED
    BY <2>5 DEF AnswersFromStream
<1>4. QED
  BY <1>1, <1>2, <1>3, StreamGrows

LEMMA LastStep ==
    ASSUME Budget["append"] = 0, Budget["tool"] = 0, Ground, StreamInv, SummaryInv, ToolsUnused,
           LastInv, [Next]_vars
    PROVE  LastInv'
<1>1. TypeOK /\ SingleWriter
  BY DEF Ground, IInv
<1>2. \A u : Known(log, u) => Known(log', u)
  <2>1. \A u : Wrote(u, "assistant") => Wrote(u, "assistant")'
    BY <1>1, WroteStays
  <2>2. QED
    BY <2>1 DEF Known, Wrote, Ledger!Written
<1>3. \A t \in Turns : Known(log', history'[t].last)
  BY <1>2, HistoryLast
<1>4. Known(log', runtime'.last) \/ (runtime'.last \in Turns /\ pc'[runtime'.last] = "answered")
  <2>1. ASSUME NEW t \in Turns, Answer(t) PROVE pc'[t] = "answered"
    BY <1>1, <2>1 DEF Answer, Goto, TypeOK
  <2>2. ASSUME NEW t \in Turns, WriteAssistant(t) PROVE Known(log', t)
    <3>1. log' = Append(log, Event("assistant", t, reply[t]))
      BY <1>1, <2>2, NoneSpent DEF WriteAssistant, SafeAppend, Append_, BudgetKinds
    <3>2. /\ Event("assistant", t, reply[t]) \in Events
          /\ Event("assistant", t, reply[t]).type = "assistant" /\ Event("assistant", t, reply[t]).turn = t
      BY <1>1, EventType, PhaseNames DEF TypeOK, EventTypes
    <3>3. QED
      BY <1>1, <3>1, <3>2, Appended DEF Known, TypeOK
  <2>3. CASE runtime'.last = runtime.last
    <3>1. CASE Known(log, runtime.last)
      BY <1>2, <2>3, <3>1
    <3>2. CASE runtime.last \in Turns /\ pc[runtime.last] = "answered"
      <4>1. pc'[runtime.last] = "answered" \/ WriteAssistant(runtime.last) \/ runtime'.last = NoTurn
        BY <1>1, <3>2, AnsweredLeaves
      <4>2. QED
        BY <2>2, <2>3, <3>2, <4>1 DEF Known
    <3>3. QED
      BY <3>1, <3>2 DEF LastInv
  <2>4. CASE runtime'.last = NoTurn
    BY <2>4 DEF Known
  <2>5. ASSUME NEW t \in Turns, runtime'.last = history[t].last PROVE Known(log', runtime'.last)
    BY <1>2, <2>5 DEF LastInv
  <2>6. QED
    BY <1>1, <2>1, <2>3, <2>4, <2>5, RuntimeLast
<1>5. ASSUME NEW t \in Turns, pc'[t] = "answered" PROVE reply'[t] = t \/ Known(log', reply'[t])
  <2>1. CASE pc[t] = "answered" /\ reply'[t] = reply[t]
    BY <1>2, <2>1 DEF LastInv
  <2>2. CASE pc[t] = "prompting" /\ reply'[t] = runtime.last
    <3>1. ~(runtime.last \in Turns /\ pc[runtime.last] = "answered")
      BY <1>1, <2>2 DEF SingleWriter, InExecution, Executing
    <3>2. QED
      BY <1>2, <2>2, <3>1 DEF LastInv
  <2>3. QED
    BY <1>1, <1>5, <2>1, <2>2, ReplyStep
<1>6. QED
  BY <1>3, <1>4, <1>5, FromStreamStep DEF LastInv

(***************************************************************************)
(* As long as no append fails and no tool is run, a turn that is stopped,  *)
(* or whose run fails, is given at worst an answer the stream holds        *)
(* already, through any number of crashes and of runtimes left behind      *)
(* (turn-executor.ts:113-121 reads the whole transcript).                  *)
(***************************************************************************)
THEOREM AnswersComeFromStream ==
    ASSUME Budget["append"] = 0, Budget["tool"] = 0
    PROVE  Spec => []AnswersFromStream
<1> DEFINE Inv == StreamInv /\ SummaryInv /\ ToolsUnused /\ LastInv
<1>1. Init => Inv
  BY StreamInit, SummaryInit DEF Init, ToolsUnused, LastInv, AnswersFromStream, Known, NoContext, NoRuntime
<1>2. Ground => IInv /\ TypeOK
  BY DEF Ground, IInv
<1>3. Ground /\ Inv /\ [Next]_vars => Inv'
  BY <1>2, StreamStep, SummaryInvStep, ToolsStep, LastStep
<1>4. Inv => AnswersFromStream
  BY DEF LastInv
<1>5. QED
  BY <1>1, <1>3, <1>4, GroundHolds, PTL DEF Spec

-----------------------------------------------------------------------------
(* When no write is lost. *)
All == Replayed(log, 0, NoTurn)

\* Without a summary a restore reads what one that covers nothing leaves.
LEMMA WholeStream ==
    ASSUME TypeOK, NEW x
    PROVE  Replayed(log, NoSummary, x) = Replayed(log, 0, x)
<1>1. \A i \in DOMAIN log : i > NoSummary /\ i > 0
  BY Positions DEF NoSummary
<1>2. QED
  BY <1>1 DEF Replayed

Decided(i) == Discarded(log, All, i) \/ HasCompletion(log, All, i)

LastQuestion(i) == IsUser(i) /\ \A k \in DOMAIN log : log[k].type = "user" => k <= i

\* A turn that has ended has its answer in the stream.
EndsAnswered ==
    /\ \A j \in DOMAIN log : log[j].type = "end" => Wrote(log[j].turn, "assistant")
    /\ \A t \in Turns : pc[t] = "ending" => Wrote(t, "assistant")

\* turn/interrupted is about the question last asked, of a turn that has no
\* answer and writes no more.
InterruptedInv ==
    \A k \in DOMAIN log : log[k].type = "interrupted" =>
        /\ ~InExecution(log[k].turn) /\ ~Wrote(log[k].turn, "assistant")
        /\ \E i \in DOMAIN log :
              /\ i < k /\ log[i].type = "user" /\ log[i].turn = log[k].turn
              /\ \A m \in DOMAIN log : log[m].type = "user" => ~(i < m /\ m < k)

\* A turn still to be converged asked the last question, and nothing has
\* closed or answered it.
OrphansInv ==
    \A t \in Turns : \A u \in orphans[t] :
        /\ pc[t] = "converging" /\ summary = NoSummary /\ ~InExecution(u) /\ ~Wrote(u, "assistant")
        /\ \E i \in DOMAIN log :
              /\ LastQuestion(i) /\ log[i].turn = u
              /\ \A k \in DOMAIN log : i < k => log[k].type \notin Closing

\* Phases of a turn that has converged the turns before it.
HasConverged == Executing \ {"entered", "converging", "aborting"}

\* As long as nothing is summarised, every question but the last is decided,
\* and a turn asks only when the last one is.
QuestionsDecided == \A i, m \in DOMAIN log : IsUser(i) /\ IsUser(m) /\ i < m => Decided(i)

ConvergingDecides ==
    \A t \in Turns : pc[t] = "converging" =>
        \A i \in DOMAIN log : IsUser(i) => Decided(i) \/ log[i].turn \in orphans[t]

ConvergedDecided ==
    \A t \in Turns : pc[t] \in HasConverged =>
        \A i \in DOMAIN log : IsUser(i) /\ log[i].turn # t => Decided(i)

DecidedInv == summary = NoSummary => QuestionsDecided /\ ConvergingDecides /\ ConvergedDecided

SettleInv == SettlesOnce /\ EndsAnswered /\ InterruptedInv /\ OrphansInv /\ DecidedInv

-----------------------------------------------------------------------------
(* What a restore of the whole stream reads. *)
LEMMA AllTurns ==
    ASSUME TypeOK, QuestionFirst
    PROVE  /\ All \subseteq DOMAIN log
           /\ \A i \in DOMAIN log : log[i].type # "other" => i \in All
<1>1. \A i \in DOMAIN log : log[i].type # "other" => log[i].turn # NoTurn
  BY NoTurnAssumption DEF QuestionFirst
<1>2. QED
  BY <1>1, Positions DEF All, Replayed

\* An interrupted turn asked the question before its turn/interrupted.
LEMMA InterruptedAsked ==
    ASSUME TypeOK, InterruptedInv, NEW i \in DOMAIN log, NEW k \in DOMAIN log, i < k,
           log[i].type = "user", log[k].type = "interrupted",
           \A m \in DOMAIN log : log[m].type = "user" => ~(i < m /\ m < k)
    PROVE  log[i].turn = log[k].turn
<1>1. PICK m \in DOMAIN log : /\ m < k /\ log[m].type = "user" /\ log[m].turn = log[k].turn
                              /\ \A n \in DOMAIN log : log[n].type = "user" => ~(m < n /\ n < k)
  BY DEF InterruptedInv
<1>2. ~(i < m) /\ ~(m < i) /\ i \in Nat /\ m \in Nat
  BY <1>1, Positions
<1>3. QED
  BY <1>1, <1>2

\* Nothing closes the last question as long as it is undecided: what closes
\* it would be the end or the failure of its own turn.
LEMMA LastOpen ==
    ASSUME Ground, QuestionFirst, SettlesOnce, EndsAnswered, InterruptedInv,
           NEW i \in DOMAIN log, LastQuestion(i), ~Decided(i)
    PROVE  /\ \A k \in DOMAIN log : i < k => log[k].type \notin Closing
           /\ ~Wrote(log[i].turn, "assistant")
<1>1. TypeOK /\ log[i].type = "user"
  BY DEF Ground, IInv, LastQuestion, IsUser
<1>2. ASSUME NEW m \in DOMAIN log, log[m].type = "user" PROVE ~(i < m)
  BY <1>1, <1>2, Positions DEF LastQuestion
<1>3. ASSUME NEW k \in DOMAIN log, i < k, log[k].type \in Closing
      PROVE  log[k].type \in Settling /\ log[k].turn = log[i].turn
  <2>1. log[k].type \in Settling
    BY <1>2, <1>3 DEF Closing, Settling
  <2>2. CASE log[k].type = "interrupted"
    BY <1>1, <1>2, <1>3, <2>1, <2>2, InterruptedAsked
  <2>3. CASE log[k].type # "interrupted"
    BY <1>1, <1>2, <1>3, <2>1, <2>3, QuestionOf DEF Settling
  <2>4. QED
    BY <2>1, <2>2, <2>3
<1>4. ASSUME NEW k \in DOMAIN log, i < k, log[k].type \in Closing PROVE FALSE
  <2>1. log[k].type \in Settling /\ log[k].turn = log[i].turn /\ k \in All
    BY <1>1, <1>3, <1>4, AllTurns DEF Settling
  <2>2. \A n \in DOMAIN log : i < n /\ log[n].type \in Closing => n = k
    BY <1>3, <1>4, <2>1 DEF SettlesOnce, Settling
  <2>4. \A n \in DOMAIN log : n <= k => ~ClosedBetween(log, All, i, n)
    <3>1. \A n, m \in DOMAIN log : n <= k /\ m < n => m # k
      BY <1>1, Positions
    <3>2. QED
      BY <1>1, <2>2, <3>1, AllTurns DEF ClosedBetween
  <2>5. CASE log[k].type \in {"failed", "interrupted"}
    <3>1. ~ClosedBetween(log, All, i, k)
      BY <1>1, <2>4, Positions
    <3>2. QED
      BY <1>4, <2>1, <2>5, <3>1 DEF Decided, Discarded
  <2>6. CASE log[k].type = "end"
    <3>1. PICK j \in DOMAIN log : log[j].type = "assistant" /\ log[j].turn = log[i].turn
      BY <2>1, <2>6 DEF EndsAnswered, Wrote, Ledger!Written
    <3>2. i < j /\ j < k
      BY <1>1, <2>1, <2>6, <3>1, AsksOnce
    <3>3. j <= k
      BY <1>1, <3>2, Positions
    <3>4. j \in All /\ ~ClosedBetween(log, All, i, j)
      BY <1>1, <2>4, <3>1, <3>3, AllTurns
    <3>5. j \in Segment(log, All, i)
      BY <3>1, <3>2, <3>4 DEF Segment, Closing
    <3>6. QED
      BY <3>1, <3>5 DEF Decided, HasCompletion, Completing
  <2>7. QED
    BY <2>1, <2>5, <2>6 DEF Settling
<1>5. ASSUME NEW j \in DOMAIN log, log[j].type = "assistant", log[j].turn = log[i].turn PROVE FALSE
  <2>1. i < j /\ j \in All
    BY <1>1, <1>5, AsksOnce, AllTurns
  <2>2. \A k \in All : i < k => log[k].type \notin Closing
    BY <1>1, <1>4, AllTurns
  <2>3. j \in Segment(log, All, i)
    BY <1>5, <2>1, <2>2 DEF Segment, ClosedBetween, Closing
  <2>4. QED
    BY <1>5, <2>3 DEF Decided, HasCompletion, Completing
<1>6. QED
  BY <1>4, <1>5 DEF Wrote, Ledger!Written

\* What is decided stays decided.
LEMMA DecidedStays ==
    ASSUME TypeOK, [Next]_vars, NEW i \in DOMAIN log, Decided(i)
    PROVE  Decided(i)'
<1>1. CASE UNCHANGED log
  BY <1>1 DEF Decided, Discarded, HasCompletion, Segment, ClosedBetween, All, Replayed
<1>2. ASSUME NEW e \in Events, Adds(e) PROVE Decided(i)'
  <2>1. /\ DOMAIN log = 1 .. Len(log) /\ DOMAIN log' = 1 .. Len(log) + 1 /\ Len(log) \in Nat
        /\ \A j \in DOMAIN log : log'[j] = log[j]
    BY <1>2, Appended DEF Adds
  <2>2. /\ \A j \in DOMAIN log : j \in DOMAIN log' /\ log'[j] = log[j]
        /\ \A j \in DOMAIN log, m \in DOMAIN log' : m < j => m \in DOMAIN log
    BY <2>1
  <2>3. All \subseteq DOMAIN log /\ \A j \in DOMAIN log : j \in All' <=> j \in All
    BY <2>2 DEF All, Replayed
  <2>3a. All' \subseteq DOMAIN log'
    BY DEF All, Replayed
  <2>4. ASSUME NEW k \in DOMAIN log, ~ClosedBetween(log, All, i, k)
        PROVE  ~ClosedBetween(log', All', i, k)
    BY <2>2, <2>3, <2>3a, <2>4 DEF ClosedBetween
  <2>5. CASE Discarded(log, All, i)
    <3>1. PICK k \in All : i < k /\ log[k].type \in {"failed", "interrupted"} /\ ~ClosedBetween(log, All, i, k)
      BY <2>5 DEF Discarded
    <3>2. k \in All' /\ log'[k].type \in {"failed", "interrupted"} /\ ~ClosedBetween(log', All', i, k)
      BY <2>2, <2>3, <2>4, <3>1
    <3>3. QED
      BY <3>1, <3>2 DEF Decided, Discarded
  <2>6. CASE HasCompletion(log, All, i)
    <3>1. PICK k \in All : /\ i < k /\ log[k].type \in Completing /\ log[k].type \notin Closing
                           /\ ~ClosedBetween(log, All, i, k)
      BY <2>6 DEF HasCompletion, Segment
    <3>2. /\ k \in All' /\ log'[k].type \in Completing /\ log'[k].type \notin Closing
          /\ ~ClosedBetween(log', All', i, k)
      BY <2>2, <2>3, <2>4, <3>1
    <3>3. QED
      BY <3>1, <3>2 DEF Decided, HasCompletion, Segment
  <2>7. QED
    BY <2>5, <2>6 DEF Decided
<1>3. QED
  BY <1>1, <1>2, StreamGrows

-----------------------------------------------------------------------------
(* How turns come to the phases the invariant is about. *)
LEMMA PhaseStep ==
    ASSUME TypeOK, [Next]_vars, NEW t \in Turns, pc'[t] # pc[t]
    PROVE  /\ pc'[t] \in Executing => pc[t] \in Executing \cup {"checked"}
           /\ pc'[t] = "ending" => WriteAssistant(t)
           /\ pc'[t] = "converging" => RestoreHistory(t)
           /\ pc'[t] \in HasConverged /\ pc[t] \notin HasConverged => Converged(t)
<1> USE DEF HasConverged, Executing
<1>1. ASSUME NEW u \in Turns, TurnStep(u), u # t PROVE pc'[t] = pc[t]
  BY <1>1 DEF TypeOK, TurnStep, Enter, AlreadyRunning, RestoreHistory, Converge, Converged,
       WriteStart, WriteUser, PrePromptGuard, Rebuild, Prompt, PromptThrows, PromptFails, ToolStarted, ToolFinished,
       Answer, Stop, WriteAssistant, WriteEnd, Compact, ResetRuntime, RolloverCheck, RecordRollover,
       WriteFailed, FailsUncaught, Leave, Goto
<1>2. ASSUME TurnStep(t)
      PROVE  /\ pc'[t] \in Executing => pc[t] \in Executing \cup {"checked"}
             /\ pc'[t] = "ending" => WriteAssistant(t)
             /\ pc'[t] = "converging" => RestoreHistory(t)
             /\ pc'[t] \in HasConverged /\ pc[t] \notin HasConverged => Converged(t)
  <2>1. CASE Enter(t) \/ AlreadyRunning(t) \/ RestoreHistory(t) \/ Converge(t) \/ Converged(t)
             \/ WriteStart(t) \/ WriteUser(t) \/ PrePromptGuard(t) \/ Rebuild(t)
    BY <2>1 DEF TypeOK, Enter, AlreadyRunning, RestoreHistory, Converge, Converged,
       WriteStart, WriteUser, PrePromptGuard, Rebuild, Goto
  <2>2. CASE Prompt(t) \/ PromptThrows(t) \/ PromptFails(t) \/ ToolStarted(t) \/ ToolFinished(t)
             \/ Answer(t) \/ Stop(t) \/ WriteAssistant(t) \/ WriteEnd(t)
    BY <2>2 DEF TypeOK, Prompt, PromptThrows, PromptFails, ToolStarted, ToolFinished, Answer, Stop, WriteAssistant,
       WriteEnd, Goto
  <2>3. CASE Compact(t) \/ ResetRuntime(t) \/ RolloverCheck(t) \/ RecordRollover(t) \/ WriteFailed(t)
             \/ FailsUncaught(t) \/ Leave(t)
    BY <2>3 DEF TypeOK, Fallible, Compact, ResetRuntime, RolloverCheck, RecordRollover, WriteFailed,
       FailsUncaught, Leave, Goto
  <2>4. QED
    BY <1>2, <2>1, <2>2, <2>3 DEF TurnStep
<1>3. ASSUME Environment PROVE pc'[t] \notin Executing
  <2>1. ASSUME NEW u \in Turns, Submit(u) PROVE pc'[t] \in {"checked", "rejected"}
    <3>1. \E next \in {"checked", "rejected"} : pc' = [pc EXCEPT ![u] = next]
      BY <2>1 DEF Submit, Goto
    <3>2. QED
      BY <3>1 DEF TypeOK
  <2>2. CASE Crash
    <3>1. pc'[t] = IF InExecution(t) THEN "lost" ELSE IF pc[t] = "checked" THEN "rejected" ELSE pc[t]
      BY <2>2 DEF Crash
    <3>2. QED
      BY <3>1 DEF InExecution
  <2>3. ASSUME NEW e \in ToolEvents, PersistTool(e) PROVE UNCHANGED pc
    BY <2>3 DEF PersistTool
  <2>4. CASE SweepIdle \/ ArchiveRequested \/ ArchiveUpdated \/ ArchiveRecorded
    BY <2>4 DEF SweepIdle, ArchiveRequested, ArchiveUpdated, ArchiveRecorded
  <2>5. QED
    BY <1>3, <2>1, <2>2, <2>3, <2>4 DEF Environment
<1>4. QED
  BY <1>1, <1>2, <1>3 DEF Next, vars

\* While a turn converges nobody else writes core events or summarises.
LEMMA WhileConverging ==
    ASSUME TypeOK, SingleWriter, [Next]_vars, NEW t \in Turns,
           pc[t] = "converging", pc'[t] = "converging"
    PROVE  \/ Converge(t)
           \/ /\ UNCHANGED summary /\ orphans'[t] = orphans[t]
              /\ UNCHANGED log \/ \E e \in Events : log' = Append(log, e) /\ e.type \in {"call", "result", "other"}
<1>1. InExecution(t) /\ running /\ \A u \in Turns : InExecution(u) => u = t
  BY DEF SingleWriter, InExecution, Executing
<1>2. ASSUME NEW u \in Turns, TurnStep(u), u # t PROVE UNCHANGED <<summary, log>> /\ orphans'[t] = orphans[t]
  <2>1. AlreadyRunning(u)
    BY <1>1, <1>2 DEF InExecution, Executing, Fallible, TurnStep, Enter, RestoreHistory, Converge, Converged,
       WriteStart, WriteUser, PrePromptGuard, Rebuild, Prompt, PromptThrows, PromptFails, ToolStarted, ToolFinished,
       Answer, Stop, WriteAssistant, WriteEnd, Compact, ResetRuntime, RolloverCheck, RecordRollover,
       WriteFailed, FailsUncaught, Leave, Goto
  <2>2. QED
    BY <2>1 DEF AlreadyRunning, durable, locals
<1>3. ASSUME TurnStep(t) PROVE Converge(t)
  BY <1>3 DEF TypeOK, TurnStep, Fallible, Enter, AlreadyRunning, RestoreHistory, Converged,
       WriteStart, WriteUser, PrePromptGuard, Rebuild, Prompt, PromptThrows, PromptFails, ToolStarted, ToolFinished,
       Answer, Stop, WriteAssistant, WriteEnd, Compact, ResetRuntime, RolloverCheck, RecordRollover,
       WriteFailed, FailsUncaught, Leave, Goto
<1>4. ~Crash
  BY <1>1 DEF Crash, InExecution
<1>5. ASSUME NEW p \in ToolEvents, PersistTool(p)
      PROVE  /\ UNCHANGED <<summary, orphans>>
             /\ UNCHANGED log \/ \E e \in Events : log' = Append(log, e) /\ e.type \in {"call", "result", "other"}
  <2>1. p.type \in {"call", "result"} /\ p.turn \in TurnIds
    BY DEF ToolEvents, TurnIds
  <2>2. QED
    BY <1>5, <2>1, EventType, PhaseNames DEF PersistTool, SafeAppend, Append_, EventTypes, locals
<1>6. ASSUME ArchiveRecorded
      PROVE  /\ UNCHANGED <<summary, orphans>>
             /\ UNCHANGED log \/ \E e \in Events : log' = Append(log, e) /\ e.type \in {"call", "result", "other"}
  BY <1>6, EventType, PhaseNames DEF ArchiveRecorded, SafeAppend, Append_, EventTypes, locals
<1>7. ASSUME (\E u \in Turns : Submit(u)) \/ SweepIdle \/ ArchiveRequested \/ ArchiveUpdated
      PROVE  UNCHANGED <<summary, orphans, log>>
  BY <1>7 DEF Submit, SweepIdle, ArchiveRequested, ArchiveUpdated, durable, locals
<1>8. QED
  BY <1>2, <1>3, <1>4, <1>5, <1>6, <1>7 DEF Next, Environment, vars

\* A turn that has asked is not started again.
LEMMA AskedNotEntered ==
    ASSUME IInv, [Next]_vars, NEW t \in Turns, Wrote(t, "user"), ~InExecution(t)
    PROVE  ~InExecution(t)'
<1>1. TypeOK /\ Stages
  BY DEF IInv
<1>2. pc[t] # "checked"
  BY <1>1 DEF Stages, StageOf, NothingWritten, Ledger!CoreTypes
<1>3. QED
  BY <1>1, <1>2, PhaseStep DEF InExecution

\* ... and an answer is written by a turn in execution.
LEMMA NotAnsweredLater ==
    ASSUME TypeOK, [Next]_vars, NEW t \in Turns, ~InExecution(t), ~Wrote(t, "assistant")
    PROVE  ~Wrote(t, "assistant")'
<1>1. CASE UNCHANGED log
  BY <1>1 DEF Wrote, Ledger!Written
<1>2. ASSUME NEW e \in Events, Adds(e) PROVE ~Wrote(t, "assistant")'
  <2>1. ~(e.type = "assistant" /\ e.turn = t)
    BY <1>2 DEF Adds, CoreWrites, Converges, Lands, Goto, InExecution, Executing
  <2>2. QED
    BY <1>2, <2>1, Appended DEF Adds, Wrote, Ledger!Written
<1>3. QED
  BY <1>1, <1>2, StreamGrows

-----------------------------------------------------------------------------
(* Each part of the invariant is kept. *)
LEMMA SettlesOnceStep ==
    ASSUME Ground, StreamInv, SettleInv, [Next]_vars
    PROVE  SettlesOnce'
<1>1. TypeOK /\ Stages /\ SettlesOnce /\ QuestionFirst
  BY DEF Ground, IInv, SettleInv, StreamInv
<1>2. CASE UNCHANGED log
  BY <1>1, <1>2 DEF SettlesOnce
<1>3. ASSUME NEW e \in Events, Adds(e) PROVE SettlesOnce'
  <2>1. ASSUME NEW i \in DOMAIN log, log[i].type \in Settling, e.type \in Settling, log[i].turn = e.turn
        PROVE  FALSE
    <3>1. CASE CoreWrites(e)
      <4>1. InExecution(e.turn) /\ e.turn \in Turns
        BY <2>1, <3>1 DEF CoreWrites, Goto, InExecution, Executing, Settling
      <4>2. log[i].type # "interrupted"
        BY <2>1, <4>1 DEF SettleInv, InterruptedInv
      <4>3. ~Wrote(e.turn, "end") /\ ~Wrote(e.turn, "failed")
        BY <1>1, <2>1, <3>1 DEF CoreWrites, Goto, Stages, StageOf, UserWritten, Settling
      <4>4. QED
        BY <2>1, <4>2, <4>3 DEF Wrote, Ledger!Written, Settling
    <3>2. CASE Converges(e)
      <4>1. PICK m \in DOMAIN log : /\ LastQuestion(m) /\ log[m].turn = e.turn
                                    /\ \A k \in DOMAIN log : m < k => log[k].type \notin Closing
        BY <3>2 DEF Converges, SettleInv, OrphansInv
      <4>2. PICK n \in DOMAIN log : n < i /\ log[n].type = "user" /\ log[n].turn = e.turn
        BY <1>1, <2>1 DEF QuestionFirst, Settling
      <4>3. n = m
        BY <4>1, <4>2, AsksOnce DEF LastQuestion, IsUser
      <4>4. QED
        BY <2>1, <4>1, <4>2, <4>3 DEF Closing, Settling
    <3>3. QED
      BY <1>3, <2>1, <3>1, <3>2 DEF Adds, Lands, Settling
  <2>2. QED
    BY <1>1, <1>3, <2>1, Appended DEF Adds, SettlesOnce, Settling
<1>4. QED
  BY <1>1, <1>2, <1>3, StreamGrows

LEMMA EndsAnsweredStep ==
    ASSUME Budget["append"] = 0, TypeOK, EndsAnswered, [Next]_vars
    PROVE  EndsAnswered'
<1>1. ASSUME NEW t \in Turns, pc'[t] = "ending" PROVE Wrote(t, "assistant")'
  <2>1. CASE pc[t] = "ending"
    BY <2>1, WroteStays DEF EndsAnswered
  <2>2. CASE WriteAssistant(t)
    <3>1. log' = Append(log, Event("assistant", t, reply[t]))
      BY <2>2, NoneSpent DEF WriteAssistant, SafeAppend, Append_, BudgetKinds
    <3>2. /\ Event("assistant", t, reply[t]) \in Events
          /\ Event("assistant", t, reply[t]).type = "assistant" /\ Event("assistant", t, reply[t]).turn = t
      BY EventType, PhaseNames DEF TypeOK, EventTypes
    <3>3. QED
      BY <3>1, <3>2, Appended DEF Wrote, Ledger!Written
  <2>3. QED
    BY <1>1, <2>1, <2>2, PhaseStep
<1>2. ASSUME NEW j \in DOMAIN log', log'[j].type = "end", NEW u, u = log'[j].turn
      PROVE  Wrote(u, "assistant")'
  <2>1. ASSUME NEW e \in Events, Adds(e) PROVE Wrote(u, "assistant")
    <3>1. e.type = "end" => Wrote(e.turn, "assistant")
      BY <2>1 DEF Adds, CoreWrites, Converges, Lands, Goto, EndsAnswered
    <3>2. QED
      BY <1>2, <2>1, <3>1, Appended DEF Adds, EndsAnswered
  <2>2. ASSUME UNCHANGED log PROVE Wrote(u, "assistant")
    BY <1>2, <2>2 DEF EndsAnswered
  <2>3. QED
    BY <2>1, <2>2, WroteStays, StreamGrows
<1>3. \A j \in DOMAIN log' : log'[j].type = "end" =>
          \E i \in DOMAIN log' : log'[i].type = "assistant" /\ log'[i].turn = log'[j].turn
  BY <1>2 DEF Wrote, Ledger!Written
<1>4. QED
  BY <1>1, <1>3 DEF EndsAnswered, Wrote, Ledger!Written

LEMMA InterruptedStep ==
    ASSUME Ground, StreamInv, SettleInv, [Next]_vars
    PROVE  InterruptedInv'
<1>1. IInv /\ TypeOK /\ QuestionFirst /\ InterruptedInv
  BY DEF Ground, IInv, SettleInv, StreamInv
<1>2. ASSUME NEW k \in DOMAIN log, log[k].type = "interrupted", NEW u, u = log[k].turn
      PROVE  ~InExecution(u)' /\ ~Wrote(u, "assistant")'
  <2>1. u \in Turns /\ Wrote(u, "user")
    BY <1>1, <1>2 DEF QuestionFirst, Wrote, Ledger!Written
  <2>2. ~InExecution(u) /\ ~Wrote(u, "assistant")
    BY <1>1, <1>2 DEF InterruptedInv
  <2>3. QED
    BY <1>1, <2>1, <2>2, AskedNotEntered, NotAnsweredLater
<1> DEFINE Closes(k, u) ==
              /\ ~(pc'[u] \in Executing)
              /\ ~\E j \in DOMAIN log' : log'[j].type = "assistant" /\ log'[j].turn = u
              /\ \E i \in DOMAIN log' :
                    /\ i < k /\ log'[i].type = "user" /\ log'[i].turn = u
                    /\ \A m \in DOMAIN log' : log'[m].type = "user" => ~(i < m /\ m < k)
<1>3. (\A k \in DOMAIN log' : log'[k].type = "interrupted" => Closes(k, log'[k].turn)) => InterruptedInv'
  BY DEF InterruptedInv, InExecution, Wrote, Ledger!Written
<1>4. CASE UNCHANGED log
  <2>1. ASSUME NEW k \in DOMAIN log, log[k].type = "interrupted" PROVE Closes(k, log[k].turn)
    BY <1>1, <1>2, <1>4, <2>1 DEF InterruptedInv, InExecution, Wrote, Ledger!Written
  <2>2. QED
    BY <1>3, <1>4, <2>1
<1>5. ASSUME NEW e \in Events, Adds(e) PROVE InterruptedInv'
  <2>1. /\ DOMAIN log = 1 .. Len(log) /\ DOMAIN log' = 1 .. Len(log) + 1 /\ Len(log) \in Nat
        /\ \A i \in DOMAIN log : log'[i] = log[i]
        /\ log'[Len(log) + 1] = e
    BY <1>1, <1>5, Appended DEF Adds
  <2>2. ASSUME NEW k \in DOMAIN log, log[k].type = "interrupted" PROVE Closes(k, log[k].turn)
    <3>1. PICK i \in DOMAIN log :
              /\ i < k /\ log[i].type = "user" /\ log[i].turn = log[k].turn
              /\ \A m \in DOMAIN log : log[m].type = "user" => ~(i < m /\ m < k)
      BY <1>1, <2>2 DEF InterruptedInv
    <3>2. \A m \in DOMAIN log' : m < k => m \in DOMAIN log
      BY <2>1
    <3>3. /\ i \in DOMAIN log' /\ log'[i] = log[i]
          /\ \A m \in DOMAIN log' : log'[m].type = "user" => ~(i < m /\ m < k)
      BY <2>1, <3>1, <3>2
    <3>4. QED
      BY <1>2, <2>2, <3>1, <3>3 DEF InExecution, Wrote, Ledger!Written
  <2>3. ASSUME e.type = "interrupted" PROVE Closes(Len(log) + 1, e.turn)
    <3>1. PICK t \in Turns : e.turn \in orphans[t]
      BY <1>5, <2>3 DEF Adds, CoreWrites, Converges, Lands
    <3>2. e.turn \in Turns /\ Wrote(e.turn, "user") /\ ~InExecution(e.turn) /\ ~Wrote(e.turn, "assistant")
      BY <1>1, <3>1 DEF TypeOK, StreamInv, Asked, SettleInv, OrphansInv
    <3>3. ~InExecution(e.turn)' /\ ~Wrote(e.turn, "assistant")'
      BY <1>1, <3>2, AskedNotEntered, NotAnsweredLater
    <3>4. PICK i \in DOMAIN log : LastQuestion(i) /\ log[i].turn = e.turn
      BY <3>1 DEF SettleInv, OrphansInv
    <3>5. \A m \in DOMAIN log' : log'[m].type = "user" => ~(i < m /\ m < Len(log) + 1)
      BY <2>1, <3>4 DEF LastQuestion
    <3>6. i \in DOMAIN log' /\ i < Len(log) + 1 /\ log'[i].type = "user" /\ log'[i].turn = e.turn
      BY <2>1, <3>4 DEF LastQuestion, IsUser
    <3>7. QED
      BY <3>3, <3>5, <3>6 DEF InExecution, Wrote, Ledger!Written
  <2>4. \A k \in DOMAIN log' : k \in DOMAIN log \/ k = Len(log) + 1
    BY <2>1
  <2>5. \A k \in DOMAIN log' : log'[k].type = "interrupted" => Closes(k, log'[k].turn)
    BY <2>1, <2>2, <2>3, <2>4
  <2>6. QED
    BY <1>3, <2>5
<1>6. QED
  BY <1>1, <1>4, <1>5, StreamGrows

\* A turn has nothing left to converge when it stops converging.
LEMMA OrphansLeft ==
    ASSUME TypeOK, [Next]_vars, NEW t \in Turns, pc[t] = "converging", pc'[t] # "converging"
    PROVE  orphans'[t] = {}
<1>1. ASSUME NEW u \in Turns, TurnStep(u), u # t PROVE FALSE
  BY <1>1 DEF TypeOK, TurnStep, Enter, AlreadyRunning, RestoreHistory, Converge, Converged,
       WriteStart, WriteUser, PrePromptGuard, Rebuild, Prompt, PromptThrows, PromptFails, ToolStarted, ToolFinished,
       Answer, Stop, WriteAssistant, WriteEnd, Compact, ResetRuntime, RolloverCheck, RecordRollover,
       WriteFailed, FailsUncaught, Leave, Goto
<1>2. ASSUME TurnStep(t) PROVE orphans[t] = {} /\ UNCHANGED orphans
  BY <1>2 DEF TypeOK, Fallible, TurnStep, Enter, AlreadyRunning, RestoreHistory, Converge, Converged,
       WriteStart, WriteUser, PrePromptGuard, Rebuild, Prompt, PromptThrows, PromptFails, ToolStarted, ToolFinished,
       Answer, Stop, WriteAssistant, WriteEnd, Compact, ResetRuntime, RolloverCheck, RecordRollover,
       WriteFailed, FailsUncaught, Leave, Goto, locals
<1>3. ASSUME Environment PROVE orphans'[t] = {}
  BY <1>3 DEF TypeOK, Environment, Submit, PersistTool, SweepIdle, ArchiveRequested, ArchiveUpdated,
       ArchiveRecorded, Crash, Goto
<1>4. QED
  BY <1>1, <1>2, <1>3 DEF Next, vars

LEMMA OneOrphan ==
    ASSUME TypeOK, OrphansInv, NEW t \in Turns, NEW u \in orphans[t], NEW v \in orphans[t]
    PROVE  u = v
<1>1. PICK i \in DOMAIN log : LastQuestion(i) /\ log[i].turn = u
  BY DEF OrphansInv
<1>2. PICK j \in DOMAIN log : LastQuestion(j) /\ log[j].turn = v
  BY DEF OrphansInv
<1>3. i <= j /\ j <= i /\ i \in Nat /\ j \in Nat
  BY <1>1, <1>2, Positions DEF LastQuestion, IsUser
<1>4. QED
  BY <1>1, <1>2, <1>3

\* What a restore finds interrupted is what OrphansInv says of it.
LEMMA FoundOrphan ==
    ASSUME Ground, StreamInv, SettleInv, NEW t \in Turns, RestoreHistory(t), NEW u \in orphans'[t]
    PROVE  /\ summary = NoSummary /\ ~InExecution(u) /\ ~Wrote(u, "assistant") /\ Wrote(u, "user") /\ u \in Turns
           /\ \E i \in DOMAIN log :
                 /\ LastQuestion(i) /\ log[i].turn = u
                 /\ \A k \in DOMAIN log : i < k => log[k].type \notin Closing
<1>1. TypeOK /\ Stages /\ SingleWriter /\ QuestionFirst
  BY DEF Ground, IInv, StreamInv
<1>2. summary = NoSummary
  BY <1>1 DEF RestoreHistory, TypeOK
<1>3. PICK i \in InterruptedPositions(log, All) : u = log[i].turn
  BY <1>1, <1>2, WholeStream DEF RestoreHistory, TypeOK, All
<1>4. i \in DOMAIN log /\ IsUser(i) /\ ~Decided(i)
  BY <1>3 DEF InterruptedPositions, UserPositions, All, Replayed, IsUser, Decided
<1>5. LastQuestion(i)
  <2>1. \A m \in DOMAIN log : log[m].type = "user" => ~(i < m)
    BY <1>2, <1>4 DEF SettleInv, DecidedInv, QuestionsDecided, IsUser
  <2>2. QED
    BY <1>1, <1>4, <2>1, Positions DEF LastQuestion
<1>6. (\A k \in DOMAIN log : i < k => log[k].type \notin Closing) /\ ~Wrote(u, "assistant")
  BY <1>1, <1>3, <1>4, <1>5, LastOpen DEF SettleInv
<1>7. u \in Turns /\ Wrote(u, "user")
  BY <1>1, <1>3, <1>4 DEF QuestionFirst, IsUser, Wrote, Ledger!Written
<1>8. u # t
  BY <1>1, <1>7 DEF RestoreHistory, Goto, Stages, StageOf, NothingWritten, Ledger!CoreTypes
<1>9. ~InExecution(u)
  BY <1>1, <1>7, <1>8 DEF RestoreHistory, Goto, SingleWriter, InExecution, Executing
<1>10. QED
  BY <1>2, <1>3, <1>4, <1>5, <1>6, <1>7, <1>9

LEMMA OrphansInvStep ==
    ASSUME Ground, StreamInv, SettleInv, [Next]_vars
    PROVE  OrphansInv'
<1>1. IInv /\ TypeOK /\ SingleWriter /\ OrphansInv
  BY DEF Ground, IInv, SettleInv
<1> SUFFICES ASSUME NEW t \in Turns, NEW u \in orphans'[t]
    PROVE  /\ pc'[t] = "converging" /\ summary' = NoSummary /\ ~InExecution(u)' /\ ~Wrote(u, "assistant")'
           /\ \E i \in DOMAIN log' :
                 /\ log'[i].type = "user" /\ (\A k \in DOMAIN log' : log'[k].type = "user" => k <= i)
                 /\ log'[i].turn = u
                 /\ \A k \in DOMAIN log' : i < k => log'[k].type \notin Closing
  BY DEF OrphansInv, LastQuestion, IsUser
<1>2. CASE RestoreHistory(t)
  <2>1. UNCHANGED <<log, summary>> /\ pc'[t] = "converging"
    BY <1>1, <1>2 DEF RestoreHistory, Goto, TypeOK, durable
  <2>2. ~InExecution(u)' /\ ~Wrote(u, "assistant")'
    BY <1>1, <1>2, FoundOrphan, AskedNotEntered, NotAnsweredLater
  <2>3. QED
    BY <1>2, <2>1, <2>2, FoundOrphan DEF LastQuestion, IsUser
<1>3. CASE ~RestoreHistory(t)
  <2>1. u \in orphans[t] /\ u \in Turns /\ Wrote(u, "user")
    BY <1>1, <1>3, OrphansStep DEF StreamInv, Asked, TypeOK
  <2>2. pc[t] = "converging" /\ summary = NoSummary /\ ~InExecution(u) /\ ~Wrote(u, "assistant")
    BY <1>1, <2>1 DEF OrphansInv
  <2>3. ~InExecution(u)' /\ ~Wrote(u, "assistant")'
    BY <1>1, <2>1, <2>2, AskedNotEntered, NotAnsweredLater
  <2>4. pc'[t] = "converging"
    BY <1>1, <2>2, OrphansLeft
  <2>5. ~Converge(t)
    <3>1. ASSUME Converge(t) PROVE u \notin orphans'[t]
      BY <1>1, <2>1, <3>1, OneOrphan DEF Converge, TypeOK
    <3>2. QED
      BY <3>1
  <2>6. PICK i \in DOMAIN log : /\ LastQuestion(i) /\ log[i].turn = u
                                /\ \A k \in DOMAIN log : i < k => log[k].type \notin Closing
    BY <1>1, <2>1 DEF OrphansInv
  <2>7. /\ UNCHANGED summary
        /\ UNCHANGED log \/ \E e \in Events : log' = Append(log, e) /\ e.type \in {"call", "result", "other"}
    BY <1>1, <2>2, <2>4, <2>5, WhileConverging
  <2>8. CASE UNCHANGED log
    BY <2>2, <2>3, <2>4, <2>6, <2>7, <2>8 DEF LastQuestion, IsUser
  <2>9. ASSUME NEW e \in Events, log' = Append(log, e), e.type \in {"call", "result", "other"}
        PROVE  /\ i \in DOMAIN log' /\ log'[i].type = "user" /\ log'[i].turn = u
               /\ \A k \in DOMAIN log' : log'[k].type = "user" => k <= i
               /\ \A k \in DOMAIN log' : i < k => log'[k].type \notin Closing
    <3>1. /\ \A k \in DOMAIN log' : k \in DOMAIN log \/ log'[k] = e
          /\ \A k \in DOMAIN log : k \in DOMAIN log' /\ log'[k] = log[k]
      BY <1>1, <2>9, Appended
    <3>2. QED
      BY <2>6, <2>9, <3>1 DEF LastQuestion, IsUser, Closing
  <2>10. QED
    BY <2>2, <2>3, <2>4, <2>7, <2>8, <2>9
<1>4. QED
  BY <1>2, <1>3

-----------------------------------------------------------------------------
(* Every question but the last stays decided. *)
LEMMA NewQuestion ==
    ASSUME TypeOK, [Next]_vars, NEW m \in DOMAIN log', m \notin DOMAIN log, log'[m].type = "user"
    PROVE  /\ m = Len(log) + 1
           /\ \E t \in Turns : t = log'[m].turn /\ Goto(t, "started", "asked")
<1>1. PICK e \in Events : Adds(e)
  BY StreamGrows
<1>2. m = Len(log) + 1 /\ log'[m] = e
  BY <1>1, Appended DEF Adds
<1>3. QED
  BY <1>1, <1>2 DEF Adds, CoreWrites, Converges, Lands

LEMMA OldPositions ==
    ASSUME TypeOK, [Next]_vars
    PROVE  /\ \A i \in DOMAIN log : i \in DOMAIN log' /\ log'[i] = log[i]
           /\ \A i \in DOMAIN log', m \in DOMAIN log : i < m => i \in DOMAIN log
           /\ \A i \in DOMAIN log', m \in DOMAIN log' : i < m => i \in DOMAIN log
<1>1. CASE UNCHANGED log
  BY <1>1, Positions
<1>2. ASSUME NEW e \in Events, Adds(e)
      PROVE  /\ \A i \in DOMAIN log : i \in DOMAIN log' /\ log'[i] = log[i]
             /\ \A i \in DOMAIN log', m \in DOMAIN log : i < m => i \in DOMAIN log
             /\ \A i \in DOMAIN log', m \in DOMAIN log' : i < m => i \in DOMAIN log
  BY <1>2, Appended DEF Adds
<1>3. QED
  BY <1>1, <1>2, StreamGrows

LEMMA QuestionsDecidedStep ==
    ASSUME Ground, QuestionFirst, QuestionsDecided, ConvergedDecided, [Next]_vars
    PROVE  QuestionsDecided'
<1>1. TypeOK /\ Stages
  BY DEF Ground, IInv
<1> SUFFICES ASSUME NEW i \in DOMAIN log', NEW m \in DOMAIN log', i < m,
                    log'[i].type = "user", log'[m].type = "user"
             PROVE  Decided(i)'
  BY DEF QuestionsDecided, IsUser
<1>2. i \in DOMAIN log /\ log[i].type = "user"
  BY <1>1, OldPositions
<1>3. Decided(i)
  <2>1. CASE m \in DOMAIN log
    BY <1>1, <1>2, <2>1, OldPositions DEF QuestionsDecided, IsUser
  <2>2. CASE m \notin DOMAIN log
    <3>1. PICK t \in Turns : t = log'[m].turn /\ pc[t] = "started"
      BY <1>1, <2>2, NewQuestion DEF Goto
    <3>2. ~Wrote(t, "user")
      BY <1>1, <3>1 DEF Stages, StageOf, Ledger!CoreTypes
    <3>3. log[i].turn # t
      BY <1>2, <3>2 DEF Wrote, Ledger!Written
    <3>4. QED
      BY <1>2, <3>1, <3>3 DEF ConvergedDecided, HasConverged, Executing, IsUser
  <2>3. QED
    BY <2>1, <2>2
<1>4. QED
  BY <1>1, <1>2, <1>3, DecidedStays

\* turn/interrupted decides the question it is about.
LEMMA InterruptedDecides ==
    ASSUME TypeOK, OrphansInv, [Next]_vars, NEW t \in Turns, NEW u \in orphans[t], u \in Turns,
           log' = Append(log, Event("interrupted", u, NoTurn)),
           NEW i \in DOMAIN log, IsUser(i), log[i].turn = u, Ground
    PROVE  Decided(i)'
<1> DEFINE e == Event("interrupted", u, NoTurn)
<1>1. e \in Events /\ e.type = "interrupted" /\ e.turn = u
  BY EventType, PhaseNames DEF EventTypes
<1>2. /\ DOMAIN log = 1 .. Len(log) /\ DOMAIN log' = 1 .. Len(log) + 1 /\ Len(log) \in Nat
      /\ \A j \in DOMAIN log : log'[j] = log[j]
      /\ log'[Len(log) + 1] = e
  BY <1>1, Appended
<1>3. PICK n \in DOMAIN log : /\ LastQuestion(n) /\ log[n].turn = u
                              /\ \A k \in DOMAIN log : n < k => log[k].type \notin Closing
  BY DEF OrphansInv
<1>4. n = i
  BY <1>3, AsksOnce DEF LastQuestion, IsUser
<1>5. Len(log) + 1 \in All'
  <2>1. u # NoTurn
    BY NoTurnAssumption
  <2>2. QED
    BY <1>1, <1>2, <2>1 DEF All, Replayed
<1>6. ~ClosedBetween(log', All', i, Len(log) + 1)
  <2>1. All' \subseteq DOMAIN log'
    BY DEF All, Replayed
  <2>2. \A k \in DOMAIN log' : i < k /\ k < Len(log) + 1 => log'[k].type \notin Closing
    BY <1>2, <1>3, <1>4
  <2>3. QED
    BY <2>1, <2>2 DEF ClosedBetween
<1>7. i < Len(log) + 1
  BY <1>2
<1>8. QED
  BY <1>1, <1>2, <1>5, <1>6, <1>7 DEF Decided, Discarded

LEMMA ConvergingDecidesStep ==
    ASSUME Budget["append"] = 0, Ground, StreamInv, SettleInv, summary = NoSummary, ConvergingDecides, [Next]_vars
    PROVE  ConvergingDecides'
<1>1. TypeOK /\ Stages /\ SingleWriter /\ QuestionFirst /\ OrphansInv
  BY DEF Ground, IInv, StreamInv, SettleInv
<1> SUFFICES ASSUME NEW t \in Turns, pc'[t] = "converging", NEW i \in DOMAIN log', log'[i].type = "user",
                    ~Decided(i)'
             PROVE  log'[i].turn \in orphans'[t]
  BY DEF ConvergingDecides, IsUser
<1>2. ASSUME UNCHANGED log \/ \E e \in Events : log' = Append(log, e) /\ e.type # "user"
      PROVE  /\ i \in DOMAIN log /\ log[i].type = "user" /\ ~Decided(i) /\ log'[i] = log[i]
             /\ log[i].turn \in Turns
  <2>1. i \in DOMAIN log /\ log[i].type = "user" /\ log'[i] = log[i]
    BY <1>1, <1>2, Appended
  <2>2. QED
    BY <1>1, <2>1, DecidedStays DEF QuestionFirst
<1>3. CASE RestoreHistory(t)
  <2>1. UNCHANGED log
    BY <1>3 DEF RestoreHistory, durable
  <2>2. i \in InterruptedPositions(log, All)
    BY <1>1, <1>2, <2>1, AllTurns DEF InterruptedPositions, UserPositions, Decided
  <2>3. log[i].turn # NoTurn
    BY <1>2, <2>1, NoTurnAssumption
  <2>4. QED
    BY <1>1, <1>2, <1>3, <2>1, <2>2, <2>3, WholeStream DEF RestoreHistory, TypeOK, All
<1>4. CASE Converge(t)
  <2>1. PICK u \in orphans[t] : /\ log' = Append(log, Event("interrupted", u, NoTurn))
                               /\ orphans' = [orphans EXCEPT ![t] = @ \ {u}]
    BY <1>1, <1>4, NoneSpent DEF Converge, SafeAppend, Append_, BudgetKinds
  <2>2. /\ u \in Turns /\ Event("interrupted", u, NoTurn) \in Events
        /\ Event("interrupted", u, NoTurn).type = "interrupted"
    BY <1>1, EventType, PhaseNames DEF TypeOK, EventTypes
  <2>3. i \in DOMAIN log /\ log[i].type = "user" /\ ~Decided(i) /\ log'[i] = log[i]
    BY <1>2, <2>1, <2>2
  <2>4. log[i].turn \in orphans[t]
    BY <1>4, <2>3 DEF ConvergingDecides, IsUser, Converge
  <2>5. log[i].turn # u
    BY <1>1, <2>1, <2>2, <2>3, InterruptedDecides DEF IsUser
  <2>6. QED
    BY <1>1, <2>1, <2>3, <2>4, <2>5 DEF TypeOK
<1>5. CASE pc[t] = "converging" /\ ~Converge(t)
  <2>1. /\ orphans'[t] = orphans[t]
        /\ UNCHANGED log \/ \E e \in Events : log' = Append(log, e) /\ e.type # "user"
    BY <1>1, <1>5, WhileConverging
  <2>2. QED
    BY <1>2, <1>5, <2>1 DEF ConvergingDecides, IsUser
<1>6. QED
  BY <1>1, <1>3, <1>4, <1>5, PhaseStep

LEMMA ConvergedDecidedStep ==
    ASSUME Ground, StreamInv, ConvergingDecides, ConvergedDecided, [Next]_vars
    PROVE  ConvergedDecided'
<1>1. TypeOK /\ Stages /\ SingleWriter /\ QuestionFirst
  BY DEF Ground, IInv, StreamInv
<1> SUFFICES ASSUME NEW t \in Turns, pc'[t] \in HasConverged,
                    NEW i \in DOMAIN log', log'[i].type = "user", log'[i].turn # t
             PROVE  Decided(i)'
  BY DEF ConvergedDecided, IsUser
<1>2. CASE Converged(t)
  <2>1. UNCHANGED log /\ pc[t] = "converging" /\ orphans[t] = {}
    BY <1>2 DEF Converged, Goto, durable
  <2>2. i \in DOMAIN log /\ Decided(i)
    BY <2>1 DEF ConvergingDecides, IsUser
  <2>3. QED
    BY <1>1, <2>2, DecidedStays
<1>3. CASE pc[t] \in HasConverged
  <2>1. i \in DOMAIN log
    <3>1. ASSUME i \notin DOMAIN log PROVE FALSE
      <4>1. PICK u \in Turns : u = log'[i].turn /\ pc[u] = "started"
        BY <1>1, <3>1, NewQuestion DEF Goto
      <4>2. QED
        BY <1>1, <1>3, <4>1 DEF SingleWriter, InExecution, HasConverged, Executing
    <3>2. QED
      BY <3>1
  <2>2. log[i].type = "user" /\ log[i].turn # t
    BY <1>1, <2>1, OldPositions
  <2>3. Decided(i)
    BY <1>3, <2>1, <2>2 DEF ConvergedDecided, IsUser
  <2>4. QED
    BY <1>1, <2>1, <2>3, DecidedStays
<1>4. QED
  BY <1>1, <1>2, <1>3, PhaseStep

LEMMA SettleInit == Init => SettleInv
  BY DEF Init, SettleInv, SettlesOnce, EndsAnswered, InterruptedInv, OrphansInv, DecidedInv,
         QuestionsDecided, ConvergingDecides, ConvergedDecided, HasConverged, IsUser, Executing

LEMMA SettleStep ==
    ASSUME Budget["append"] = 0, Ground, StreamInv, SettleInv, [Next]_vars
    PROVE  SettleInv'
<1>1. TypeOK /\ EndsAnswered /\ QuestionFirst /\ DecidedInv
  BY DEF Ground, IInv, SettleInv, StreamInv
<1>2. summary' = NoSummary => summary = NoSummary
  <2>1. NoSummary # 0 /\ \A n \in PairedAnswers(log, summary) \cup PairedAnswers(log, 0) : n # NoSummary
    BY <1>1, Positions DEF PairedAnswers, NoSummary
  <2>2. QED
    BY <1>1, <2>1, SummaryStep
<1>3. DecidedInv'
  BY <1>1, <1>2, QuestionsDecidedStep, ConvergingDecidesStep, ConvergedDecidedStep DEF DecidedInv
<1>4. QED
  BY <1>1, <1>3, SettlesOnceStep, EndsAnsweredStep, InterruptedStep, OrphansInvStep DEF SettleInv

LEMMA SettleHolds ==
    ASSUME Budget["append"] = 0
    PROVE  Spec => [](Ground /\ StreamInv /\ SettleInv)
<1>1. Ground => IInv
  BY DEF Ground
<1>2. Ground /\ StreamInv /\ SettleInv /\ [Next]_vars => SettleInv'
  BY SettleStep
<1>3. QED
  BY <1>1, <1>2, StreamInit, StreamStep, SettleInit, GroundHolds, PTL DEF Spec


(***************************************************************************)
(* As long as no append fails a turn settles once, through any number of   *)
(* crashes: whoever converges an interrupted turn finds it asking the last *)
(* question, and closes it for everybody (service.ts:672-673).             *)
(***************************************************************************)
THEOREM TurnsSettleOnce ==
    ASSUME Budget["append"] = 0
    PROVE  Spec => []SettlesOnce
<1>1. SettleInv => SettlesOnce
  BY DEF SettleInv
<1>2. QED
  BY <1>1, SettleHolds, PTL

-----------------------------------------------------------------------------
(* Answers stay restorable. *)
LEMMA AnswerRestorable ==
    ASSUME Ground, QuestionFirst, InterruptedInv, NEW j \in DOMAIN log, log[j].type = "assistant"
    PROVE  \E i \in CompletedPositions(log, All) : log[i].turn = log[j].turn
<1>1. TypeOK
  BY DEF Ground, IInv
<1>2. PICK i \in DOMAIN log : i < j /\ log[i].type = "user" /\ log[i].turn = log[j].turn
  BY DEF QuestionFirst
<1>3. i \in All /\ j \in All
  BY <1>1, <1>2, AllTurns
<1>4. Wrote(log[j].turn, "assistant")
  BY DEF Wrote, Ledger!Written
<1>5. ~Discarded(log, All, i)
  <2> SUFFICES ASSUME NEW k \in All, i < k, log[k].type \in {"failed", "interrupted"},
                      ~ClosedBetween(log, All, i, k)
               PROVE  FALSE
    BY DEF Discarded
  <2>1. k \in DOMAIN log /\ \A m \in DOMAIN log : log[m].type = "user" => ~(i < m /\ m < k)
    BY <1>1, AllTurns DEF ClosedBetween, Closing
  <2>2. CASE log[k].type = "failed"
    <3>1. log[i].turn = log[k].turn
      BY <1>2, <2>1, <2>2, QuestionOf
    <3>2. QED
      BY <1>2, <2>1, <2>2, <3>1, AsksOnce
  <2>3. CASE log[k].type = "interrupted"
    <3>1. log[i].turn = log[k].turn
      BY <1>1, <1>2, <2>1, <2>3, InterruptedAsked
    <3>2. QED
      BY <1>2, <1>4, <2>1, <2>3, <3>1 DEF InterruptedInv
  <2>4. QED
    BY <2>2, <2>3
<1>6. ~ClosedBetween(log, All, i, j)
  <2> SUFFICES ASSUME NEW k \in DOMAIN log, i < k, k < j, log[k].type \in Closing PROVE FALSE
    BY <1>1, AllTurns DEF ClosedBetween
  <2>1. CASE log[k].type # "interrupted"
    <3>1. log[k].turn = log[i].turn
      BY <1>2, <2>1 DEF Ground, CoresContiguous, CoreAt, Closing
    <3>2. ~(j < k) /\ i # k
      BY <1>1, Positions
    <3>3. log[k].type # "user" /\ log[k].type # "end" /\ log[k].type # "failed"
      BY <1>2, <3>1, <3>2, AsksOnce
    <3>4. QED
      BY <2>1, <3>3 DEF Closing
  <2>2. CASE log[k].type = "interrupted"
    <3>1. ASSUME NEW m \in DOMAIN log, log[m].type = "user", i < m, m < k PROVE FALSE
      <4>1. m < j
        BY <1>1, <3>1, Positions
      <4>2. log[m].turn = log[i].turn
        BY <1>2, <3>1, <4>1 DEF Ground, CoresContiguous, CoreAt
      <4>3. i # m
        BY <1>1, <3>1, Positions
      <4>4. QED
        BY <1>2, <3>1, <4>2, <4>3, AsksOnce
    <3>2. log[i].turn = log[k].turn
      BY <1>1, <1>2, <2>2, <3>1, InterruptedAsked
    <3>3. QED
      BY <1>2, <1>4, <2>2, <3>2 DEF InterruptedInv
  <2>3. QED
    BY <2>1, <2>2
<1>7. j \in Segment(log, All, i)
  BY <1>2, <1>3, <1>6 DEF Segment, Closing
<1>8. i \in CompletedPositions(log, All)
  BY <1>2, <1>3, <1>5, <1>7 DEF CompletedPositions, UserPositions, HasCompletion, Completing
<1>9. QED
  BY <1>2, <1>8

(***************************************************************************)
(* As long as no append fails, a restore of the whole stream gives back    *)
(* the turn of every persisted answer.  A lost turn/end or user/message    *)
(* breaks it (service.ts:469-475), which the runs show.                    *)
(***************************************************************************)
THEOREM AnswersStayRestorable ==
    ASSUME Budget["append"] = 0
    PROVE  Spec => []AnswersRestorable
<1>1. Ground /\ StreamInv /\ SettleInv => AnswersRestorable
  BY AnswerRestorable DEF AnswersRestorable, StreamInv, SettleInv, All
<1>2. QED
  BY <1>1, SettleHolds, PTL

-----------------------------------------------------------------------------
(* Interrupted turns are converged in time. *)

\* Leaving out the running turn's events changes nothing for the others.
LEMMA DecidedWithout ==
    ASSUME Ground, QuestionFirst, NEW t \in Turns, InExecution(t),
           NEW i \in DOMAIN log, log[i].type = "user", log[i].turn # t, Decided(i)
    PROVE  \/ Discarded(log, Replayed(log, 0, t), i)
           \/ HasCompletion(log, Replayed(log, 0, t), i)
<1> DEFINE P == Replayed(log, 0, t)
<1>1. TypeOK
  BY DEF Ground, IInv
<1>2. P \subseteq DOMAIN log /\ \A k \in DOMAIN log : log[k].turn # t => k \in P
  BY <1>1, Positions DEF Replayed
<1>3. ASSUME NEW k \in All, i < k, ~ClosedBetween(log, All, i, k),
             log[k].type \notin {"start", "user", "other"}
      PROVE  k \in P /\ ~ClosedBetween(log, P, i, k)
  <2>1. k \in DOMAIN log /\ \A m \in DOMAIN log : log[m].type = "user" => ~(i < m /\ m < k)
    BY <1>1, <1>3, AllTurns DEF ClosedBetween, Closing
  <2>2. log[k].turn # t
    <3>1. ASSUME log[k].turn = t PROVE FALSE
      <4>1. PICK m \in DOMAIN log : m < k /\ log[m].type = "user" /\ log[m].turn = t
        BY <1>3, <2>1, <3>1 DEF QuestionFirst
      <4>2. m # i /\ ~(i < m) /\ m \in Nat /\ i \in Nat
        BY <1>1, <2>1, <4>1, Positions
      <4>3. m < i
        BY <4>2
      <4>4. log[i].turn = t
        BY <4>1, <4>3 DEF Ground, RunningLast, CoreAt
      <4>5. QED
        BY <4>4
    <3>2. QED
      BY <3>1
  <2>3. \A m \in P : log[m].type \in Closing => m \in All
    BY <1>1, <1>2, AllTurns DEF Closing
  <2>4. QED
    BY <1>2, <1>3, <2>1, <2>2, <2>3 DEF ClosedBetween
<1>4. CASE Discarded(log, All, i)
  BY <1>3, <1>4 DEF Discarded
<1>5. CASE HasCompletion(log, All, i)
  <2>1. PICK k \in All : /\ i < k /\ log[k].type \in Completing /\ log[k].type \notin Closing
                         /\ ~ClosedBetween(log, All, i, k)
    BY <1>5 DEF HasCompletion, Segment
  <2>2. k \in P /\ ~ClosedBetween(log, P, i, k)
    BY <1>3, <2>1 DEF Completing
  <2>3. QED
    BY <2>1, <2>2 DEF HasCompletion, Segment
<1>6. QED
  BY <1>4, <1>5 DEF Decided

LEMMA NeverSummarised ==
    ASSUME Budget["summary"] = 0, Budget["rollover"] = 0, TypeOK, summary = NoSummary, [Next]_vars
    PROVE  summary' = NoSummary
<1>1. ~InsertSummary /\ ~Spend("rollover")
  BY NoneSpent DEF InsertSummary, BudgetKinds
<1>2. ASSUME NEW t \in Turns, TurnStep(t) PROVE UNCHANGED summary
  BY <1>1, <1>2 DEF TurnStep, Enter, AlreadyRunning, RestoreHistory, Converge, Converged,
       WriteStart, WriteUser, PrePromptGuard, Rebuild, Prompt, PromptThrows, PromptFails, ToolStarted, ToolFinished,
       Answer, Stop, WriteAssistant, WriteEnd, Compact, ResetRuntime, RolloverCheck, RecordRollover,
       WriteFailed, FailsUncaught, Leave, durable
<1>3. ASSUME Environment PROVE UNCHANGED summary
  BY <1>3 DEF Environment, Submit, PersistTool, SweepIdle, ArchiveRequested, ArchiveUpdated,
       ArchiveRecorded, Crash, durable
<1>4. QED
  BY <1>2, <1>3 DEF Next, vars

LEMMA AllConverged ==
    ASSUME Ground, StreamInv, SettleInv, summary = NoSummary
    PROVE  InterruptedConverged
<1> SUFFICES ASSUME NEW t \in Turns, pc[t] \in HasConverged,
                    NEW i \in InterruptedPositions(log, Replayed(log, 0, t))
             PROVE  FALSE
  BY DEF InterruptedConverged, HasConverged
<1>1. /\ i \in DOMAIN log /\ log[i].type = "user" /\ log[i].turn # t
      /\ ~Discarded(log, Replayed(log, 0, t), i) /\ ~HasCompletion(log, Replayed(log, 0, t), i)
  BY DEF InterruptedPositions, UserPositions, Replayed
<1>2. InExecution(t)
  BY DEF HasConverged, InExecution
<1>3. Decided(i)
  BY <1>1 DEF SettleInv, DecidedInv, ConvergedDecided, IsUser
<1>4. QED
  BY <1>1, <1>2, <1>3, DecidedWithout DEF StreamInv

(***************************************************************************)
(* As long as no append fails and nothing has been summarised, a turn that *)
(* writes leaves no interrupted turn behind it (service.ts:525).  With a   *)
(* summary restoreHistory returns before it converges.                     *)
(***************************************************************************)
THEOREM InterruptedAreConverged ==
    ASSUME Budget["append"] = 0, Budget["summary"] = 0, Budget["rollover"] = 0
    PROVE  Spec => []InterruptedConverged
<1>1. Init => summary = NoSummary
  BY DEF Init
<1>2. Ground => TypeOK
  BY DEF Ground, IInv
<1>3. TypeOK /\ summary = NoSummary /\ [Next]_vars => (summary = NoSummary)'
  BY NeverSummarised
<1>4. Ground /\ StreamInv /\ SettleInv /\ summary = NoSummary => InterruptedConverged
  BY AllConverged
<1>5. QED
  BY <1>1, <1>2, <1>3, <1>4, SettleHolds, PTL DEF Spec

=============================================================================
