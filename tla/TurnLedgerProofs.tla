-------------------------- MODULE TurnLedgerProofs --------------------------
(***************************************************************************)
(* The stream that TurnLedger allows is readable by position: the events   *)
(* of a turn are contiguous and in order, for every set of turns.          *)
(***************************************************************************)
EXTENDS TurnLedger, TLAPS

(***************************************************************************)
(* Contiguity is not inductive.  What makes it so: no event of a turn that *)
(* was never given the stream, and once the writer has an event, every     *)
(* later core event is the writer's.                                       *)
(***************************************************************************)
OnlyBegun == \A i \in DOMAIN log : log[i].type \in CoreTypes => log[i].turn \in begun

WriterLast ==
    \A i, j \in DOMAIN log :
        (/\ i < j /\ log[i].type \in CoreTypes /\ log[j].type \in CoreTypes
         /\ log[i].turn = writer) => log[j].turn = writer

WriterBegun == writer # NoTurn => writer \in begun

LedgerInv == TypeOK /\ OnlyBegun /\ WriterBegun /\ WriterLast /\ Contiguous /\ Grammatical

\* Appending an event keeps the old ones and adds one at the end.
LEMMA AppendFacts ==
    ASSUME NEW s \in Seq(Events), NEW e \in Events
    PROVE  /\ Append(s, e) \in Seq(Events)
           /\ DOMAIN Append(s, e) = DOMAIN s \cup {Len(s) + 1}
           /\ \A i \in DOMAIN s : Append(s, e)[i] = s[i] /\ i \in Nat /\ i < Len(s) + 1
           /\ Append(s, e)[Len(s) + 1] = e
           /\ Len(s) + 1 \notin DOMAIN s
  OBVIOUS

LEMMA LedgerInitial == Init => LedgerInv
  BY NoTurnAssumption
  DEF Init, LedgerInv, TypeOK, OnlyBegun, WriterBegun, WriterLast, Contiguous, Grammatical

LEMMA BeginKeeps ==
    ASSUME LedgerInv, NEW t \in Turns, Begin(t)
    PROVE  LedgerInv'
  BY NoTurnAssumption
  DEF LedgerInv, Begin, TypeOK, OnlyBegun, WriterBegun, WriterLast, Contiguous, Grammatical

LEMMA ReleaseKeeps ==
    ASSUME LedgerInv, Release
    PROVE  LedgerInv'
<1>1. \A i \in DOMAIN log : log[i].type \in CoreTypes => log[i].turn # NoTurn
  BY NoTurnAssumption DEF LedgerInv, OnlyBegun, TypeOK
<1>2. QED
  BY <1>1 DEF LedgerInv, Release, TypeOK, OnlyBegun, WriterBegun, WriterLast,
              Contiguous, Grammatical

\* A side event is no core event, so no named part of the invariant sees it.
LEMMA NoteKeeps ==
    ASSUME LedgerInv, Note
    PROVE  LedgerInv'
<1>1. PICK e \in Events : e.type \notin CoreTypes /\ log' = Append(log, e)
  BY DEF Note
<1>2. UNCHANGED <<writer, begun>>
  BY DEF Note
<1> USE AppendFacts
<1>3. TypeOK'
  BY <1>1, <1>2 DEF LedgerInv, TypeOK
<1>4. log \in Seq(Events)
  BY DEF LedgerInv, TypeOK
<1>5. \A i \in DOMAIN log' : log'[i].type \in CoreTypes => i \in DOMAIN log /\ log'[i] = log[i]
  BY <1>1, <1>4
<1>6. OnlyBegun' /\ WriterBegun' /\ WriterLast'
  BY <1>2, <1>5 DEF LedgerInv, OnlyBegun, WriterBegun, WriterLast
<1>7. Contiguous' /\ Grammatical'
  BY <1>2, <1>5 DEF LedgerInv, Contiguous, Grammatical
<1>8. QED
  BY <1>3, <1>6, <1>7 DEF LedgerInv

LEMMA WriteKeeps ==
    ASSUME LedgerInv, NEW t \in Turns, Write(t)
    PROVE  LedgerInv'
<1>1. PICK e \in Events : CoreEventOf(e, t) /\ Allowed(log, t, e.type) /\ log' = Append(log, e)
  BY DEF Write
<1>2. writer = t /\ UNCHANGED <<writer, begun>>
  BY DEF Write
<1>3. log \in Seq(Events) /\ t # NoTurn /\ t \in begun
  BY <1>2, NoTurnAssumption DEF LedgerInv, TypeOK, WriterBegun
<1>4. /\ DOMAIN log' = DOMAIN log \cup {Len(log) + 1}
      /\ \A i \in DOMAIN log : log'[i] = log[i] /\ i \in Nat /\ i < Len(log) + 1
      /\ log'[Len(log) + 1] = e
      /\ log' \in Seq(Events) /\ Len(log) \in Nat
  BY <1>1, <1>3, AppendFacts
<1>5. e.type \in CoreTypes /\ e.turn = t
  BY <1>1 DEF CoreEventOf
<1>6. TypeOK' /\ OnlyBegun' /\ WriterBegun'
  BY <1>2, <1>3, <1>4, <1>5 DEF LedgerInv, TypeOK, OnlyBegun, WriterBegun
<1>7. WriterLast'
  BY <1>2, <1>4, <1>5 DEF LedgerInv, WriterLast
<1>8. Contiguous'
  <2> SUFFICES ASSUME NEW i \in DOMAIN log', NEW j \in DOMAIN log', NEW k \in DOMAIN log',
                      i < j, j < k,
                      log'[i].type \in CoreTypes, log'[j].type \in CoreTypes,
                      log'[k].type \in CoreTypes, log'[i].turn = log'[k].turn
               PROVE  log'[j].turn = log'[i].turn
    BY DEF Contiguous
  <2>1. i \in DOMAIN log /\ j \in DOMAIN log
    BY <1>4
  <2>2. CASE k \in DOMAIN log
    BY <2>1, <2>2, <1>4 DEF LedgerInv, Contiguous
  <2>3. CASE k = Len(log) + 1
    BY <2>1, <2>3, <1>2, <1>4, <1>5 DEF LedgerInv, WriterLast
  <2>4. QED
    BY <2>2, <2>3, <1>4
<1>9. Grammatical'
  <2> SUFFICES ASSUME NEW i \in DOMAIN log', NEW j \in DOMAIN log',
                      i < j, log'[i].turn = log'[j].turn,
                      log'[i].type \in CoreTypes, log'[j].type \in CoreTypes
               PROVE  <<log'[i].type, log'[j].type>> \in Follows
    BY DEF Grammatical
  <2>1. i \in DOMAIN log
    BY <1>4
  <2>2. CASE j \in DOMAIN log
    BY <2>1, <2>2, <1>4 DEF LedgerInv, Grammatical
  <2>3. CASE j = Len(log) + 1
    <3>1. log[i].turn = t /\ log[i].type \in CoreTypes /\ log'[i] = log[i] /\ log'[j] = e
      BY <2>1, <2>3, <1>4, <1>5
    <3>2. Written(log, t, log[i].type)
      BY <2>1, <3>1 DEF Written
    <3>3. <<log[i].type, e.type>> \in Follows
      BY <1>1, <1>5, <3>1, <3>2 DEF Allowed, CoreTypes, Follows
    <3>4. QED
      BY <3>1, <3>3
  <2>4. QED
    BY <2>2, <2>3, <1>4
<1>10. QED
  BY <1>6, <1>7, <1>8, <1>9 DEF LedgerInv

\* The invariant holds of every stream the ledger allows.
LEMMA LedgerSound == Spec => []LedgerInv
<1>1. LedgerInv /\ [Next]_vars => LedgerInv'
  <2> SUFFICES ASSUME LedgerInv, [Next]_vars PROVE LedgerInv'
    OBVIOUS
  <2>1. CASE UNCHANGED vars
    BY <2>1 DEF vars, LedgerInv, TypeOK, OnlyBegun, WriterBegun, WriterLast, Contiguous, Grammatical
  <2>2. CASE Next
    BY <2>2, BeginKeeps, WriteKeeps, NoteKeeps, ReleaseKeeps DEF Next
  <2>3. QED
    BY <2>1, <2>2
<1>2. QED
  BY LedgerInitial, <1>1, PTL DEF Spec

(***************************************************************************)
(* Every stream the ledger allows keeps the core events of a turn together *)
(* and in the persistence order.                                           *)
(***************************************************************************)
THEOREM LedgerReadable == Spec => [](Contiguous /\ Grammatical)
<1>1. LedgerInv => Contiguous /\ Grammatical
  BY DEF LedgerInv
<1>2. QED
  BY LedgerSound, <1>1, PTL
=============================================================================
