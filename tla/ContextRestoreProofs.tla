------------------------ MODULE ContextRestoreProofs ------------------------
(***************************************************************************)
(* The positional definitions of ContextRestore say what the two loops of  *)
(* the source compute, for every event stream, however long, every summary *)
(* and every excluded turn.                                                *)
(*                                                                         *)
(* What the loops hold in the middle is the positional reading of what has *)
(* been closed by then, and the one question that is still open.           *)
(***************************************************************************)
EXTENDS ContextRestoreFold, TLAPS

\* The questions that a later event has closed, and those that none has.
Closed(s, P) == {i \in UserPositions(s, P) : \E k \in P : i < k /\ s[k].type \in Closing}
Opens(s, P)  == UserPositions(s, P) \ Closed(s, P)

Done(s, P)     == CompletedPositions(s, P) \cap Closed(s, P)
Reported(s, P) == {i \in InterruptedPositions(s, P) \cap Closed(s, P) : s[i].turn # NoTurn}

\* Of the questions `now`, those with something to answer them, and the others.
Finished(s, P, now)   == {i \in now : HasCompletion(s, P, i)}
Unfinished(s, P, now) == {i \in now : ~HasCompletion(s, P, i) /\ s[i].turn # NoTurn}

PendingTurns == [turn : Turns \cup {NoTurn}, at : Nat, hasUser : BOOLEAN, hasCompletion : BOOLEAN]
Folds == [current : PendingTurns, turns : Seq(Nat), interrupted : Seq(Nat)]

(***************************************************************************)
(* The fold r stands for the positions P of the stream s.                  *)
(***************************************************************************)
Stands(r, s, P) ==
    /\ r \in Folds
    /\ Lists(r.turns, Done(s, P)) /\ Lists(r.interrupted, Reported(s, P))
    /\ r.current.hasUser =>
          /\ Opens(s, P) = {r.current.at} /\ r.current.turn = s[r.current.at].turn
          /\ \A i \in Closed(s, P) : i < r.current.at
          /\ r.current.hasCompletion <=> HasCompletion(s, P, r.current.at)
    /\ ~r.current.hasUser => Opens(s, P) = {}

\* A question that no event the compaction driver looks at has followed.
Waits(s, after, i) ==
    /\ i \in DOMAIN s /\ i > after /\ s[i].type = "user"
    /\ \A k \in i + 1 .. Len(s) : s[k].type \notin PairingTypes

Pairs == [pending : BOOLEAN, out : Seq(Nat)]

PairsStand(p, s, after) ==
    /\ p \in Pairs
    /\ Lists(p.out, PairedAnswers(s, after))
    /\ p.pending <=> \E i \in DOMAIN s : Waits(s, after, i)

FoldInv ==
    /\ log \in Seq(Events) /\ through \in 0 .. Len(log)
    /\ Stands(restored, log, Replayed(log, through, excluded))
    /\ PairsStand(paired, log, through)

-----------------------------------------------------------------------------
LEMMA AppendIs ==
    ASSUME NEW S, NEW s \in Seq(S), NEW e \in S
    PROVE  /\ Append(s, e) \in Seq(S) /\ Len(s) \in Nat /\ Len(Append(s, e)) = Len(s) + 1
           /\ DOMAIN s = 1 .. Len(s) /\ DOMAIN Append(s, e) = 1 .. Len(s) + 1
           /\ \A k \in 1 .. Len(s) : Append(s, e)[k] = s[k]
           /\ Append(s, e)[Len(s) + 1] = e
  OBVIOUS

\* A list goes on with a position above all it has.
LEMMA ListGrows ==
    ASSUME NEW s \in Seq(Nat), NEW S, Lists(s, S), NEW n \in Nat, \A i \in S : i < n
    PROVE  Append(s, n) \in Seq(Nat) /\ Lists(Append(s, n), S \cup {n})
  <1> DEFINE t == Append(s, n)
             L == Len(s)
  <1>1. /\ t \in Seq(Nat) /\ L \in Nat /\ DOMAIN s = 1 .. L /\ DOMAIN t = 1 .. L + 1
        /\ \A k \in 1 .. L : t[k] = s[k]
        /\ t[L + 1] = n
    BY AppendIs
  <1> HIDE DEF t, L
  <1>2. \A k \in 1 .. L : s[k] \in S /\ s[k] < n
    BY <1>1 DEF Lists
  <1>3. {t[k] : k \in DOMAIN t} = S \cup {n}
    <2>1. ASSUME NEW k \in DOMAIN t PROVE t[k] \in S \cup {n}
      BY <1>1, <1>2
    <2>2. ASSUME NEW i \in S PROVE i \in {t[k] : k \in DOMAIN t}
      <3>1. PICK k \in DOMAIN s : s[k] = i
        BY DEF Lists
      <3>2. k \in DOMAIN t /\ t[k] = i
        BY <1>1, <3>1
      <3>3. QED
        BY <3>2
    <2>3. L + 1 \in DOMAIN t /\ t[L + 1] = n
      BY <1>1
    <2>4. n \in {t[k] : k \in DOMAIN t}
      BY <2>3
    <2>5. QED
      BY <2>1, <2>2, <2>4
  <1>4. ASSUME NEW j \in DOMAIN t, NEW k \in DOMAIN t, j < k PROVE t[j] < t[k]
    <2>1. j \in 1 .. L /\ t[j] = s[j]
      BY <1>1, <1>4
    <2>2. CASE k \in 1 .. L
      BY <1>1, <1>4, <2>1, <2>2 DEF Lists
    <2>3. CASE k = L + 1
      BY <1>1, <1>2, <2>1, <2>3
    <2>4. QED
      BY <1>1, <2>2, <2>3
  <1>5. QED
    BY <1>1, <1>3, <1>4 DEF Lists, t

(***************************************************************************)
(* One more event, at the end of the stream and of what is replayed.       *)
(***************************************************************************)
Reads(s, P, e, t, Q) ==
    /\ s \in Seq(Events) /\ P \subseteq DOMAIN s /\ e \in Events
    /\ t = Append(s, e) /\ Q = P \cup {Len(s) + 1}

LEMMA ReadsIs ==
    ASSUME NEW s, NEW P, NEW e, NEW t, NEW Q, Reads(s, P, e, t, Q)
    PROVE  /\ P \subseteq Nat /\ Len(s) + 1 \in Nat /\ t[Len(s) + 1] = e /\ Len(s) + 1 \in Q
           /\ \A i \in P : i < Len(s) + 1 /\ t[i] = s[i] /\ i \in Q
           /\ \A i \in Q : i \in P \/ i = Len(s) + 1
           /\ \A i \in Q : i <= Len(s) + 1
  <1>1. /\ Len(s) \in Nat /\ DOMAIN s = 1 .. Len(s)
        /\ \A k \in 1 .. Len(s) : t[k] = s[k]
        /\ t[Len(s) + 1] = e
    BY AppendIs DEF Reads
  <1>2. P \subseteq 1 .. Len(s) /\ Q = P \cup {Len(s) + 1}
    BY <1>1 DEF Reads
  <1> HIDE DEF Reads
  <1>3. QED
    BY <1>1, <1>2

\* Between two positions that were there nothing has changed.
LEMMA BetweenKept ==
    ASSUME NEW s, NEW P, NEW e, NEW t, NEW Q, Reads(s, P, e, t, Q), NEW i \in P, NEW j \in Q
    PROVE  ClosedBetween(t, Q, i, j) <=> ClosedBetween(s, P, i, j)
  <1>1. ASSUME NEW k \in Q, k < j PROVE k \in P /\ t[k] = s[k]
    <2>1. k # Len(s) + 1
      BY <1>1, ReadsIs
    <2>2. QED
      BY <2>1, ReadsIs
  <1>2. \A k \in P : k \in Q /\ t[k] = s[k]
    BY ReadsIs
  <1>3. QED
    BY <1>1, <1>2 DEF ClosedBetween

\* What is closed stays as it is.
LEMMA ClosedKept ==
    ASSUME NEW s, NEW P, NEW e, NEW t, NEW Q, Reads(s, P, e, t, Q), NEW i \in Closed(s, P)
    PROVE  /\ i \in Closed(t, Q) /\ t[i] = s[i]
           /\ Discarded(t, Q, i) <=> Discarded(s, P, i)
           /\ HasCompletion(t, Q, i) <=> HasCompletion(s, P, i)
  <1> DEFINE n == Len(s) + 1
  <1>1. i \in P /\ s[i].type = "user" /\ \E k \in P : i < k /\ s[k].type \in Closing
    BY DEF Closed, UserPositions
  <1>2. ClosedBetween(t, Q, i, n)
    BY <1>1, ReadsIs DEF ClosedBetween
  <1>3. \A j \in P : j \in Q /\ j < n /\ t[j] = s[j] /\ (ClosedBetween(t, Q, i, j) <=> ClosedBetween(s, P, i, j))
    BY <1>1, ReadsIs, BetweenKept
  <1>4. \A j \in Q : j \in P \/ j = n
    BY ReadsIs
  <1> HIDE DEF n
  <1>5. i \in Closed(t, Q)
    BY <1>1, <1>3 DEF Closed, UserPositions
  <1>6. Discarded(t, Q, i) <=> Discarded(s, P, i)
    BY <1>2, <1>3, <1>4 DEF Discarded
  <1>7. Segment(t, Q, i) = Segment(s, P, i)
    BY <1>2, <1>3, <1>4 DEF Segment
  <1>8. \A j \in Segment(s, P, i) : t[j] = s[j]
    BY <1>3 DEF Segment
  <1>9. QED
    BY <1>1, <1>3, <1>5, <1>6, <1>7, <1>8 DEF HasCompletion

\* What the event does to a question that was open.
LEMMA OpenKept ==
    ASSUME NEW s, NEW P, NEW e, NEW t, NEW Q, Reads(s, P, e, t, Q), NEW i \in Opens(s, P)
    PROVE  /\ t[i] = s[i] /\ i \in UserPositions(t, Q)
           /\ i \in Closed(t, Q) <=> e.type \in Closing
           /\ Discarded(t, Q, i) <=> e.type \in {"failed", "interrupted"}
           /\ HasCompletion(t, Q, i) <=> HasCompletion(s, P, i) \/ e.type \in Completing
           /\ ~Discarded(s, P, i)
  <1> DEFINE n == Len(s) + 1
  <1>1. i \in P /\ s[i].type = "user" /\ \A k \in P : i < k => s[k].type \notin Closing
    BY DEF Opens, Closed, UserPositions
  <1>2. /\ \A j \in P : j \in Q /\ j < n /\ t[j] = s[j]
        /\ \A j \in Q : j \in P \/ j = n
        /\ n \in Q /\ t[n] = e
    BY ReadsIs
  <1>3. \A j \in Q : ~ClosedBetween(t, Q, i, j) /\ ~ClosedBetween(s, P, i, j)
    <2> SUFFICES ASSUME NEW j \in Q PROVE ~ClosedBetween(s, P, i, j)
      BY <1>1, BetweenKept
    <2>1. QED
      BY <1>1 DEF ClosedBetween
  <1> HIDE DEF n
  <1>4. i \in UserPositions(t, Q) /\ t[i] = s[i]
    BY <1>1, <1>2 DEF UserPositions
  <1>5. i \in Closed(t, Q) <=> e.type \in Closing
    BY <1>1, <1>2, <1>4 DEF Closed
  <1>6. \A k \in P : i < k => s[k].type \notin {"failed", "interrupted"}
    BY <1>1 DEF Closing
  <1>7. ~Discarded(s, P, i)
    BY <1>6 DEF Discarded
  <1>8. Discarded(t, Q, i) <=> e.type \in {"failed", "interrupted"}
    BY <1>1, <1>2, <1>3, <1>6 DEF Discarded
  <1>9. HasCompletion(t, Q, i) <=> HasCompletion(s, P, i) \/ e.type \in Completing
    <2>1. \A j \in P : j \in Segment(t, Q, i) <=> j \in Segment(s, P, i)
      BY <1>2, <1>3 DEF Segment
    <2>2. n \in Segment(t, Q, i) <=> e.type \notin Closing
      BY <1>1, <1>2, <1>3 DEF Segment
    <2>3. e.type \in Completing => e.type \notin Closing
      BY DEF Completing, Closing
    <2>4. Segment(s, P, i) \subseteq P /\ Segment(t, Q, i) \subseteq Q
      BY DEF Segment
    <2>5. QED
      BY <1>2, <2>1, <2>2, <2>3, <2>4 DEF HasCompletion
  <1>10. QED
    BY <1>4, <1>5, <1>7, <1>8, <1>9

\* The last position: a question there is open and has nothing yet.
LEMMA NewestOpen ==
    ASSUME NEW s, NEW P, NEW e, NEW t, NEW Q, Reads(s, P, e, t, Q)
    PROVE  /\ Len(s) + 1 \notin Closed(t, Q)
           /\ Len(s) + 1 \in UserPositions(t, Q) <=> e.type = "user"
           /\ ~HasCompletion(t, Q, Len(s) + 1)
           /\ UserPositions(t, Q) \ {Len(s) + 1} = UserPositions(s, P)
           /\ Len(s) + 1 \notin UserPositions(s, P)
  <1> DEFINE n == Len(s) + 1
  <1>1. /\ \A j \in P : j \in Q /\ j < n /\ t[j] = s[j]
        /\ \A j \in Q : (j \in P \/ j = n) /\ ~(n < j)
        /\ n \in Q /\ t[n] = e /\ n \notin P
    BY ReadsIs
  <1> HIDE DEF n
  <1>2. n \notin Closed(t, Q) /\ (n \in UserPositions(t, Q) <=> e.type = "user") /\ ~HasCompletion(t, Q, n)
    BY <1>1 DEF Closed, UserPositions, HasCompletion, Segment
  <1>3. UserPositions(t, Q) \ {n} = UserPositions(s, P) /\ n \notin UserPositions(s, P)
    BY <1>1 DEF UserPositions
  <1>4. QED
    BY <1>2, <1>3 DEF n

\* A closing event closes every question before it.
LEMMA ClosesAll ==
    ASSUME NEW s, NEW P, NEW e, NEW t, NEW Q, Reads(s, P, e, t, Q), e.type \in Closing
    PROVE  /\ Opens(t, Q) = IF e.type = "user" THEN {Len(s) + 1} ELSE {}
           /\ Closed(t, Q) = UserPositions(s, P)
  <1> DEFINE n == Len(s) + 1
  <1>1. UserPositions(s, P) = Closed(s, P) \cup Opens(s, P) /\ Closed(s, P) \cap Opens(s, P) = {}
    BY DEF Opens, Closed
  <1>2. Closed(t, Q) \subseteq UserPositions(t, Q) /\ n \notin Closed(t, Q)
    BY NewestOpen DEF Closed
  <1>3. UserPositions(t, Q) \ {n} = UserPositions(s, P)
    BY NewestOpen
  <1>4. \A i \in Closed(s, P) : i \in Closed(t, Q)
    BY ClosedKept
  <1>5. \A i \in Opens(s, P) : i \in Closed(t, Q)
    BY OpenKept
  <1>6. Closed(t, Q) = UserPositions(s, P)
    BY <1>1, <1>2, <1>3, <1>4, <1>5
  <1>7. Opens(t, Q) = IF e.type = "user" THEN {n} ELSE {}
    <2>1. n \in UserPositions(t, Q) <=> e.type = "user"
      BY NewestOpen
    <2>2. n \notin UserPositions(s, P)
      BY NewestOpen
    <2>3. QED
      BY <1>3, <1>6, <2>1, <2>2 DEF Opens
  <1>8. QED
    BY <1>6, <1>7

\* What is finished then.
LEMMA AfterClosing ==
    ASSUME NEW s, NEW P, NEW e, NEW t, NEW Q, Reads(s, P, e, t, Q), e.type \in Closing,
           NEW now, now = IF e.type \in {"failed", "interrupted"} THEN {} ELSE Opens(s, P)
    PROVE  /\ Done(t, Q) = Done(s, P) \cup Finished(s, P, now)
           /\ Reported(t, Q) = Reported(s, P) \cup Unfinished(s, P, now)
  <1>1. UserPositions(s, P) = Closed(s, P) \cup Opens(s, P) /\ Closed(s, P) \cap Opens(s, P) = {}
    BY DEF Opens, Closed
  <1>2. Closed(t, Q) = UserPositions(s, P)
    BY ClosesAll
  <1>3. UserPositions(t, Q) \ {Len(s) + 1} = UserPositions(s, P)
    BY NewestOpen
  <1>4. ASSUME NEW i \in Closed(s, P)
        PROVE  /\ i \in Done(t, Q) <=> i \in Done(s, P)
               /\ i \in Reported(t, Q) <=> i \in Reported(s, P)
    <2>1. i \in UserPositions(s, P) /\ i \in UserPositions(t, Q) /\ i \in Closed(t, Q) /\ t[i] = s[i]
      BY <1>1, <1>3, ClosedKept
    <2>2. /\ Discarded(t, Q, i) <=> Discarded(s, P, i)
          /\ HasCompletion(t, Q, i) <=> HasCompletion(s, P, i)
      BY ClosedKept
    <2>3. QED
      BY <1>4, <2>1, <2>2 DEF Done, Reported, CompletedPositions, InterruptedPositions
  <1>5. ASSUME NEW i \in Opens(s, P)
        PROVE  /\ i \in Done(t, Q) <=> i \in now /\ HasCompletion(s, P, i)
               /\ i \in Reported(t, Q) <=> i \in now /\ ~HasCompletion(s, P, i) /\ s[i].turn # NoTurn
               /\ i \notin Done(s, P) /\ i \notin Reported(s, P)
    <2>1. i \in UserPositions(t, Q) /\ i \in Closed(t, Q) /\ t[i] = s[i]
      BY OpenKept
    <2>2. Discarded(t, Q, i) <=> e.type \in {"failed", "interrupted"}
      BY OpenKept
    <2>3. HasCompletion(t, Q, i) <=> HasCompletion(s, P, i)
      BY OpenKept DEF Closing, Completing
    <2>4. i \notin Done(s, P) /\ i \notin Reported(s, P)
      BY <1>1 DEF Done, Reported
    <2>5. QED
      BY <2>1, <2>2, <2>3, <2>4 DEF Done, Reported, CompletedPositions, InterruptedPositions
  <1>6. /\ Done(t, Q) \subseteq Closed(t, Q) /\ Reported(t, Q) \subseteq Closed(t, Q)
         /\ Done(s, P) \subseteq Closed(s, P) /\ Reported(s, P) \subseteq Closed(s, P)
         /\ now \subseteq Opens(s, P)
    BY DEF Done, Reported
  <1>7. Done(t, Q) = Done(s, P) \cup Finished(s, P, now)
    BY <1>1, <1>2, <1>4, <1>5, <1>6 DEF Finished
  <1>8. Reported(t, Q) = Reported(s, P) \cup Unfinished(s, P, now)
    BY <1>1, <1>2, <1>4, <1>5, <1>6 DEF Unfinished
  <1>9. QED
    BY <1>7, <1>8

\* Any other event leaves them, but for what the open question has got.
LEMMA AfterOther ==
    ASSUME NEW s, NEW P, NEW e, NEW t, NEW Q, Reads(s, P, e, t, Q), e.type \notin Closing
    PROVE  /\ Opens(t, Q) = Opens(s, P) /\ Closed(t, Q) = Closed(s, P)
           /\ Done(t, Q) = Done(s, P) /\ Reported(t, Q) = Reported(s, P)
           /\ \A i \in Opens(s, P) :
                 /\ t[i] = s[i]
                 /\ HasCompletion(t, Q, i) <=> HasCompletion(s, P, i) \/ e.type \in Completing
  <1>1. UserPositions(s, P) = Closed(s, P) \cup Opens(s, P)
    BY DEF Opens, Closed
  <1>2. UserPositions(t, Q) = UserPositions(s, P)
    <2>1. Len(s) + 1 \notin UserPositions(t, Q)
      BY NewestOpen DEF Closing
    <2>2. UserPositions(t, Q) \ {Len(s) + 1} = UserPositions(s, P)
      BY NewestOpen
    <2>3. QED
      BY <2>1, <2>2
  <1>3. \A i \in Closed(s, P) : i \in Closed(t, Q)
    BY ClosedKept
  <1>4. \A i \in Opens(s, P) : i \notin Closed(t, Q)
    BY OpenKept
  <1>5. Closed(t, Q) \subseteq UserPositions(t, Q)
    BY DEF Closed
  <1>6. Closed(t, Q) = Closed(s, P) /\ Opens(t, Q) = Opens(s, P)
    BY <1>1, <1>2, <1>3, <1>4, <1>5 DEF Opens
  <1>7. ASSUME NEW i \in Closed(s, P)
        PROVE  /\ i \in Done(t, Q) <=> i \in Done(s, P)
               /\ i \in Reported(t, Q) <=> i \in Reported(s, P)
    <2>1. i \in UserPositions(s, P) /\ i \in UserPositions(t, Q) /\ i \in Closed(t, Q) /\ t[i] = s[i]
      BY <1>1, <1>2, ClosedKept
    <2>2. /\ Discarded(t, Q, i) <=> Discarded(s, P, i)
          /\ HasCompletion(t, Q, i) <=> HasCompletion(s, P, i)
      BY ClosedKept
    <2>3. QED
      BY <1>7, <2>1, <2>2 DEF Done, Reported, CompletedPositions, InterruptedPositions
  <1>8. /\ Done(t, Q) \subseteq Closed(t, Q) /\ Reported(t, Q) \subseteq Closed(t, Q)
        /\ Done(s, P) \subseteq Closed(s, P) /\ Reported(s, P) \subseteq Closed(s, P)
    BY DEF Done, Reported
  <1>9. Done(t, Q) = Done(s, P) /\ Reported(t, Q) = Reported(s, P)
    BY <1>6, <1>7, <1>8
  <1>10. \A i \in Opens(s, P) :
            t[i] = s[i] /\ (HasCompletion(t, Q, i) <=> HasCompletion(s, P, i) \/ e.type \in Completing)
    BY OpenKept
  <1>11. QED
    BY <1>6, <1>9, <1>10

-----------------------------------------------------------------------------
(***************************************************************************)
(* The loop of restoreContext.                                             *)
(***************************************************************************)
\* Closing the pending turn settles the open question one way or the other.
LEMMA FinalizeStands ==
    ASSUME NEW r, NEW s \in Seq(Events), NEW P, P \subseteq DOMAIN s, Stands(r, s, P), NEW drop \in BOOLEAN,
           NEW now, now = IF drop THEN {} ELSE Opens(s, P)
    PROVE  LET f   == FinalizeCurrent(r, drop)
           IN  /\ f \in Folds /\ f.current = NoPending
               /\ Lists(f.turns, Done(s, P) \cup Finished(s, P, now))
               /\ Lists(f.interrupted,
                        Reported(s, P) \cup Unfinished(s, P, now))
  <1> DEFINE c == r.current
             f == FinalizeCurrent(r, drop)
             more == Finished(s, P, now)
             lost == Unfinished(s, P, now)
  <1>1. /\ r.turns \in Seq(Nat) /\ r.interrupted \in Seq(Nat)
        /\ c.at \in Nat /\ c.hasUser \in BOOLEAN /\ c.hasCompletion \in BOOLEAN
    BY DEF Stands, Folds, PendingTurns
  <1>2. Lists(r.turns, Done(s, P)) /\ Lists(r.interrupted, Reported(s, P))
    BY DEF Stands
  <1>3. /\ f.current = NoPending
        /\ f.turns = IF ~drop /\ c.hasUser /\ c.hasCompletion THEN Append(r.turns, c.at) ELSE r.turns
        /\ f.interrupted = IF ~drop /\ c.hasUser /\ ~c.hasCompletion /\ c.turn # NoTurn
                           THEN Append(r.interrupted, c.at) ELSE r.interrupted
        /\ f = [current |-> f.current, turns |-> f.turns, interrupted |-> f.interrupted]
    BY DEF FinalizeCurrent
  <1>4. NoPending \in PendingTurns
    BY DEF NoPending, PendingTurns
  <1> HIDE DEF f
  <1>5. ASSUME drop \/ ~c.hasUser
        PROVE  f \in Folds /\ Lists(f.turns, Done(s, P) \cup more) /\ Lists(f.interrupted, Reported(s, P) \cup lost)
    <2>1. now = {}
      BY <1>5 DEF Stands
    <2>2. f.turns = r.turns /\ f.interrupted = r.interrupted
      BY <1>3, <1>5
    <2>3. f \in Folds
      BY <1>1, <1>3, <1>4, <2>2 DEF Folds
    <2>4. Done(s, P) \cup more = Done(s, P) /\ Reported(s, P) \cup lost = Reported(s, P)
      BY <2>1 DEF Finished, Unfinished
    <2>5. QED
      BY <1>2, <2>2, <2>3, <2>4
  <1>6. ASSUME ~drop, c.hasUser
        PROVE  f \in Folds /\ Lists(f.turns, Done(s, P) \cup more) /\ Lists(f.interrupted, Reported(s, P) \cup lost)
    <2>1. /\ now = {c.at} /\ c.turn = s[c.at].turn
          /\ \A i \in Closed(s, P) : i < c.at
          /\ c.hasCompletion <=> HasCompletion(s, P, c.at)
      BY <1>6 DEF Stands
    <2>2. Done(s, P) \subseteq Closed(s, P) /\ Reported(s, P) \subseteq Closed(s, P)
      BY DEF Done, Reported
    <2>3. /\ Append(r.turns, c.at) \in Seq(Nat) /\ Lists(Append(r.turns, c.at), Done(s, P) \cup {c.at})
          /\ Append(r.interrupted, c.at) \in Seq(Nat)
          /\ Lists(Append(r.interrupted, c.at), Reported(s, P) \cup {c.at})
      BY <1>1, <1>2, <2>1, <2>2, ListGrows
    <2>4. /\ more = IF c.hasCompletion THEN {c.at} ELSE {}
          /\ lost = IF ~c.hasCompletion /\ c.turn # NoTurn THEN {c.at} ELSE {}
      BY <2>1 DEF Finished, Unfinished
    <2> HIDE DEF more, lost, c
    <2>5. f.turns \in Seq(Nat) /\ Lists(f.turns, Done(s, P) \cup more)
      <3>1. CASE c.hasCompletion
        BY <1>3, <1>6, <2>3, <2>4, <3>1
      <3>2. CASE ~c.hasCompletion
        <4>1. f.turns = r.turns /\ Done(s, P) \cup more = Done(s, P)
          BY <1>3, <2>4, <3>2
        <4>2. QED
          BY <1>1, <1>2, <4>1
      <3>3. QED
        BY <3>1, <3>2
    <2>6. f.interrupted \in Seq(Nat) /\ Lists(f.interrupted, Reported(s, P) \cup lost)
      <3>1. CASE ~c.hasCompletion /\ c.turn # NoTurn
        BY <1>3, <1>6, <2>3, <2>4, <3>1
      <3>2. CASE c.hasCompletion \/ c.turn = NoTurn
        <4>1. f.interrupted = r.interrupted /\ Reported(s, P) \cup lost = Reported(s, P)
          BY <1>3, <2>4, <3>2
        <4>2. QED
          BY <1>1, <1>2, <4>1
      <3>3. QED
        BY <3>1, <3>2
    <2>7. f \in Folds
      BY <1>3, <1>4, <2>5, <2>6 DEF Folds
    <2>8. QED
      BY <2>5, <2>6, <2>7
  <1>7. QED
    BY <1>1, <1>3, <1>5, <1>6 DEF f

\* Another pending turn in a fold.
LEMMA FoldWith ==
    ASSUME NEW f \in Folds, NEW c \in PendingTurns
    PROVE  LET g == [f EXCEPT !.current = c] IN
           g \in Folds /\ g.current = c /\ g.turns = f.turns /\ g.interrupted = f.interrupted
  BY DEF Folds

\* An event that closes the pending turn.
LEMMA ClosingStands ==
    ASSUME NEW r, NEW s, NEW P, NEW e, NEW t, NEW Q, Reads(s, P, e, t, Q), Stands(r, s, P),
           e.type \in Closing
    PROVE  Stands(RestoreStep(r, e, Len(s) + 1), t, Q)
  <1>1. s \in Seq(Events) /\ P \subseteq DOMAIN s /\ e \in Events
    BY DEF Reads
  <1>2. PICK drop \in BOOLEAN : drop <=> e.type \in {"failed", "interrupted"}
    OBVIOUS
  <1> DEFINE n == Len(s) + 1
             f == FinalizeCurrent(r, drop)
             g == RestoreStep(r, e, n)
  <1>3. f \in Folds /\ f.current = NoPending /\ Lists(f.turns, Done(t, Q)) /\ Lists(f.interrupted, Reported(t, Q))
    <2>1. PICK now : now = IF drop THEN {} ELSE Opens(s, P)
      OBVIOUS
    <2>2. now = IF e.type \in {"failed", "interrupted"} THEN {} ELSE Opens(s, P)
      BY <1>2, <2>1
    <2>3. /\ f \in Folds /\ f.current = NoPending
          /\ Lists(f.turns, Done(s, P) \cup Finished(s, P, now))
          /\ Lists(f.interrupted,
                   Reported(s, P) \cup Unfinished(s, P, now))
      BY <1>1, <2>1, FinalizeStands
    <2>4. /\ Done(t, Q) = Done(s, P) \cup Finished(s, P, now)
          /\ Reported(t, Q) = Reported(s, P) \cup Unfinished(s, P, now)
      BY <2>2, AfterClosing
    <2> HIDE DEF f
    <2>5. QED
      BY <2>3, <2>4
  <1>4. CASE e.type = "user"
    <2>1. g = [f EXCEPT !.current = Pending(e, n, TRUE)]
      <3>1. drop = FALSE
        BY <1>2, <1>4
      <3>2. QED
        BY <1>4, <3>1 DEF RestoreStep
    <2>2. Pending(e, n, TRUE) \in PendingTurns
      BY <1>1, ReadsIs DEF Pending, PendingTurns, Events
    <2> HIDE DEF f, g
    <2>3. /\ g \in Folds /\ g.turns = f.turns /\ g.interrupted = f.interrupted
          /\ g.current = Pending(e, n, TRUE)
      BY <1>3, <2>1, <2>2, FoldWith
    <2>4. g.current.hasUser /\ ~g.current.hasCompletion /\ g.current.at = n /\ g.current.turn = e.turn
      BY <2>3 DEF Pending
    <2>5. Opens(t, Q) = {n} /\ Closed(t, Q) = UserPositions(s, P)
      BY <1>4, ClosesAll
    <2>6. ~HasCompletion(t, Q, n) /\ t[n] = e /\ \A i \in Closed(t, Q) : i < n
      <3>1. ~HasCompletion(t, Q, n)
        BY NewestOpen
      <3>2. t[n] = e /\ \A i \in P : i < n
        BY ReadsIs
      <3>3. Closed(t, Q) \subseteq P
        BY <2>5 DEF UserPositions
      <3>4. QED
        BY <3>1, <3>2, <3>3
    <2> HIDE DEF n
    <2>7. QED
      BY <1>3, <2>3, <2>4, <2>5, <2>6 DEF Stands, g, n
  <1>5. CASE e.type # "user"
    <2>1. g = f
      <3>1. CASE e.type = "end"
        <4>1. drop = FALSE
          BY <1>2, <3>1
        <4>2. QED
          BY <3>1, <4>1 DEF RestoreStep
      <3>2. CASE e.type \in {"failed", "interrupted"}
        <4>1. drop = TRUE
          BY <1>2, <3>2
        <4>2. QED
          BY <3>2, <4>1 DEF RestoreStep
      <3>3. QED
        BY <1>5, <3>1, <3>2 DEF Closing
    <2>2. Opens(t, Q) = {}
      BY <1>5, ClosesAll
    <2> HIDE DEF f
    <2>3. QED
      BY <1>3, <2>1, <2>2 DEF Stands, NoPending
  <1>6. QED
    BY <1>4, <1>5

\* An event that may complete it, or that it is not concerned with.
LEMMA OtherStands ==
    ASSUME NEW r, NEW s, NEW P, NEW e, NEW t, NEW Q, Reads(s, P, e, t, Q), Stands(r, s, P),
           e.type \notin Closing
    PROVE  Stands(RestoreStep(r, e, Len(s) + 1), t, Q)
  <1> DEFINE n == Len(s) + 1
             g == RestoreStep(r, e, n)
             c == r.current
  <1>1. /\ e \in Events /\ n \in Nat /\ r \in Folds /\ c \in PendingTurns
        /\ Lists(r.turns, Done(s, P)) /\ Lists(r.interrupted, Reported(s, P))
    BY ReadsIs DEF Reads, Stands, Folds
  <1>2. /\ g \in Folds /\ g.turns = r.turns /\ g.interrupted = r.interrupted
        /\ g.current.hasUser = c.hasUser
        /\ c.hasUser => /\ g.current.at = c.at /\ g.current.turn = c.turn
                        /\ g.current.hasCompletion <=> c.hasCompletion \/ e.type \in Completing
    <2>1. c.hasUser => c # NoPending
      BY DEF NoPending
    <2>2. /\ Complete(r) \in Folds /\ Complete(r).turns = r.turns /\ Complete(r).interrupted = r.interrupted
          /\ Complete(r).current.hasUser = c.hasUser /\ Complete(r).current.hasCompletion
          /\ Complete(r).current.at = c.at /\ Complete(r).current.turn = c.turn
      BY <1>1 DEF Complete, Folds, PendingTurns
    <2>3. CASE e.type \in Completing /\ c # NoPending /\ (e.type = "assistant" => c.hasUser)
      <3>1. g = Complete(r)
        BY <2>3 DEF RestoreStep, Completing
      <3>2. QED
        BY <2>2, <2>3, <3>1
    <2>4. CASE e.type = "call" /\ c = NoPending
      <3> DEFINE p == [r EXCEPT !.current = Pending(e, n, FALSE)]
      <3>1. g = Complete(p)
        BY <2>4 DEF RestoreStep
      <3>2. p \in Folds /\ p.turns = r.turns /\ p.interrupted = r.interrupted /\ ~p.current.hasUser
        <4>1. Pending(e, n, FALSE) \in PendingTurns /\ ~Pending(e, n, FALSE).hasUser
          BY <1>1 DEF Pending, PendingTurns, Events
        <4>2. QED
          BY <1>1, <4>1, FoldWith
      <3>3. ~c.hasUser
        BY <2>4 DEF NoPending
      <3> HIDE DEF p
      <3>4. /\ Complete(p) \in Folds /\ Complete(p).turns = p.turns /\ Complete(p).interrupted = p.interrupted
            /\ Complete(p).current.hasUser = p.current.hasUser
        BY <3>2 DEF Complete, Folds, PendingTurns
      <3>5. p.current.hasUser = c.hasUser
        <4>1. p.current.hasUser \in BOOLEAN /\ c.hasUser \in BOOLEAN
          BY <1>1, <3>2 DEF Folds, PendingTurns
        <4>2. QED
          BY <3>2, <3>3, <4>1
      <3>6. QED
        BY <3>1, <3>2, <3>3, <3>4, <3>5
    <2>5. CASE \/ e.type \notin Completing
               \/ e.type = "result" /\ c = NoPending
               \/ e.type = "assistant" /\ ~c.hasUser
      <3>1. g = r
        BY <2>5 DEF RestoreStep, Completing, Closing
      <3>2. c.hasUser => e.type \notin Completing
        BY <2>1, <2>5
      <3>3. QED
        BY <1>1, <3>1, <3>2
    <2>6. QED
      BY <2>1, <2>3, <2>4, <2>5 DEF Completing
  <1> HIDE DEF g, n
  <1>3. /\ Opens(t, Q) = Opens(s, P) /\ Closed(t, Q) = Closed(s, P)
        /\ Done(t, Q) = Done(s, P) /\ Reported(t, Q) = Reported(s, P)
        /\ \A i \in Opens(s, P) :
              t[i] = s[i] /\ (HasCompletion(t, Q, i) <=> HasCompletion(s, P, i) \/ e.type \in Completing)
    BY AfterOther
  <1>4. CASE c.hasUser
    <2>1. /\ Opens(s, P) = {c.at} /\ c.turn = s[c.at].turn /\ \A i \in Closed(s, P) : i < c.at
          /\ c.hasCompletion <=> HasCompletion(s, P, c.at)
      BY <1>4 DEF Stands
    <2>2. t[c.at] = s[c.at] /\ (HasCompletion(t, Q, c.at) <=> HasCompletion(s, P, c.at) \/ e.type \in Completing)
      BY <1>3, <2>1
    <2> HIDE DEF c
    <2>3. QED
      BY <1>1, <1>2, <1>3, <1>4, <2>1, <2>2 DEF Stands, g, n
  <1>5. CASE ~c.hasUser
    <2>1. Opens(s, P) = {}
      BY <1>5 DEF Stands
    <2> HIDE DEF c
    <2>2. QED
      BY <1>1, <1>2, <1>3, <1>5, <2>1 DEF Stands, g, n
  <1>6. QED
    BY <1>4, <1>5

LEMMA StepStands ==
    ASSUME NEW r, NEW s, NEW P, NEW e, NEW t, NEW Q, Reads(s, P, e, t, Q), Stands(r, s, P)
    PROVE  Stands(RestoreStep(r, e, Len(s) + 1), t, Q)
  BY ClosingStands, OtherStands

\* An event that is left out changes nothing.
LEMMA LeftOut ==
    ASSUME NEW r, NEW s \in Seq(Events), NEW P, P \subseteq DOMAIN s, NEW e \in Events, Stands(r, s, P)
    PROVE  Stands(r, Append(s, e), P)
  <1> DEFINE t == Append(s, e)
  <1>1. \A i \in P : t[i] = s[i]
    BY AppendIs
  <1> HIDE DEF t
  <1>2. UserPositions(t, P) = UserPositions(s, P) /\ UserPositions(s, P) \subseteq P
    BY <1>1 DEF UserPositions
  <1>3. Closed(t, P) = Closed(s, P)
    BY <1>1, <1>2 DEF Closed
  <1>4. Opens(t, P) = Opens(s, P)
    BY <1>2, <1>3 DEF Opens
  <1>5. ASSUME NEW i \in P
        PROVE  (Discarded(t, P, i) <=> Discarded(s, P, i)) /\ (HasCompletion(t, P, i) <=> HasCompletion(s, P, i))
    <2>1. \A j \in P : ClosedBetween(t, P, i, j) <=> ClosedBetween(s, P, i, j)
      BY <1>1 DEF ClosedBetween
    <2>2. Segment(t, P, i) = Segment(s, P, i) /\ Segment(s, P, i) \subseteq P
      BY <1>1, <2>1 DEF Segment
    <2>3. QED
      BY <1>1, <2>1, <2>2 DEF Discarded, HasCompletion
  <1>6. CompletedPositions(t, P) = CompletedPositions(s, P) /\ InterruptedPositions(t, P) = InterruptedPositions(s, P)
    BY <1>2, <1>5 DEF CompletedPositions, InterruptedPositions
  <1>7. InterruptedPositions(s, P) \subseteq P
    BY <1>2 DEF InterruptedPositions
  <1>8. Done(t, P) = Done(s, P) /\ Reported(t, P) = Reported(s, P)
    BY <1>1, <1>3, <1>6, <1>7 DEF Done, Reported
  <1>9. CASE r.current.hasUser
    <2>1. r.current.at \in P
      BY <1>2, <1>9 DEF Stands, Opens
    <2>2. QED
      BY <1>1, <1>3, <1>4, <1>5, <1>8, <1>9, <2>1 DEF Stands, t
  <1>10. CASE ~r.current.hasUser
    BY <1>4, <1>8, <1>10 DEF Stands, t
  <1>11. QED
    BY <1>9, <1>10

-----------------------------------------------------------------------------
(***************************************************************************)
(* The loop of completedTurns.                                             *)
(***************************************************************************)
LEMMA PairsStep ==
    ASSUME NEW p, NEW s \in Seq(Events), NEW after \in 0 .. Len(s), NEW e \in Events, PairsStand(p, s, after)
    PROVE  PairsStand(CompactStep(p, e, Len(s) + 1), Append(s, e), after)
  <1> DEFINE t == Append(s, e)
             n == Len(s) + 1
             g == CompactStep(p, e, n)
             waits == \E i \in DOMAIN s : Waits(s, after, i)
  <1>1. /\ Len(s) \in Nat /\ n \in Nat /\ Len(t) = n /\ DOMAIN s = 1 .. Len(s) /\ DOMAIN t = 1 .. n
        /\ \A k \in 1 .. Len(s) : t[k] = s[k]
        /\ t[n] = e /\ after < n /\ after \in Nat
    BY AppendIs
  <1>2. p \in Pairs /\ Lists(p.out, PairedAnswers(s, after)) /\ (p.pending <=> waits)
    BY DEF PairsStand
  <1> HIDE DEF t, n, g, waits
  <1>3. \A j \in 1 .. Len(s) : j \in PairedAnswers(t, after) <=> j \in PairedAnswers(s, after)
    <2>1. ASSUME NEW i \in 1 .. Len(s), NEW j \in 1 .. Len(s)
          PROVE  PairedWith(t, after, i, j) <=> PairedWith(s, after, i, j)
      <3>1. \A k \in i + 1 .. j - 1 : k \in 1 .. Len(s)
        BY <1>1
      <3>2. QED
        BY <1>1, <3>1 DEF PairedWith
    <2>2. ASSUME NEW j \in 1 .. Len(s) PROVE ~PairedWith(t, after, n, j)
      BY <1>1 DEF PairedWith, n
    <2>3. DOMAIN t = 1 .. Len(s) \cup {n}
      BY <1>1 DEF n
    <2>4. QED
      BY <1>1, <2>1, <2>2, <2>3 DEF PairedAnswers
  <1>4. n \in PairedAnswers(t, after) <=> waits /\ e.type \in {"assistant", "partial"}
    <2>1. ASSUME NEW i \in 1 .. Len(s)
          PROVE  PairedWith(t, after, i, n) <=> Waits(s, after, i) /\ e.type \in {"assistant", "partial"}
      <3>1. i + 1 .. n - 1 = i + 1 .. Len(s) /\ i < n /\ \A k \in i + 1 .. Len(s) : t[k] = s[k]
        BY <1>1 DEF n
      <3>2. QED
        BY <1>1, <3>1 DEF PairedWith, Waits
    <2>2. ~PairedWith(t, after, n, n)
      BY <1>1 DEF PairedWith
    <2>3. DOMAIN t = 1 .. Len(s) \cup {n} /\ n \in DOMAIN t
      BY <1>1 DEF n
    <2>4. QED
      BY <1>1, <2>1, <2>2, <2>3 DEF PairedAnswers, waits
  <1>5. PairedAnswers(s, after) \subseteq 1 .. Len(s) /\ PairedAnswers(t, after) \subseteq 1 .. Len(s) \cup {n}
    BY <1>1 DEF PairedAnswers, n
  <1>6. (\E i \in DOMAIN t : Waits(t, after, i)) <=> e.type = "user" \/ (waits /\ e.type \notin PairingTypes)
    <2>1. ASSUME NEW i \in 1 .. Len(s)
          PROVE  Waits(t, after, i) <=> Waits(s, after, i) /\ e.type \notin PairingTypes
      <3>1. i + 1 .. n = (i + 1 .. Len(s)) \cup {n} /\ \A k \in i + 1 .. Len(s) : t[k] = s[k]
        BY <1>1 DEF n
      <3>2. i \in DOMAIN t /\ i \in DOMAIN s /\ t[i] = s[i]
        BY <1>1 DEF n
      <3>3. QED
        BY <1>1, <3>1, <3>2 DEF Waits
    <2>2. Waits(t, after, n) <=> e.type = "user"
      <3>1. n + 1 .. n = {} /\ n \in DOMAIN t /\ n > after
        BY <1>1 DEF n
      <3>2. QED
        BY <1>1, <3>1 DEF Waits
    <2>3. DOMAIN t = 1 .. Len(s) \cup {n} /\ n \in DOMAIN t
      BY <1>1 DEF n
    <2>4. QED
      BY <1>1, <2>1, <2>2, <2>3 DEF waits
  <1>7. p.pending \in BOOLEAN /\ p.out \in Seq(Nat)
    BY <1>2 DEF Pairs
  <1>8. CASE e.type \in {"assistant", "partial"} /\ p.pending
    <2>1. g = [pending |-> FALSE, out |-> Append(p.out, n)]
      BY <1>8 DEF CompactStep, g
    <2>2. PairedAnswers(t, after) = PairedAnswers(s, after) \cup {n}
      BY <1>2, <1>3, <1>4, <1>5, <1>8
    <2>3. Append(p.out, n) \in Seq(Nat) /\ Lists(Append(p.out, n), PairedAnswers(t, after))
      <3>1. \A i \in PairedAnswers(s, after) : i < n
        BY <1>1, <1>5 DEF n
      <3>2. QED
        BY <1>1, <1>2, <1>7, <2>2, <3>1, ListGrows
    <2>4. ~(\E i \in DOMAIN t : Waits(t, after, i))
      BY <1>6, <1>8 DEF PairingTypes
    <2>5. g \in Pairs /\ g.out = Append(p.out, n) /\ ~g.pending
      BY <2>1, <2>3 DEF Pairs
    <2>6. QED
      BY <2>3, <2>4, <2>5 DEF PairsStand, g, t, n
  <1>9. CASE ~(e.type \in {"assistant", "partial"} /\ p.pending)
    <2>1. /\ g \in Pairs /\ g.out = p.out
          /\ g.pending <=> e.type = "user" \/ (p.pending /\ e.type \notin PairingTypes)
      <3>1. CASE e.type = "user"
        BY <1>2, <3>1 DEF CompactStep, Pairs, g
      <3>2. CASE e.type \in {"failed", "end"}
        BY <1>2, <3>2 DEF CompactStep, Pairs, PairingTypes, g
      <3>3. CASE e.type \notin {"user", "failed", "end"}
        <4>1. g = p
          BY <1>9, <3>3 DEF CompactStep, g
        <4>2. p.pending => e.type \notin PairingTypes
          BY <1>9, <3>3 DEF PairingTypes
        <4>3. QED
          BY <1>2, <3>3, <4>1, <4>2
      <3>4. QED
        BY <3>1, <3>2, <3>3
    <2>2. PairedAnswers(t, after) = PairedAnswers(s, after)
      <3>1. n \notin PairedAnswers(t, after) /\ n \notin 1 .. Len(s)
        BY <1>1, <1>2, <1>4, <1>9 DEF n
      <3>2. QED
        BY <1>3, <1>5, <3>1
    <2>3. QED
      BY <1>2, <1>6, <2>1, <2>2 DEF PairsStand, g, t, n
  <1>10. QED
    BY <1>8, <1>9

-----------------------------------------------------------------------------
LEMMA FoldInit == Init => FoldInv
  <1> SUFFICES ASSUME Init PROVE FoldInv
    OBVIOUS
  <1> DEFINE P == Replayed(log, through, excluded)
  <1>1. through \in Nat /\ log \in [1 .. through -> Events] /\ restored = EmptyFold /\ paired = NoPairs
    <2>1. ReadEvents \subseteq Events
      BY DEF ReadEvents, Event, Events, EventTypes
    <2>2. QED
      BY <2>1, CutsAssumption DEF Init
  <1>2. log \in Seq(Events) /\ Len(log) = through /\ DOMAIN log = 1 .. through
    BY <1>1
  <1>3. P = {}
    BY <1>1, <1>2 DEF Replayed
  <1>4. Closed(log, P) = {} /\ Opens(log, P) = {} /\ Done(log, P) = {} /\ Reported(log, P) = {}
    BY <1>3 DEF Closed, Opens, Done, Reported, UserPositions
  <1>5. Lists(<<>>, {})
    BY DEF Lists
  <1>6. Stands(restored, log, P)
    <2>1. EmptyFold \in Folds
      BY DEF EmptyFold, Folds, NoPending, PendingTurns
    <2>2. EmptyFold.turns = <<>> /\ EmptyFold.interrupted = <<>> /\ ~EmptyFold.current.hasUser
      BY DEF EmptyFold, NoPending
    <2> HIDE DEF P
    <2>3. QED
      BY <1>1, <1>4, <1>5, <2>1, <2>2 DEF Stands
  <1>7. PairsStand(paired, log, through)
    <2>1. PairedAnswers(log, through) = {}
      BY <1>1, <1>2 DEF PairedAnswers, PairedWith
    <2>2. ~\E i \in DOMAIN log : Waits(log, through, i)
      BY <1>1, <1>2 DEF Waits
    <2>3. QED
      BY <1>1, <1>5, <2>1, <2>2 DEF PairsStand, NoPairs, Pairs
  <1>8. QED
    BY <1>1, <1>2, <1>6, <1>7 DEF FoldInv

LEMMA FoldNext == FoldInv /\ [Next]_vars => FoldInv'
  <1> SUFFICES ASSUME FoldInv, [Next]_vars PROVE FoldInv'
    OBVIOUS
  <1>1. CASE UNCHANGED vars
    BY <1>1 DEF vars, FoldInv
  <1>2. ASSUME NEW e \in ReadEvents, Read(e) PROVE FoldInv'
    <2> DEFINE P == Replayed(log, through, excluded)
               n == Len(log) + 1
    <2>1. /\ log' = Append(log, e) /\ through' = through /\ excluded' = excluded
          /\ paired' = CompactStep(paired, e, n)
          /\ restored' = IF e.turn = excluded THEN restored ELSE RestoreStep(restored, e, n)
      BY <1>2 DEF Read, Restoring
    <2>2. e \in Events
      BY DEF ReadEvents, Event, Events, EventTypes
    <2>3. /\ log \in Seq(Events) /\ through \in 0 .. Len(log)
          /\ Stands(restored, log, P) /\ PairsStand(paired, log, through)
      BY DEF FoldInv
    <2>4. /\ log' \in Seq(Events) /\ Len(log') = n /\ Len(log) \in Nat /\ P \subseteq DOMAIN log
          /\ DOMAIN log = 1 .. Len(log) /\ DOMAIN log' = 1 .. n
          /\ \A k \in 1 .. Len(log) : log'[k] = log[k]
          /\ log'[n] = e
      BY <2>1, <2>2, <2>3, AppendIs DEF Replayed
    <2>5. P' = IF e.turn = excluded THEN P ELSE P \cup {n}
      BY <2>1, <2>3, <2>4 DEF Replayed
    <2>6. Stands(restored, log, P)
      BY <2>3
    <2> HIDE DEF P
    <2>7. Stands(restored', log', P')
      <3>1. CASE e.turn = excluded
        BY <2>1, <2>2, <2>3, <2>4, <2>5, <3>1, LeftOut
      <3>2. CASE e.turn # excluded
        <4>1. Reads(log, P, e, log', P')
          BY <2>1, <2>2, <2>3, <2>4, <2>5, <3>2 DEF Reads
        <4>2. QED
          BY <2>1, <2>3, <3>2, <4>1, StepStands
      <3>3. QED
        BY <3>1, <3>2
    <2>8. PairsStand(paired', log', through')
      BY <2>1, <2>2, <2>3, PairsStep
    <2>9. through' \in 0 .. Len(log')
      BY <2>1, <2>3, <2>4
    <2>10. QED
      BY <2>4, <2>7, <2>8, <2>9 DEF FoldInv, P
  <1>3. QED
    BY <1>1, <1>2 DEF Next

LEMMA FoldAtEnd == FoldInv => FoldsAgree
  <1> SUFFICES ASSUME FoldInv PROVE FoldsAgree
    OBVIOUS
  <1> DEFINE P == Replayed(log, through, excluded)
             now == IF FALSE THEN {} ELSE Opens(log, P)
  <1>1. log \in Seq(Events) /\ Stands(restored, log, P) /\ PairsStand(paired, log, through)
    BY DEF FoldInv
  <1>2. P \subseteq DOMAIN log
    BY DEF Replayed
  <1> HIDE DEF P
  <1>3. now = Opens(log, P)
    OBVIOUS
  <1> HIDE DEF now
  <1>4. /\ Lists(RestoredContext.turns, Done(log, P) \cup Finished(log, P, Opens(log, P)))
        /\ Lists(RestoredContext.interrupted,
                 Reported(log, P) \cup Unfinished(log, P, Opens(log, P)))
    BY <1>1, <1>2, <1>3, FinalizeStands DEF RestoredContext, now
  <1>5. \A i \in Opens(log, P) : ~Discarded(log, P, i) /\ i \in UserPositions(log, P)
    BY DEF Opens, Closed, Discarded, UserPositions, Closing
  <1>6. \A i \in UserPositions(log, P) : i \in Closed(log, P) \/ i \in Opens(log, P)
    BY DEF Opens
  <1>7. CompletedPositions(log, P) = Done(log, P) \cup Finished(log, P, Opens(log, P))
    BY <1>5, <1>6 DEF CompletedPositions, Done, Finished
  <1>8. Identified(InterruptedPositions(log, P))
          = Reported(log, P) \cup Unfinished(log, P, Opens(log, P))
    BY <1>5, <1>6 DEF Identified, InterruptedPositions, Reported, Unfinished
  <1>9. Lists(paired.out, PairedAnswers(log, through))
    BY <1>1 DEF PairsStand
  <1>10. QED
    BY <1>4, <1>7, <1>8, <1>9 DEF FoldsAgree, P

(***************************************************************************)
(* For every stream, every summary and every excluded turn, the completed  *)
(* turns, the interrupted turns and the answers a summary may cut behind   *)
(* that the loops of restoreContext and completedTurns compute are those   *)
(* that ContextRestore defines by position, in order.                      *)
(***************************************************************************)
THEOREM PositionsSayWhatFoldsCompute == Spec => []FoldsAgree
  <1>1. Spec => []FoldInv
    BY FoldInit, FoldNext, PTL DEF Spec
  <1>2. QED
    BY <1>1, FoldAtEnd, PTL
=============================================================================
