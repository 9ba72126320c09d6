------------------------- MODULE RuntimeManagerProofs -------------------------
(***************************************************************************)
(* Theorems about the runtime cache.  The manager keeps one runtime per    *)
(* conversation until an acquire that has closed another version's runtime *)
(* opens beside one that came up meanwhile (beside).  That never happens   *)
(* in two situations: any number of callers that all want the same         *)
(* version, and one caller that may change versions, which is what the     *)
(* single-writer slot of the service makes of it.                          *)
(***************************************************************************)
EXTENDS RuntimeManager, TLAPS

OneVersion == \A v, w \in Versions : v = w
OneCaller == \A c, d \in Callers : c = d

USE ManagerAssumption

-----------------------------------------------------------------------------
LEMMA TypeInit == Init => TypeOK
  BY DEF Init, TypeOK

LEMMA TypeStep == TypeOK /\ [Next]_vars => TypeOK'
  <1> SUFFICES ASSUME TypeOK, [Next]_vars PROVE TypeOK'
    OBVIOUS
  <1> USE DEF TypeOK, Goto, cache, shutdown, callers, history
  <1>1. ASSUME NEW c \in Callers, NEW v \in Versions, Reuse(c, v) PROVE TypeOK'
    BY <1>1 DEF Reuse
  <1>2. ASSUME NEW c \in Callers, NEW v \in Versions, EvictOther(c, v) PROVE TypeOK'
    BY <1>2 DEF EvictOther, Evict
  <1>3. ASSUME NEW c \in Callers, NEW v \in Versions, JoinOpening(c, v) PROVE TypeOK'
    BY <1>3 DEF JoinOpening
  <1>4. ASSUME NEW c \in Callers, NEW v \in Versions, Open(c, v) PROVE TypeOK'
    BY <1>4 DEF Open, OpenOnce
  <1>5. ASSUME NEW c \in Callers, Reopen(c) PROVE TypeOK'
    BY <1>5 DEF Reopen, OpenOnce
  <1>6. ASSUME NEW c \in Callers, Acquired(c) PROVE TypeOK'
    BY <1>6 DEF Acquired
  <1>7. ASSUME NEW c \in Callers, Release(c) PROVE TypeOK'
    BY <1>7 DEF Release
  <1>8. ASSUME NEW c \in Callers, Finish(c) PROVE TypeOK'
    BY <1>8 DEF Finish
  <1>9. ASSUME NEW c \in Callers, Reset(c) PROVE TypeOK'
    <2>1. CASE active = None
      BY <1>9, <2>1 DEF Reset
    <2>2. CASE active # None
      <3>1. /\ Evict /\ opening' = None /\ Goto(c, "returned", "resetting", active)
            /\ UNCHANGED <<version, shutdown, wants, history>>
        BY <1>9, <2>2 DEF Reset
      <3>2. QED
        BY <2>2, <3>1 DEF Evict
    <2>3. QED
      BY <2>1, <2>2
  <1>10. ASSUME NEW c \in Callers, ResetDone(c) PROVE TypeOK'
    BY <1>10 DEF ResetDone
  <1>11. ASSUME NEW r \in Runtimes, RuntimeStep(r) PROVE TypeOK'
    BY <1>11 DEF RuntimeStep, Opened, OpenFails, Closed
  <1>12. CASE Expire \/ SweepIdle \/ Drain \/ Drained \/ CloseManager
    BY <1>12 DEF Expire, SweepIdle, Drain, Drained, CloseManager, Evict
  <1>13. CASE UNCHANGED vars
    BY <1>13 DEF vars
  <1>14. QED
    BY <1>1, <1>2, <1>3, <1>4, <1>5, <1>6, <1>7, <1>8, <1>9, <1>10, <1>11, <1>12, <1>13
       DEF Next, CallerStep

(***************************************************************************)
(* The state of the cache and of its callers is well typed, and a caller   *)
(* holds a runtime exactly while it awaits, uses or closes one             *)
(* (conversation-runtime-manager.ts, acquire and reset).                   *)
(***************************************************************************)
THEOREM ManagerTypeCorrect == Spec => []TypeOK
  BY TypeInit, TypeStep, PTL DEF Spec

-----------------------------------------------------------------------------
(***************************************************************************)
(* The two maps tell the truth: an active runtime is open, a registered    *)
(* open is in flight, there are never both, and no live runtime is in      *)
(* neither.                                                                *)
(***************************************************************************)
Registered ==
    /\ active # None => state[active] = "open" /\ version[active] \in Versions
    /\ opening # None => state[opening] = "opening" /\ version[opening] \in Versions
    /\ active = None \/ opening = None
    /\ \A r \in Runtimes : Live(r) => r \in {active, opening}

LEMMA RegisteredIsOne == TypeOK /\ Registered => OneRuntime
  BY DEF TypeOK, Registered, OneRuntime, Live

LEMMA RegisteredStep ==
    ASSUME TypeOK, Registered, [Next]_vars, ~beside'
    PROVE  Registered'
  <1> USE DEF TypeOK, Goto, cache, shutdown, callers, history, Registered, Live
  <1>1. ASSUME NEW c \in Callers, NEW v \in Versions, Reuse(c, v) PROVE Registered'
    BY <1>1 DEF Reuse
  <1>2. ASSUME NEW c \in Callers, NEW v \in Versions, EvictOther(c, v) PROVE Registered'
    BY <1>2 DEF EvictOther, Evict
  <1>3. ASSUME NEW c \in Callers, NEW v \in Versions, JoinOpening(c, v) PROVE Registered'
    BY <1>3 DEF JoinOpening
  <1>4. ASSUME NEW c \in Callers, NEW v \in Versions, Open(c, v) PROVE Registered'
    BY <1>4 DEF Open, OpenOnce
  <1>5. ASSUME NEW c \in Callers, Reopen(c) PROVE Registered'
    <2>1. active = None /\ opening = None
      BY ONLY <1>5, ~beside', Zenon DEF Reopen
    <2>2. QED
      BY <1>5, <2>1 DEF Reopen, OpenOnce
  <1>6. ASSUME NEW c \in Callers, Acquired(c) PROVE Registered'
    BY <1>6 DEF Acquired
  <1>7. ASSUME NEW c \in Callers, Release(c) PROVE Registered'
    BY <1>7 DEF Release
  <1>8. ASSUME NEW c \in Callers, Finish(c) PROVE Registered'
    BY <1>8 DEF Finish
  <1>9. ASSUME NEW c \in Callers, Reset(c) PROVE Registered'
    BY <1>9 DEF Reset, Evict
  <1>10. ASSUME NEW c \in Callers, ResetDone(c) PROVE Registered'
    BY <1>10 DEF ResetDone
  <1>11. ASSUME NEW r \in Runtimes, RuntimeStep(r) PROVE Registered'
    <2>1. CASE Opened(r)
      BY <2>1 DEF Opened
    <2>2. CASE OpenFails(r)
      BY <2>2 DEF OpenFails
    <2>3. CASE Closed(r)
      BY <2>3 DEF Closed
    <2>4. QED
      BY <1>11, <2>1, <2>2, <2>3 DEF RuntimeStep
  <1>12. CASE Expire \/ SweepIdle \/ Drain \/ Drained \/ CloseManager
    BY <1>12 DEF Expire, SweepIdle, Drain, Drained, CloseManager, Evict
  <1>13. CASE UNCHANGED vars
    BY <1>13 DEF vars
  <1>14. QED
    BY <1>1, <1>2, <1>3, <1>4, <1>5, <1>6, <1>7, <1>8, <1>9, <1>10, <1>11, <1>12, <1>13
       DEF Next, CallerStep

\* Who opened beside another once has done so for good.
LEMMA BesideStays == ASSUME TypeOK, beside, [Next]_vars PROVE beside'
  <1> USE DEF TypeOK, history
  <1>1. ASSUME NEW c \in Callers, CallerStep(c) PROVE beside'
    BY <1>1 DEF CallerStep, Reuse, EvictOther, JoinOpening, Open, Reopen, Acquired,
                Release, Finish, Reset, ResetDone
  <1>2. ASSUME NEW r \in Runtimes, RuntimeStep(r) PROVE beside'
    BY <1>2 DEF RuntimeStep, Opened, OpenFails, Closed
  <1>3. CASE Expire \/ SweepIdle \/ Drain \/ Drained \/ CloseManager
    BY <1>3 DEF Expire, SweepIdle, Drain, Drained, CloseManager
  <1>4. CASE UNCHANGED vars
    BY <1>4 DEF vars
  <1>5. QED
    BY <1>1, <1>2, <1>3, <1>4 DEF Next

UniqueInv == TypeOK /\ (~beside => Registered)

LEMMA UniqueInvariant == Spec => []UniqueInv
  <1>1. Init => UniqueInv
    <2>1. Init => Registered
      BY DEF Init, Registered, Live
    <2>2. QED
      BY <2>1, TypeInit DEF UniqueInv
  <1>2. UniqueInv /\ [Next]_vars => UniqueInv'
    BY TypeStep, RegisteredStep, BesideStays DEF UniqueInv
  <1>3. QED
    BY <1>1, <1>2, PTL DEF Spec

(***************************************************************************)
(* Whatever callers, versions, failures, resets, sweeps and drains meet,   *)
(* the conversation has one runtime and the manager knows it, until an     *)
(* acquire that awaited a close opens beside another one                   *)
(* (conversation-runtime-manager.ts:95-137, 166-177).                      *)
(***************************************************************************)
THEOREM CacheHasOneRuntime == Spec => []OneRuntime
  <1>1. UniqueInv => OneRuntime
    BY RegisteredIsOne DEF UniqueInv, OneRuntime
  <1>2. QED
    BY <1>1, UniqueInvariant, PTL

-----------------------------------------------------------------------------
\* A caller that evicts would open beside nothing if its close settled now.
Clear(c) == pc[c] = "evicting" => active = None /\ opening = None

\* Only who goes on after an eviction opens beside another.
LEMMA ReopenOnly ==
    ASSUME TypeOK, ~beside, \A c \in Callers : Clear(c), [Next]_vars
    PROVE  ~beside'
  <1> USE DEF TypeOK, history, Clear
  <1>1. ASSUME NEW c \in Callers, CallerStep(c) PROVE ~beside'
    BY <1>1 DEF CallerStep, Reuse, EvictOther, JoinOpening, Open, Reopen, Acquired,
                Release, Finish, Reset, ResetDone
  <1>2. ASSUME NEW r \in Runtimes, RuntimeStep(r) PROVE ~beside'
    BY <1>2 DEF RuntimeStep, Opened, OpenFails, Closed
  <1>3. CASE Expire \/ SweepIdle \/ Drain \/ Drained \/ CloseManager
    BY <1>3 DEF Expire, SweepIdle, Drain, Drained, CloseManager
  <1>4. CASE UNCHANGED vars
    BY <1>4 DEF vars
  <1>5. QED
    BY <1>1, <1>2, <1>3, <1>4 DEF Next

\* With one version no caller ever evicts.
NoEviction == \A c \in Callers : pc[c] # "evicting"

LEMMA NoEvictionStep ==
    ASSUME OneVersion, TypeOK, Registered, NoEviction, [Next]_vars
    PROVE  NoEviction'
  <1> USE DEF TypeOK, Goto, cache, shutdown, callers, history, NoEviction
  <1>1. ASSUME NEW c \in Callers, CallerStep(c) PROVE NoEviction'
    <2>1. \A v \in Versions : ~EvictOther(c, v)
      BY DEF EvictOther, OneVersion, Registered
    <2>2. QED
      BY <1>1, <2>1 DEF CallerStep, Reuse, JoinOpening, Open, OpenOnce, Reopen, Acquired,
                        Release, Finish, Reset, ResetDone
  <1>2. ASSUME NEW r \in Runtimes, RuntimeStep(r) PROVE NoEviction'
    BY <1>2 DEF RuntimeStep, Opened, OpenFails, Closed
  <1>3. CASE Expire \/ SweepIdle \/ Drain \/ Drained \/ CloseManager
    BY <1>3 DEF Expire, SweepIdle, Drain, Drained, CloseManager
  <1>4. CASE UNCHANGED vars
    BY <1>4 DEF vars
  <1>5. QED
    BY <1>1, <1>2, <1>3, <1>4 DEF Next

(***************************************************************************)
(* Any number of concurrent callers that want the same version share one   *)
(* runtime, whatever opens, fails, is reset, swept or drained meanwhile    *)
(* (conversation-runtime-manager.ts:113-137).                              *)
(***************************************************************************)
THEOREM SharedOneRuntime ==
    ASSUME OneVersion
    PROVE  Spec => [](OneRuntime /\ ~beside)
  <1> DEFINE IInv == TypeOK /\ Registered /\ NoEviction /\ ~beside
  <1>1. Init => IInv
    <2>1. Init => Registered /\ NoEviction /\ ~beside
      BY DEF Init, Registered, NoEviction, Live
    <2>2. QED
      BY <2>1, TypeInit
  <1>2. IInv /\ [Next]_vars => IInv'
    <2> SUFFICES ASSUME IInv, [Next]_vars PROVE IInv'
      OBVIOUS
    <2>1. TypeOK'
      BY TypeStep
    <2>2. ~beside'
      BY ReopenOnly DEF NoEviction, Clear
    <2>3. Registered'
      BY <2>2, RegisteredStep
    <2>4. NoEviction'
      BY NoEvictionStep
    <2>5. QED
      BY <2>1, <2>2, <2>3, <2>4
  <1>3. IInv => OneRuntime
    BY RegisteredIsOne
  <1>4. QED
    BY <1>1, <1>2, <1>3, PTL DEF Spec

-----------------------------------------------------------------------------
(***************************************************************************)
(* One caller: an open in flight is its own, nothing is live while it      *)
(* evicts, and what it holds was opened for the version it wants.          *)
(***************************************************************************)
Sole ==
    \A c \in Callers :
        /\ Clear(c)
        /\ opening # None => pc[c] = "awaiting" /\ holds[c] = opening
        /\ pc[c] \in {"awaiting", "using"} => version[holds[c]] = wants[c]

LEMMA SoleStep ==
    ASSUME OneCaller, TypeOK, Registered, Sole, [Next]_vars
    PROVE  Sole'
  <1> USE DEF TypeOK, Goto, cache, shutdown, callers, history, Registered, Sole, Clear, OneCaller
  <1>1. ASSUME NEW c \in Callers, NEW v \in Versions, Reuse(c, v) PROVE Sole'
    BY <1>1 DEF Reuse
  <1>2. ASSUME NEW c \in Callers, NEW v \in Versions, EvictOther(c, v) PROVE Sole'
    BY <1>2 DEF EvictOther, Evict
  <1>3. ASSUME NEW c \in Callers, NEW v \in Versions, JoinOpening(c, v) PROVE Sole'
    BY <1>3 DEF JoinOpening
  <1>4. ASSUME NEW c \in Callers, NEW v \in Versions, Open(c, v) PROVE Sole'
    BY <1>4 DEF Open, OpenOnce
  <1>5. ASSUME NEW c \in Callers, Reopen(c) PROVE Sole'
    BY <1>5 DEF Reopen, OpenOnce
  <1>6. ASSUME NEW c \in Callers, Acquired(c) PROVE Sole'
    BY <1>6 DEF Acquired
  <1>7. ASSUME NEW c \in Callers, Release(c) PROVE Sole'
    BY <1>7 DEF Release
  <1>8. ASSUME NEW c \in Callers, Finish(c) PROVE Sole'
    BY <1>8 DEF Finish
  <1>9. ASSUME NEW c \in Callers, Reset(c) PROVE Sole'
    <2>1. opening = None
      BY <1>9 DEF Reset
    <2>2. QED
      BY <1>9, <2>1 DEF Reset, Evict
  <1>10. ASSUME NEW c \in Callers, ResetDone(c) PROVE Sole'
    BY <1>10 DEF ResetDone
  <1>11. ASSUME NEW r \in Runtimes, RuntimeStep(r) PROVE Sole'
    <2>1. CASE Opened(r)
      <3>1. opening = r
        BY <2>1 DEF Opened, Live
      <3>2. QED
        BY <2>1, <3>1 DEF Opened
    <2>2. CASE OpenFails(r)
      BY <2>2 DEF OpenFails
    <2>3. CASE Closed(r)
      BY <2>3 DEF Closed
    <2>4. QED
      BY <1>11, <2>1, <2>2, <2>3 DEF RuntimeStep
  <1>12. CASE Expire \/ SweepIdle \/ Drain \/ Drained \/ CloseManager
    BY <1>12 DEF Expire, SweepIdle, Drain, Drained, CloseManager, Evict
  <1>13. CASE UNCHANGED vars
    BY <1>13 DEF vars
  <1>14. QED
    BY <1>1, <1>2, <1>3, <1>4, <1>5, <1>6, <1>7, <1>8, <1>9, <1>10, <1>11, <1>12, <1>13
       DEF Next, CallerStep

SoleInv == TypeOK /\ Registered /\ Sole /\ ~beside

LEMMA SoleInvariant ==
    ASSUME OneCaller
    PROVE  Spec => []SoleInv
  <1>1. Init => SoleInv
    <2>1. Init => Registered /\ Sole /\ ~beside
      BY DEF Init, Registered, Sole, Clear, Live
    <2>2. QED
      BY <2>1, TypeInit DEF SoleInv
  <1>2. SoleInv /\ [Next]_vars => SoleInv'
    <2> SUFFICES ASSUME SoleInv, [Next]_vars PROVE SoleInv'
      OBVIOUS
    <2>1. TypeOK'
      BY TypeStep DEF SoleInv
    <2>2. ~beside'
      BY ReopenOnly DEF SoleInv, Sole
    <2>3. Registered'
      BY <2>2, RegisteredStep DEF SoleInv
    <2>4. Sole'
      BY SoleStep DEF SoleInv
    <2>5. QED
      BY <2>1, <2>2, <2>3, <2>4 DEF SoleInv
  <1>3. QED
    BY <1>1, <1>2, PTL DEF Spec

(***************************************************************************)
(* Turns that come one at a time have one runtime, opened for their own    *)
(* version, across upgrades (conversation-runtime-manager.ts:95-137).      *)
(***************************************************************************)
THEOREM SoleOneRuntime ==
    ASSUME OneCaller
    PROVE  Spec => [](OneRuntime /\ ~beside)
  <1>1. SoleInv => OneRuntime /\ ~beside
    BY RegisteredIsOne DEF SoleInv
  <1>2. QED
    BY <1>1, SoleInvariant, PTL

(***************************************************************************)
(* When turns come one at a time, each runs on a runtime opened for its    *)
(* own version (conversation-runtime-manager.ts:100-108).                  *)
(***************************************************************************)
THEOREM SoleRightVersion ==
    ASSUME OneCaller
    PROVE  Spec => []RightVersion
  <1>1. SoleInv => RightVersion
    BY DEF SoleInv, Sole, RightVersion
  <1>2. QED
    BY <1>1, SoleInvariant, PTL

-----------------------------------------------------------------------------
\* The active runtime is open, and if it is idle then whoever has it and is
\* not late came to it by another name before.
Touched ==
    active # None =>
        /\ state[active] = "open"
        /\ idle => \A c \in Callers \ late :
                      pc[c] \in {"awaiting", "using"} => holds[c] # active

LEMMA TouchedStep == TypeOK /\ Touched /\ [Next]_vars => Touched'
  <1> SUFFICES ASSUME TypeOK, Touched, [Next]_vars PROVE Touched'
    OBVIOUS
  <1> USE DEF TypeOK, Goto, cache, shutdown, callers, history, Touched
  <1>1. ASSUME NEW c \in Callers, NEW v \in Versions, Reuse(c, v) PROVE Touched'
    BY <1>1 DEF Reuse
  <1>2. ASSUME NEW c \in Callers, NEW v \in Versions, EvictOther(c, v) PROVE Touched'
    BY <1>2 DEF EvictOther, Evict
  <1>3. ASSUME NEW c \in Callers, NEW v \in Versions, JoinOpening(c, v) PROVE Touched'
    BY <1>3 DEF JoinOpening
  <1>4. ASSUME NEW c \in Callers, NEW v \in Versions, Open(c, v) PROVE Touched'
    BY <1>4 DEF Open, OpenOnce
  <1>5. ASSUME NEW c \in Callers, Reopen(c) PROVE Touched'
    BY <1>5 DEF Reopen, OpenOnce, Forgotten
  <1>6. ASSUME NEW c \in Callers, Acquired(c) PROVE Touched'
    BY <1>6 DEF Acquired
  <1>7. ASSUME NEW c \in Callers, Release(c) PROVE Touched'
    BY <1>7 DEF Release
  <1>8. ASSUME NEW c \in Callers, Finish(c) PROVE Touched'
    BY <1>8 DEF Finish
  <1>9. ASSUME NEW c \in Callers, Reset(c) PROVE Touched'
    BY <1>9 DEF Reset, Evict
  <1>10. ASSUME NEW c \in Callers, ResetDone(c) PROVE Touched'
    BY <1>10 DEF ResetDone
  <1>11. ASSUME NEW r \in Runtimes, RuntimeStep(r) PROVE Touched'
    BY <1>11 DEF RuntimeStep, Opened, OpenFails, Closed
  <1>12. CASE Expire \/ SweepIdle \/ Drain \/ Drained \/ CloseManager
    BY <1>12 DEF Expire, SweepIdle, Drain, Drained, CloseManager, Evict
  <1>13. CASE UNCHANGED vars
    BY <1>13 DEF vars
  <1>14. QED
    BY <1>1, <1>2, <1>3, <1>4, <1>5, <1>6, <1>7, <1>8, <1>9, <1>10, <1>11, <1>12, <1>13
       DEF Next, CallerStep

(***************************************************************************)
(* However many callers share the cache and whatever they interleave, the  *)
(* sweep takes a runtime only from turns that have themselves outlasted    *)
(* the idle TTL since they acquired it: an entry found idle counts anew    *)
(* from the acquire (conversation-runtime-manager.ts:84-93, 110, 161-164). *)
(***************************************************************************)
THEOREM SweepTakesFromLate == Spec => SweptIsLate
  <1>1. Init => TypeOK /\ Touched
    BY TypeInit DEF Init, Touched
  <1>2. TypeOK /\ Touched /\ [Next]_vars =>
          [SweepIdle => \A c \in Callers \ late : pc[c] = "using" => holds[c] # active]_vars
    BY DEF SweepIdle, Touched, TypeOK
  <1>3. QED
    BY <1>1, <1>2, TypeStep, TouchedStep, PTL DEF Spec, SweptIsLate
=============================================================================
