---------------------------- MODULE RuntimeManager ----------------------------
(***************************************************************************)
(* ConversationRuntimeManager for one conversation: the cache of its       *)
(* runtime with acquire, release, reset, the idle sweep, drain and close.  *)
(*                                                                         *)
(* A member of Callers is a user of the manager; the executor of a turn is *)
(* one: it acquires, prompts, releases, and the service then may reset.    *)
(* The actions of a caller are the pieces of its calls between two awaits. *)
(***************************************************************************)
EXTENDS Naturals

CONSTANTS
    Callers,    \* users of the manager
    Versions,   \* published app versions a turn may run under
    Runtimes,   \* names of runtimes; one is used again once it is forgotten
    None        \* no runtime, no version

ASSUME ManagerAssumption == None \notin Runtimes /\ None \notin Versions

VARIABLES
    state,      \* life of each runtime
    version,    \* the version each runtime was opened for (runtime.scope)
    active,     \* the runtime in the active map
    idle,       \* is the active entry past the idle TTL?
    opening,    \* the runtime whose open is in the opening map
    draining,   \* progress of drain
    awaited,    \* the runtime whose close drain awaits
    closed,     \* is the manager closed?
    pc,         \* where each caller is
    holds,      \* the runtime each caller awaits, uses or closes
    wants,      \* the version each caller acquires for
    late,       \* history: callers whose turn has outlasted the idle TTL
    beside      \* history: has a reopen found the conversation taken again?

cache == <<active, idle, opening>>
shutdown == <<draining, awaited, closed>>
callers == <<pc, holds, wants>>
history == <<late, beside>>
vars == <<state, version, active, idle, opening, draining, awaited, closed,
          pc, holds, wants, late, beside>>

Live(r) == state[r] \in {"opening", "open"}

Init ==
    /\ state = [r \in Runtimes |-> "closed"] /\ version = [r \in Runtimes |-> None]
    /\ active = None /\ idle = FALSE /\ opening = None
    /\ draining = "no" /\ awaited = None /\ closed = FALSE
    /\ pc = [c \in Callers |-> "out"]
    /\ holds = [c \in Callers |-> None]
    /\ wants = [c \in Callers |-> None]
    /\ late = {} /\ beside = FALSE

\* Nothing refers to the runtime any more: its name may stand for a new one.
Forgotten(r) == state[r] \in {"closed", "failed"} /\ awaited # r /\ \A c \in Callers : holds[c] # r

Goto(c, from, to, r) ==
    /\ pc[c] = from
    /\ pc' = [pc EXCEPT ![c] = to]
    /\ holds' = [holds EXCEPT ![c] = r]

\* Remove the active entry and start to close its runtime.
Evict ==
    /\ active' = None /\ idle' = FALSE
    /\ state' = [state EXCEPT ![active] = "closing"]

(***************************************************************************)
(* openOnce: call the opener and register the promise, without looking at  *)
(* what is registered already.                                             *)
(***************************************************************************)
OpenOnce(c, from, v) ==
    \E r \in Runtimes :
        /\ Forgotten(r)
        /\ state' = [state EXCEPT ![r] = "opening"]
        /\ version' = [version EXCEPT ![r] = v]
        /\ opening' = r
        /\ Goto(c, from, "awaiting", r)

-----------------------------------------------------------------------------
\* acquire: the active runtime serves the same version and is used again.
ReuseUntouched(c, v) ==
    /\ ~closed /\ active # None /\ version[active] = v
    /\ Goto(c, "out", "using", active)
    /\ wants' = [wants EXCEPT ![c] = v]
    /\ UNCHANGED <<state, version, cache, shutdown, history>>

Reuse(c, v) ==
    /\ ~closed /\ active # None /\ version[active] = v
    /\ idle' = FALSE
    /\ Goto(c, "out", "using", active)
    /\ wants' = [wants EXCEPT ![c] = v]
    /\ UNCHANGED <<state, version, active, opening, shutdown, history>>

\* acquire: the active runtime serves another version and is closed first.
EvictOther(c, v) ==
    /\ ~closed /\ active # None /\ version[active] # v
    /\ Evict
    /\ Goto(c, "out", "evicting", active)
    /\ wants' = [wants EXCEPT ![c] = v]
    /\ UNCHANGED <<version, opening, shutdown, history>>

\* ... and when that close settles a new runtime is opened, come what may.
Reopen(c) ==
    /\ pc[c] = "evicting" /\ state[holds[c]] = "closed"
    /\ OpenOnce(c, "evicting", wants[c])
    /\ beside' = (beside \/ active # None \/ opening # None)
    /\ UNCHANGED <<active, idle, shutdown, wants, late>>

\* acquire: an open is in flight; its runtime is taken whatever its version.
JoinOpening(c, v) ==
    /\ ~closed /\ active = None /\ opening # None
    /\ Goto(c, "out", "awaiting", opening)
    /\ wants' = [wants EXCEPT ![c] = v]
    /\ UNCHANGED <<state, version, cache, shutdown, history>>

\* acquire: there is nothing to share.
OpenUnshared(c, v) ==
    /\ ~closed /\ active = None
    /\ OpenOnce(c, "out", v)
    /\ wants' = [wants EXCEPT ![c] = v]
    /\ UNCHANGED <<active, idle, shutdown, history>>

Open(c, v) ==
    /\ ~closed /\ active = None /\ opening = None
    /\ OpenOnce(c, "out", v)
    /\ wants' = [wants EXCEPT ![c] = v]
    /\ UNCHANGED <<active, idle, shutdown, history>>

(***************************************************************************)
(* The opener resolves: the runtime becomes the active one, whatever was   *)
(* active, and `finally` deletes the opening entry, whosever it is.        *)
(***************************************************************************)
Opened(r) ==
    /\ state[r] = "opening"
    /\ state' = [state EXCEPT ![r] = "open"]
    /\ active' = r /\ idle' = FALSE /\ opening' = None
    /\ UNCHANGED <<version, shutdown, callers, history>>

OpenFailsSilently(r) ==
    /\ state[r] = "opening"
    /\ state' = [state EXCEPT ![r] = "failed"]
    /\ UNCHANGED <<version, cache, shutdown, callers, history>>

OpenFails(r) ==
    /\ state[r] = "opening"
    /\ state' = [state EXCEPT ![r] = "failed"]
    /\ opening' = None
    /\ UNCHANGED <<version, active, idle, shutdown, callers, history>>

\* acquire returns the runtime it awaited, closed since or not, or throws.
Acquired(c) ==
    /\ pc[c] = "awaiting" /\ state[holds[c]] # "opening"
    /\ \/ /\ state[holds[c]] # "failed"
          /\ Goto(c, "awaiting", "using", holds[c]) /\ UNCHANGED <<wants, late>>
       \/ /\ state[holds[c]] = "failed"
          /\ Goto(c, "awaiting", "out", None) /\ wants' = [wants EXCEPT ![c] = None]
          /\ late' = late \ {c}
    /\ UNCHANGED <<state, version, cache, shutdown, beside>>

-----------------------------------------------------------------------------
\* release, when the prompt has settled: the active entry is touched, which
\* need not be the runtime the caller used.
Release(c) ==
    /\ Goto(c, "using", "returned", None)
    /\ idle' = FALSE
    /\ wants' = [wants EXCEPT ![c] = None] /\ late' = late \ {c}
    /\ UNCHANGED <<state, version, active, opening, shutdown, beside>>

\* A turn that did not succeed ends without a reset.
Finish(c) ==
    /\ Goto(c, "returned", "out", None)
    /\ UNCHANGED <<state, version, cache, shutdown, wants, history>>

\* reset: nothing to do without an active entry; otherwise drop that entry and
\* the opening entry, and wait for the close.
Reset(c) ==
    /\ \/ active = None /\ Goto(c, "returned", "out", None) /\ UNCHANGED <<state, cache>>
       \/ active # None /\ Evict /\ opening' = None /\ Goto(c, "returned", "resetting", active)
    /\ UNCHANGED <<version, shutdown, wants, history>>

ResetDone(c) ==
    /\ pc[c] = "resetting" /\ state[holds[c]] = "closed"
    /\ Goto(c, "resetting", "out", None)
    /\ UNCHANGED <<state, version, cache, shutdown, wants, history>>

-----------------------------------------------------------------------------
\* runtime.close settles, with or without an error.
Closed(r) ==
    /\ state[r] = "closing"
    /\ state' = [state EXCEPT ![r] = "closed"]
    /\ UNCHANGED <<version, cache, shutdown, callers, history>>

\* Time passes: the active entry was last touched idleTtlMs ago.  Nothing
\* touches it while a turn prompts the runtime, however long the turn takes.
Expire ==
    /\ active # None /\ ~idle
    /\ idle' = TRUE
    /\ late' = late \cup {c \in Callers : pc[c] \in {"awaiting", "using"}}
    /\ UNCHANGED <<state, version, active, opening, shutdown, callers, beside>>

\* sweepIdle, from the timer that drain clears.
SweepIdle ==
    /\ draining = "no" /\ active # None /\ idle
    /\ Evict
    /\ UNCHANGED <<version, opening, shutdown, callers, history>>

\* drain, run once: the active runtimes are closed; opens in flight are not
\* looked at.
Drain ==
    /\ draining = "no" /\ draining' = "draining"
    /\ \/ active = None /\ UNCHANGED <<state, active, idle, awaited>>
       \/ active # None /\ Evict /\ awaited' = active
    /\ UNCHANGED <<version, opening, closed, callers, history>>

Drained ==
    /\ draining = "draining" /\ (awaited # None => state[awaited] = "closed")
    /\ draining' = "drained" /\ awaited' = None
    /\ UNCHANGED <<state, version, cache, closed, callers, history>>

\* close, when the drain it awaits is done.
CloseManager ==
    /\ draining = "drained" /\ ~closed
    /\ closed' = TRUE
    /\ UNCHANGED <<state, version, cache, draining, awaited, callers, history>>

-----------------------------------------------------------------------------
CallerStep(c) ==
    \/ \E v \in Versions : Reuse(c, v) \/ EvictOther(c, v) \/ JoinOpening(c, v) \/ Open(c, v)
    \/ Reopen(c) \/ Acquired(c) \/ Release(c) \/ Finish(c) \/ Reset(c) \/ ResetDone(c)

RuntimeStep(r) == Opened(r) \/ OpenFails(r) \/ Closed(r)

Next ==
    \/ \E c \in Callers : CallerStep(c)
    \/ \E r \in Runtimes : RuntimeStep(r)
    \/ Expire \/ SweepIdle \/ Drain \/ Drained \/ CloseManager

Spec == Init /\ [][Next]_vars

\* An opener and a close settle, and a caller goes on when what it awaits has.
FairSpec ==
    /\ Spec
    /\ \A r \in Runtimes : WF_vars(RuntimeStep(r))
    /\ \A c \in Callers : WF_vars(Reopen(c) \/ Acquired(c) \/ ResetDone(c))

-----------------------------------------------------------------------------
TypeOK ==
    /\ state \in [Runtimes -> {"opening", "open", "closing", "closed", "failed"}]
    /\ version \in [Runtimes -> Versions \cup {None}]
    /\ active \in Runtimes \cup {None} /\ opening \in Runtimes \cup {None}
    /\ idle \in BOOLEAN /\ closed \in BOOLEAN
    /\ draining \in {"no", "draining", "drained"} /\ awaited \in Runtimes \cup {None}
    /\ pc \in [Callers -> {"out", "evicting", "awaiting", "using", "returned", "resetting"}]
    /\ holds \in [Callers -> Runtimes \cup {None}]
    /\ wants \in [Callers -> Versions \cup {None}]
    /\ beside \in BOOLEAN
    /\ late \subseteq {c \in Callers : pc[c] \in {"awaiting", "using"}}
    \* a caller that awaits or closes a runtime has one, for a version it wants
    /\ \A c \in Callers :
          /\ pc[c] \in {"evicting", "awaiting", "using", "resetting"} <=> holds[c] # None
          /\ pc[c] \in {"evicting", "awaiting", "using"} <=> wants[c] # None

(***************************************************************************)
(* The conversation has at most one live runtime, and the manager knows    *)
(* it: one that is in neither map can never be closed by a sweep, a reset  *)
(* or a drain (header, lines 4-5: concurrent acquires create only once).   *)
(* An acquire that evicts does not look again when the close has settled   *)
(* (107-108): from the first time one opens beside another, all is lost.   *)
(***************************************************************************)
OneRuntime ==
    ~beside => /\ \A r, s \in Runtimes : Live(r) /\ Live(s) => r = s
               /\ \A r \in Runtimes : Live(r) => r \in {active, opening}

(***************************************************************************)
(* A turn runs on a runtime that was opened for the version of the turn    *)
(* (lines 100-104: capabilities are those of the turn's own version).      *)
(***************************************************************************)
RightVersion == \A c \in Callers : pc[c] = "using" => version[holds[c]] = wants[c]

(***************************************************************************)
(* The sweep takes a runtime from a turn only if that very turn has        *)
(* outlasted the idle TTL: never for the time it lay idle before, nor for  *)
(* a turn that another caller ran on it (lines 84-93 and 110).             *)
(***************************************************************************)
SweptIsLate ==
    [][SweepIdle => \A c \in Callers \ late : pc[c] = "using" => holds[c] # active]_vars

(***************************************************************************)
(* The sweep reclaims runtimes that are idle (lines 50 and 6-7), hence     *)
(* none that a turn is prompting.                                          *)
(***************************************************************************)
OnlyIdleSwept == [][SweepIdle => \A c \in Callers : pc[c] = "using" => holds[c] # active]_vars

(***************************************************************************)
(* An open in flight is forgotten when it settles, so a failed open does   *)
(* not keep later turns from opening a runtime (the finally in openOnce).  *)
(***************************************************************************)
PendingSettles == opening # None ~> opening = None
=============================================================================
