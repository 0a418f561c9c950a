--------------------------- MODULE CancelRegistry ---------------------------
(***************************************************************************)
(* The registry through which POST /inference/cancel reaches a running     *)
(* stream (routes/inference.py): _CANCEL_REGISTRY, the cancels posted      *)
(* before their stream is registered, and _TrackedCancel.                  *)
(*                                                                         *)
(* A run has keys of its own (its cancel_id and completion_id, one model   *)
(* value here) and the key of its session, which other runs share.  The    *)
(* routes run on one event loop and await nothing between taking the lock  *)
(* and setting the events, so each is one action.                          *)
(***************************************************************************)
EXTENDS Integers, FiniteSets

CONSTANTS
  Runs,           \* runs of the tool stream
  Sessions,
  SessionOf       \* the session of each run

ASSUME SessionAssumption == SessionOf \in [Runs -> Sessions]
ASSUME KeysAssumption == Runs \cap Sessions = {}

VARIABLES
  cancelEvent,    \* a run's threading.Event
  registered,     \* the runs in _CANCEL_REGISTRY, each under all its keys
  stash,          \* _PENDING_CANCELS
  posted,         \* history: runs whose own cancel_id was posted
  lapsed,         \* history: of those, the ones whose stash ran out
  wanted          \* history: runs that a cancel or their client's leaving ended

registryVars == <<cancelEvent, registered, stash, posted, lapsed, wanted>>

RegistryTypeOK ==
  /\ cancelEvent \in [Runs -> BOOLEAN]
  /\ registered \subseteq Runs
  /\ stash \subseteq Runs
  /\ posted \subseteq Runs
  /\ lapsed \subseteq posted
  /\ wanted \subseteq Runs

RegistryInit ==
  /\ cancelEvent = [r \in Runs |-> FALSE]
  /\ registered = {}
  /\ stash = {}
  /\ posted = {}
  /\ lapsed = {}
  /\ wanted = {}

\* The runs found under a key.
Bucket(k) == {r \in registered : k \in {r, SessionOf[r]}}

SetEvents(S) == cancelEvent' = [r \in Runs |-> cancelEvent[r] \/ r \in S]

\* Mutant: a cancel that came before the run is not looked for.
EnterUnaware(r) ==
  /\ registered' = registered \cup {r}
  /\ UNCHANGED <<cancelEvent, stash>>

\* __enter__: register and take the run's stashed cancel.
Enter(r) ==
  /\ registered' = registered \cup {r}
  /\ SetEvents(stash \cap {r})
  /\ stash' = stash \ {r}

\* __exit__
Exit(r) == registered' = registered \ {r}

\* _cancel_by_cancel_id_or_stash
CancelById(r) ==
  /\ SetEvents(Bucket(r))
  /\ stash' = IF Bucket(r) = {} THEN stash \cup {r} ELSE stash
  /\ posted' = posted \cup {r}
  /\ lapsed' = lapsed \ {r}
  /\ wanted' = wanted \cup {r}
  /\ UNCHANGED registered

\* Mutant: a cancel by a shared key is stashed for the runs to come.
CancelByKeysStashed(k) ==
  /\ SetEvents(Bucket(k))
  /\ stash' = stash \cup {r \in Runs \ registered : SessionOf[r] = k}
  /\ wanted' = wanted \cup Bucket(k)
  /\ UNCHANGED <<registered, posted, lapsed>>

\* _cancel_by_keys
CancelByKeys(k) ==
  /\ SetEvents(Bucket(k))
  /\ wanted' = wanted \cup Bucket(k)
  /\ UNCHANGED <<registered, stash, posted, lapsed>>

\* _prune_pending: the stash of a run is older than its 30 seconds.
Prune(r) ==
  /\ r \in stash
  /\ stash' = stash \ {r}
  /\ lapsed' = lapsed \cup {r}
  /\ UNCHANGED <<cancelEvent, registered, posted, wanted>>

-----------------------------------------------------------------------------
(* What the registry promises.                                              *)

\* A cancel posted by a run's own id reaches it, before its registration or
\* after, unless it waited longer than the stash keeps it.
NoLostCancel ==
  \A r \in (posted \ lapsed) \cap registered : cancelEvent[r]
=============================================================================
