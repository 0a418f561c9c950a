----------------------- MODULE InferenceOrchestrator -----------------------
(***************************************************************************)
(* core/inference/orchestrator.py: the parent process in front of the      *)
(* inference worker.  Its threads share one response queue: the thread     *)
(* that drains a locked generation, the compare-mode dispatcher, a load    *)
(* waiting for "loaded", an unload waiting for "unloaded".  A step is what *)
(* a thread does between two places where another can overtake it.         *)
(*                                                                         *)
(* Bounds: a load begins while fewer than MaxSpawns processes were spawned *)
(* (its retry may spawn one more), and one token of a request is unread at *)
(* a time.  Faults names the disturbances a run lets happen.               *)
(***************************************************************************)
EXTENDS InferenceWorker

CONSTANTS Unloader,   \* the owner of _gen_lock that is not a stream
          Nobody,     \* _gen_lock is free
          MaxSpawns,
          Faults

FaultKinds ==
  {"timeout",   \* the idle wait, the unload's lock wait and the reply waits expire
   "close",     \* a client disconnects in mid-stream
   "cancel",    \* a client cancels its generation
   "crash",     \* the worker dies
   "survive",   \* the worker outlives SIGKILL
   "stall",     \* a download stalls
   "repair",    \* a sidecar repair holds its reservation
   "stop",      \* /unload names the model that is loading
   "unload",    \* /unload names the loaded model
   "oneload"}   \* only the first load happens

ASSUME FaultsAssumption == Faults \subseteq FaultKinds
ASSUME MaxSpawnsAssumption == MaxSpawns \in Nat
ASSUME OwnersAssumption ==
  Unloader \notin Streams /\ Nobody \notin Streams /\ Unloader # Nobody

VARIABLES
  active,         \* active_model_name (models holds just this one)
  loading,        \* loading_models
  unloadPending,  \* _unload_pending
  genLock,        \* who holds _gen_lock
  dispatcher,     \* is _dispatcher_thread alive
  registered,     \* the keys of _mailboxes
  mailbox,        \* the mailbox of each compare request
  phase,          \* where each request is
  expected,       \* its expected_model
  latched,        \* its initial_proc
  latchedQueue,   \* its initial_resp_queue
  seen,           \* whose events it took for its own
  gate,           \* the lifecycle gate of the /load and /unload routes
  loader,         \* load_model
  unloader,       \* unload_model
  canceller,      \* cancel_load
  stopped         \* the model of the last cancel_load that returned

streamVars == <<phase, expected, latched, latchedQueue, seen>>
routing    == <<dispatcher, registered, mailbox>>
loadVars   == <<gate, loader, unloader, canceller, stopped>>
parentVars == <<active, loading, unloadPending, genLock, routing, streamVars,
                loadVars>>
vars       == <<workerVars, parentVars>>

-----------------------------------------------------------------------------
Phases == {"new", "idle", "stop", "lock", "start", "register", "registerOwn",
           "stopOwn", "send", "stream", "drain", "done"}

IdleLoader == [pc |-> "idle", model |-> NoModel, attempt |-> 0]
IdleCancel == [pc |-> "idle", model |-> NoModel, settle |-> FALSE]

\* What the threads hold is in range; a stalled load is tried twice at most.
TypeOK ==
  /\ WorkerTypeOK
  /\ active \in Models \cup {NoModel}
  /\ loading \subseteq Models
  /\ unloadPending \in BOOLEAN
  /\ genLock \in Streams \cup {Unloader, Nobody}
  /\ dispatcher \in BOOLEAN
  /\ registered \subseteq Compare
  /\ mailbox \in [Compare -> Seq(StreamEvents)]
  /\ phase \in [Streams -> Phases]
  /\ expected \in [Streams -> Models \cup {NoModel}]
  /\ latched \in [Streams -> Nat] /\ latchedQueue \in [Streams -> Nat]
  /\ seen \in [Streams -> SUBSET Streams]
  /\ gate \in {"free", "load", "unload"}
  /\ loader \in [pc : {"idle", "kill", "check", "spawn", "post", "wait", "publish"},
                 model : Models \cup {NoModel}, attempt : 0..2]
  /\ unloader \in {"idle", "pending", "drain", "cancel", "lock", "wait_idle",
                   "stop", "send", "reply", "finally", "undrain"}
  /\ canceller \in [pc : {"idle", "teardown", "clear"},
                    model : Models \cup {NoModel}, settle : BOOLEAN]
  /\ stopped \in Models \cup {NoModel}

Init ==
  /\ WorkerInit
  /\ active = NoModel /\ loading = {} /\ unloadPending = FALSE
  /\ genLock = Nobody
  /\ dispatcher = FALSE /\ registered = {}
  /\ mailbox = [c \in Compare |-> <<>>]
  /\ phase = [r \in Streams |-> "new"]
  /\ expected = [r \in Streams |-> NoModel]
  /\ latched = [r \in Streams |-> 0] /\ latchedQueue = [r \in Streams |-> 0]
  /\ seen = [r \in Streams |-> {}]
  /\ gate = "free"
  /\ loader = IdleLoader /\ unloader = "idle" /\ canceller = IdleCancel
  /\ stopped = NoModel

Goto(r, p) == phase' = [phase EXCEPT ![r] = p]

\* _shutdown_subprocess: stop the dispatcher, then end the process.  A handle
\* on a dead process is dropped, its queues are not.
Shutdown(survives) ==
  /\ dispatcher' = FALSE
  /\ IF alive
       THEN IF survives THEN Survive ELSE Kill
       ELSE /\ ~survives /\ proc' = 0
            /\ UNCHANGED <<queue, spawned, alive, channel, held, job>>

MaySurvive == IF "survive" \in Faults THEN BOOLEAN ELSE {FALSE}
Expires    == "timeout" \in Faults

-----------------------------------------------------------------------------
(* A generation under _gen_lock: _generate_inner.                          *)

BeginLocked(r) ==
  /\ phase[r] = "new"
  /\ IF alive /\ active # NoModel
       THEN Goto(r, "idle") /\ expected' = [expected EXCEPT ![r] = active]
       ELSE Goto(r, "done") /\ UNCHANGED expected
  /\ UNCHANGED <<workerVars, active, loading, unloadPending, genLock, routing,
                 latched, latchedQueue, seen, loadVars>>

\* _wait_dispatcher_idle looks at the mailboxes; its answer is not used here.
SeeIdle(r) ==
  /\ phase[r] = "idle"
  /\ \/ ~dispatcher /\ Goto(r, "lock")
     \/ dispatcher /\ registered = {} /\ Goto(r, "stop")
     \/ dispatcher /\ registered # {} /\ Expires /\ Goto(r, "lock")
  /\ UNCHANGED <<workerVars, active, loading, unloadPending, genLock, routing,
                 expected, latched, latchedQueue, seen, loadVars>>

\* ... and then stops the dispatcher.
StopIdle(r) ==
  /\ phase[r] = "stop"
  /\ dispatcher' = FALSE
  /\ Goto(r, "lock")
  /\ UNCHANGED <<workerVars, active, loading, unloadPending, genLock, registered,
                 mailbox, expected, latched, latchedQueue, seen, loadVars>>

\* What _consume_token_stream latches.  After the handle of a dead process was
\* dropped, that is no process but still its queue.
Latch(r) == /\ latched' = [latched EXCEPT ![r] = proc]
            /\ latchedQueue' = [latchedQueue EXCEPT ![r] = queue]

\* Take _gen_lock, look again, send the command, latch the handles.
LockAndSend(r) ==
  /\ phase[r] = "lock" /\ genLock = Nobody
  /\ IF unloadPending \/ active # expected[r] \/ NoQueue
       THEN Goto(r, "done") /\ UNCHANGED <<genLock, latched, latchedQueue, cmds>>
       ELSE genLock' = r /\ Goto(r, "stream") /\ Send(Generate(r)) /\ Latch(r)
  /\ UNCHANGED <<proc, queue, spawned, alive, resps, cancelEvent, drainEvent, held,
                 job, active, loading, unloadPending, routing, expected, seen,
                 loadVars>>

-----------------------------------------------------------------------------
(* A compare-mode generation: _generate_dispatched.                        *)

BeginCompare(r) ==
  /\ phase[r] = "new"
  /\ IF alive /\ active # NoModel /\ ~unloadPending
       THEN Goto(r, "start") /\ expected' = [expected EXCEPT ![r] = active]
       ELSE Goto(r, "done") /\ UNCHANGED expected
  /\ UNCHANGED <<workerVars, active, loading, unloadPending, genLock, routing,
                 latched, latchedQueue, seen, loadVars>>

\* Mutant: _start_dispatcher does not look at the unload.
StartDispatcherAnyway(r) ==
  /\ phase[r] = "start"
  /\ dispatcher' = TRUE
  /\ Goto(r, IF dispatcher THEN "register" ELSE "registerOwn")
  /\ UNCHANGED <<workerVars, active, loading, unloadPending, genLock, registered,
                 mailbox, expected, latched, latchedQueue, seen, loadVars>>

\* _start_dispatcher: at most one thread, none while an unload is pending.
StartDispatcher(r) ==
  /\ phase[r] = "start"
  /\ dispatcher' = (dispatcher \/ ~unloadPending)
  /\ Goto(r, IF dispatcher \/ unloadPending THEN "register" ELSE "registerOwn")
  /\ UNCHANGED <<workerVars, active, loading, unloadPending, genLock, registered,
                 mailbox, expected, latched, latchedQueue, seen, loadVars>>

\* Mutant: the dispatcher and the unload are not looked at again.
RegisterUnchecked(r) ==
  /\ phase[r] \in {"register", "registerOwn"}
  /\ Goto(r, "send")
  /\ registered' = registered \cup {r}
  /\ UNCHANGED <<workerVars, active, loading, unloadPending, genLock, dispatcher,
                 mailbox, expected, latched, latchedQueue, seen, loadVars>>

\* The mailbox is registered, or the request gives up, under _mailbox_lock.
Register(r) ==
  /\ phase[r] \in {"register", "registerOwn"}
  /\ IF unloadPending \/ active # expected[r] \/ ~dispatcher
       THEN /\ Goto(r, IF phase[r] = "registerOwn" /\ registered = {}
                         THEN "stopOwn" ELSE "done")
            /\ UNCHANGED registered
       ELSE Goto(r, "send") /\ registered' = registered \cup {r}
  /\ UNCHANGED <<workerVars, active, loading, unloadPending, genLock, dispatcher,
                 mailbox, expected, latched, latchedQueue, seen, loadVars>>

\* The dispatcher this request started serves nobody: stop it again.
StopOwn(r) ==
  /\ phase[r] = "stopOwn"
  /\ dispatcher' = FALSE
  /\ Goto(r, "done")
  /\ UNCHANGED <<workerVars, active, loading, unloadPending, genLock, registered,
                 mailbox, expected, latched, latchedQueue, seen, loadVars>>

SendCompare(r) ==
  /\ phase[r] = "send"
  /\ IF NoQueue
       THEN /\ Goto(r, "done") /\ registered' = registered \ {r}
            /\ UNCHANGED <<latched, latchedQueue, cmds>>
       ELSE /\ Goto(r, "stream") /\ UNCHANGED registered
            /\ Send(Generate(r)) /\ Latch(r)
  /\ UNCHANGED <<proc, queue, spawned, alive, resps, cancelEvent, drainEvent, held,
                 job, active, loading, unloadPending, genLock, dispatcher, mailbox,
                 expected, seen, loadVars>>

-----------------------------------------------------------------------------
(* _consume_token_stream, on the response queue or on a mailbox.           *)

\* The handles are still those that the stream latched.
Current(r) == latched[r] = proc /\ latchedQueue[r] = queue

Source(r) == IF r \in Locked THEN resps ELSE mailbox[r]

Pop(r) ==
  IF r \in Locked
    THEN resps' = Tail(resps) /\ UNCHANGED mailbox
    ELSE mailbox' = [mailbox EXCEPT ![r] = Tail(@)] /\ UNCHANGED resps

\* The generator ends: _gen_lock is released, the mailbox removed.
Finish(r) ==
  /\ Goto(r, "done")
  /\ genLock' = IF genLock = r THEN Nobody ELSE genLock
  /\ registered' = registered \ {r}

Stay == UNCHANGED <<phase, genLock, registered>>

\* One event.  No reader looks at the request id; a token of a cancelled
\* request makes it cancel the worker and drain.
ReadEvent(r) ==
  /\ phase[r] = "stream" /\ Current(r) /\ Source(r) # <<>>
  /\ Pop(r)
  /\ LET e == Head(Source(r)) IN
       \/ /\ e.type = "token"
          /\ seen' = [seen EXCEPT ![r] = @ \cup {e.id}]
          /\ Stay /\ UNCHANGED cancelEvent
       \/ /\ e.type = "token" /\ "cancel" \in Faults
          /\ cancelEvent' = TRUE
          /\ Goto(r, "drain")
          /\ UNCHANGED <<seen, genLock, registered>>
       \/ /\ EndsStream(e)
          /\ seen' = [seen EXCEPT ![r] = @ \cup {e.id}]
          /\ Finish(r) /\ UNCHANGED cancelEvent
       \/ /\ e \notin StreamEvents
          /\ Stay /\ UNCHANGED <<seen, cancelEvent>>
  /\ UNCHANGED <<proc, queue, spawned, alive, cmds, drainEvent, held, job, active,
                 loading, unloadPending, dispatcher, expected, latched, latchedQueue,
                 loadVars>>

\* Mutant: only a dead worker ends a stream, not a replaced one.
LoseLiveWorker(r) ==
  /\ phase[r] = "stream"
  /\ Source(r) = <<>> /\ ~alive
  /\ Finish(r)
  /\ UNCHANGED <<workerVars, active, loading, unloadPending, dispatcher, mailbox,
                 expected, latched, latchedQueue, seen, loadVars>>

\* A handle of the stream was replaced, or its process is dead with nothing
\* unread.
LoseWorker(r) ==
  /\ phase[r] = "stream"
  /\ ~Current(r) \/ (Source(r) = <<>> /\ ~alive)
  /\ Finish(r)
  /\ UNCHANGED <<workerVars, active, loading, unloadPending, dispatcher, mailbox,
                 expected, latched, latchedQueue, seen, loadVars>>

\* Mutant: a cancelled request is let go without draining its events.
SkipDrain(r) ==
  /\ phase[r] = "drain"
  /\ Finish(r)
  /\ UNCHANGED <<workerVars, active, loading, unloadPending, dispatcher, mailbox,
                 expected, latched, latchedQueue, seen, loadVars>>

\* _drain_until_gen_done and _drain_mailbox.  Their deadline always passes once
\* the worker was lost; whether it passes before that is left to Expires.
DrainEvent(r) ==
  /\ phase[r] = "drain"
  /\ \/ /\ Source(r) # <<>>
        /\ Pop(r)
        /\ IF EndsStream(Head(Source(r))) THEN Finish(r) ELSE Stay
     \/ /\ Source(r) = <<>> /\ (~alive \/ ~Current(r) \/ Expires)
        /\ Finish(r)
        /\ UNCHANGED <<resps, mailbox>>
  /\ UNCHANGED <<proc, queue, spawned, alive, cmds, cancelEvent, drainEvent, held,
                 job, active, loading, unloadPending, dispatcher, expected, latched,
                 latchedQueue, seen, loadVars>>

\* The route sees the client gone: reset_generation_state, then gen.close().
CloseStream(r) ==
  /\ "close" \in Faults
  /\ phase[r] = "stream"
  /\ cancelEvent' = ~NoQueue
  /\ IF alive THEN Send(Reset) ELSE UNCHANGED cmds
  /\ Finish(r)
  /\ UNCHANGED <<proc, queue, spawned, alive, resps, drainEvent, held, job, active,
                 loading, unloadPending, dispatcher, mailbox, expected, latched,
                 latchedQueue, seen, loadVars>>

-----------------------------------------------------------------------------
(* _dispatcher_loop.                                                       *)

DispatchOne ==
  /\ dispatcher /\ resps # <<>>
  /\ resps' = Tail(resps)
  /\ LET e == Head(resps) IN
       IF e \in StreamEvents /\ e.id \in registered
         THEN mailbox' = [mailbox EXCEPT ![e.id] = Append(@, e)]
         ELSE UNCHANGED mailbox
  /\ UNCHANGED <<proc, queue, spawned, alive, cmds, cancelEvent, drainEvent, held,
                 job, active, loading, unloadPending, genLock, dispatcher, registered,
                 streamVars, loadVars>>

\* The queue is None: the thread ends.
DispatcherEnds ==
  /\ dispatcher /\ NoQueue
  /\ dispatcher' = FALSE
  /\ UNCHANGED <<workerVars, active, loading, unloadPending, genLock, registered,
                 mailbox, streamVars, loadVars>>

-----------------------------------------------------------------------------
(* load_model, under the lifecycle gate.                                   *)

parentButLoad == <<unloadPending, genLock, registered, mailbox, streamVars,
                   unloader, canceller>>

LoaderAt(pc)   == loader' = [loader EXCEPT !.pc = pc]
LoadReturns    == loader' = IdleLoader /\ gate' = "free"
Discard        == loading' = loading \ {loader.model}
ForgetModels   == active' = NoModel
LoadRaises     == LoadReturns /\ Discard /\ ForgetModels
Marked         == loader.model \in loading

\* A new load starts once a cancel_load of an earlier one has returned: its
\* shutdown ends before a route can get another load as far as the spawn.
BeginLoad(m) ==
  /\ loader.pc = "idle" /\ gate = "free" /\ canceller.pc = "idle"
  /\ spawned < MaxSpawns /\ ("oneload" \in Faults => spawned = 0)
  /\ gate' = "load"
  /\ loading' = loading \cup {m}
  /\ loader' = [pc |-> "kill", model |-> m, attempt |-> 1]
  /\ stopped' = NoModel
  /\ UNCHANGED <<workerVars, active, dispatcher, parentButLoad>>

\* A repair reservation refuses the load and leaves a live model alone.
RefuseForRepair ==
  /\ loader.pc \in {"kill", "spawn"} /\ "repair" \in Faults
  /\ Discard /\ LoadReturns
  /\ active' = IF alive THEN active ELSE NoModel
  /\ UNCHANGED <<workerVars, dispatcher, parentButLoad, stopped>>

\* load_model shuts down what it has a handle on.
ShutdownOld(survives) ==
  IF proc = 0 THEN ~survives /\ UNCHANGED <<workerVars, dispatcher>>
              ELSE Shutdown(survives)

\* Mutant: the old worker's survival is not looked at.
KillOldAnyway ==
  /\ loader.pc = "kill"
  /\ \E survives \in MaySurvive : ShutdownOld(survives)
  /\ LoaderAt("check")
  /\ UNCHANGED <<gate, loading, active, parentButLoad, stopped>>

\* The worker of the previous model is ended, or outlives it all.
KillOld ==
  /\ loader.pc = "kill"
  /\ \E survives \in MaySurvive :
       /\ ShutdownOld(survives)
       /\ IF survives THEN LoadRaises
                      ELSE LoaderAt("check") /\ UNCHANGED <<gate, loading, active>>
  /\ UNCHANGED <<parentButLoad, stopped>>

\* The marker is looked at before the spawn ...
CheckBeforeSpawn ==
  /\ loader.pc = "check"
  /\ IF Marked THEN LoaderAt("spawn") /\ UNCHANGED <<gate, active>>
               ELSE LoadReturns /\ ForgetModels
  /\ UNCHANGED <<workerVars, dispatcher, loading, parentButLoad, stopped>>

SpawnWorker ==
  /\ loader.pc = "spawn"
  /\ Spawn(loader.model)
  /\ LoaderAt("post")
  /\ UNCHANGED <<gate, active, loading, dispatcher, parentButLoad, stopped>>

\* ... and again once the child exists.
CheckAfterSpawn ==
  /\ loader.pc = "post"
  /\ IF Marked
       THEN LoaderAt("wait") /\ UNCHANGED <<workerVars, dispatcher, gate, active>>
       ELSE /\ \E survives \in MaySurvive : Shutdown(survives)
            /\ LoadReturns /\ ForgetModels
  /\ UNCHANGED <<loading, parentButLoad, stopped>>

\* _wait_response("loaded"): other events are skipped.
AwaitLoaded ==
  /\ loader.pc = "wait" /\ resps # <<>>
  /\ LET e == Head(resps) IN
       \/ /\ e = Loaded(TRUE) /\ resps' = Tail(resps)
          /\ IF Marked THEN LoaderAt("publish") /\ UNCHANGED <<gate, active>>
                       ELSE LoadReturns /\ ForgetModels
          /\ UNCHANGED <<proc, queue, spawned, alive, cmds, cancelEvent, drainEvent,
                         held, job, dispatcher, loading>>
       \/ /\ e = Loaded(FALSE) /\ resps' = Tail(resps)
          /\ LoadRaises
          /\ UNCHANGED <<proc, queue, spawned, alive, cmds, cancelEvent, drainEvent,
                         held, job, dispatcher>>
       \/ /\ e.type \notin {"loaded", "stall"} /\ resps' = Tail(resps)
          /\ UNCHANGED <<proc, queue, spawned, alive, cmds, cancelEvent, drainEvent,
                         held, job, dispatcher, gate, active, loading, loader>>
  /\ UNCHANGED <<parentButLoad, stopped>>

\* Mutant: every stall is worth another try.
RetryForever ==
  /\ loader.pc = "wait" /\ resps # <<>> /\ Head(resps) = Stall
  /\ \E survives \in MaySurvive : Shutdown(survives)
  /\ loader' = [loader EXCEPT !.pc = "check", !.attempt = @ + 1]
  /\ UNCHANGED <<gate, loading, active, parentButLoad, stopped>>

\* A stall ends the worker; the first one tries again without Xet.  Whether
\* the worker really went is not looked at.
HandleStall ==
  /\ loader.pc = "wait" /\ resps # <<>> /\ Head(resps) = Stall
  /\ \E survives \in MaySurvive : Shutdown(survives)
  /\ IF loader.attempt = 1
       THEN /\ loader' = [loader EXCEPT !.pc = "check", !.attempt = 2]
            /\ UNCHANGED <<gate, loading, active>>
       ELSE LoadRaises
  /\ UNCHANGED <<parentButLoad, stopped>>

\* No answer: the worker is dead, or silent for 300 seconds.
LoadFails ==
  /\ loader.pc = "wait" /\ resps = <<>> /\ (~alive \/ Expires)
  /\ LoadRaises
  /\ UNCHANGED <<workerVars, dispatcher, parentButLoad, stopped>>

Publish ==
  /\ loader.pc = "publish"
  /\ active' = loader.model
  /\ Discard
  /\ LoadReturns
  /\ UNCHANGED <<workerVars, dispatcher, parentButLoad, stopped>>

-----------------------------------------------------------------------------
(* cancel_load, beside the gate.                                           *)

parentButCancel == <<unloadPending, genLock, registered, mailbox, streamVars, gate,
                     loader, unloader>>

BeginCancel ==
  /\ "stop" \in Faults /\ canceller.pc = "idle"
  /\ \E m \in loading :
       /\ loading' = loading \ {m}
       /\ canceller' = [pc |-> "teardown", model |-> m, settle |-> FALSE]
  /\ ForgetModels
  /\ UNCHANGED <<workerVars, dispatcher, parentButCancel, stopped>>

\* A live worker takes the teardown half a second and more.
CancelTeardown ==
  /\ canceller.pc = "teardown"
  /\ \E survives \in MaySurvive : Shutdown(survives)
  /\ canceller' = [canceller EXCEPT !.pc = "clear", !.settle = alive]
  /\ UNCHANGED <<active, loading, parentButCancel, stopped>>

\* Mutant: the mirrors are cleared before the teardown only.
CancelReturns ==
  /\ canceller.pc = "clear" /\ (canceller.settle => loader.pc # "publish")
  /\ canceller' = IdleCancel
  /\ stopped' = canceller.model
  /\ UNCHANGED <<workerVars, active, loading, dispatcher, parentButCancel>>

\* The mirrors are cleared once more.  A load that had passed its last look at
\* the marker has long published by the end of such a teardown.
CancelClearsAgain ==
  /\ canceller.pc = "clear" /\ (canceller.settle => loader.pc # "publish")
  /\ ForgetModels
  /\ canceller' = IdleCancel
  /\ stopped' = canceller.model
  /\ UNCHANGED <<workerVars, loading, dispatcher, parentButCancel>>

-----------------------------------------------------------------------------
(* unload_model, under the lifecycle gate.                                 *)

parentButUnload == <<loading, registered, mailbox, streamVars, loader, canceller,
                     stopped>>

UnloadAt(pc) == unloader' = pc

BeginUnload ==
  /\ "unload" \in Faults
  /\ unloader = "idle" /\ gate = "free" /\ active # NoModel
  /\ IF alive THEN UnloadAt("pending") /\ gate' = "unload" /\ UNCHANGED active
              ELSE ForgetModels /\ UNCHANGED <<gate, unloader>>
  /\ UNCHANGED <<workerVars, unloadPending, genLock, dispatcher, parentButUnload>>

SetPending ==
  /\ unloader = "pending"
  /\ unloadPending' = TRUE
  /\ UnloadAt("drain")
  /\ UNCHANGED <<workerVars, active, genLock, dispatcher, gate, parentButUnload>>

SetDrain ==
  /\ unloader = "drain"
  /\ drainEvent' = ~NoQueue
  /\ UnloadAt("cancel")
  /\ UNCHANGED <<proc, queue, spawned, alive, cmds, resps, cancelEvent, held, job,
                 active, unloadPending, genLock, dispatcher, gate, parentButUnload>>

CancelRunning ==
  /\ unloader = "cancel"
  /\ cancelEvent' = ~NoQueue
  /\ UnloadAt("lock")
  /\ UNCHANGED <<proc, queue, spawned, alive, cmds, resps, drainEvent, held, job,
                 active, unloadPending, genLock, dispatcher, gate, parentButUnload>>

TakeGenLock ==
  /\ unloader = "lock" /\ genLock = Nobody
  /\ genLock' = Unloader
  /\ UnloadAt("wait_idle")
  /\ UNCHANGED <<workerVars, active, unloadPending, dispatcher, gate,
                 parentButUnload>>

\* The generation does not yield, or compare requests do not drain: the
\* worker is ended.
UnloadByKill ==
  /\ Expires
  /\ \/ unloader = "lock" /\ genLock # Nobody
     \/ unloader = "wait_idle" /\ dispatcher /\ registered # {}
  /\ \E survives \in MaySurvive : Shutdown(survives)
  /\ ForgetModels
  /\ genLock' = IF genLock = Unloader THEN Nobody ELSE genLock
  /\ UnloadAt("finally")
  /\ UNCHANGED <<unloadPending, gate, parentButUnload>>

UnloadSeesIdle ==
  /\ unloader = "wait_idle"
  /\ \/ ~dispatcher /\ UnloadAt("send")
     \/ dispatcher /\ registered = {} /\ UnloadAt("stop")
  /\ UNCHANGED <<workerVars, active, unloadPending, genLock, dispatcher, gate,
                 parentButUnload>>

UnloadStopsDispatcher ==
  /\ unloader = "stop"
  /\ dispatcher' = FALSE
  /\ UnloadAt("send")
  /\ UNCHANGED <<workerVars, active, unloadPending, genLock, gate, parentButUnload>>

\* Stale events are dropped, then the command is sent.
SendUnload ==
  /\ unloader = "send"
  /\ IF ~NoQueue
       THEN /\ resps' = <<>> /\ Send(Unload) /\ UnloadAt("reply")
            /\ UNCHANGED <<active, genLock>>
       ELSE /\ ForgetModels /\ genLock' = Nobody /\ UnloadAt("finally")
            /\ UNCHANGED <<cmds, resps>>
  /\ UNCHANGED <<proc, queue, spawned, alive, cancelEvent, drainEvent, held, job,
                 unloadPending, dispatcher, gate, parentButUnload>>

\* Mutant: the mirrors keep the unloaded model.
AwaitUnloadedKeeping ==
  /\ unloader = "reply" /\ resps # <<>>
  /\ resps' = Tail(resps)
  /\ IF Head(resps) = Unloaded
       THEN genLock' = Nobody /\ UnloadAt("finally")
       ELSE UNCHANGED <<genLock, unloader>>
  /\ UNCHANGED <<proc, queue, spawned, alive, cmds, cancelEvent, drainEvent, held,
                 job, active, unloadPending, dispatcher, gate, parentButUnload>>

\* _wait_response("unloaded"): other events are skipped.
AwaitUnloaded ==
  /\ unloader = "reply" /\ resps # <<>>
  /\ resps' = Tail(resps)
  /\ IF Head(resps) = Unloaded
       THEN ForgetModels /\ genLock' = Nobody /\ UnloadAt("finally")
       ELSE UNCHANGED <<active, genLock, unloader>>
  /\ UNCHANGED <<proc, queue, spawned, alive, cmds, cancelEvent, drainEvent, held,
                 job, unloadPending, dispatcher, gate, parentButUnload>>

\* No answer: the local state is cleared anyway.
UnloadFails ==
  /\ unloader = "reply" /\ resps = <<>> /\ (~alive \/ Expires)
  /\ ForgetModels /\ genLock' = Nobody /\ UnloadAt("finally")
  /\ UNCHANGED <<workerVars, unloadPending, dispatcher, gate, parentButUnload>>

ClearPending ==
  /\ unloader = "finally"
  /\ unloadPending' = FALSE
  /\ UnloadAt("undrain")
  /\ UNCHANGED <<workerVars, active, genLock, dispatcher, gate, parentButUnload>>

ClearDrain ==
  /\ unloader = "undrain"
  /\ drainEvent' = FALSE
  /\ UnloadAt("idle") /\ gate' = "free"
  /\ UNCHANGED <<proc, queue, spawned, alive, cmds, resps, cancelEvent, held, job,
                 active, unloadPending, genLock, dispatcher, parentButUnload>>

-----------------------------------------------------------------------------
Unread(r) ==
  \/ \E i \in DOMAIN resps : resps[i] = Token(r)
  \/ r \in Compare /\ \E i \in DOMAIN mailbox[r] : mailbox[r][i] = Token(r)

Emit == SendToken(job.kind = "running" /\ Unread(job.id))

WorkerStep ==
  /\ \/ FinishLoad \/ TakeCommand \/ StartGenerate \/ Emit \/ StopGenerate
     \/ FailGenerate
     \/ "stall" \in Faults /\ StallLoad
     \/ ("crash" \in Faults \/ job = Wedged) /\ Crash
  /\ UNCHANGED parentVars

LockedStep(r)  == SeeIdle(r) \/ StopIdle(r) \/ LockAndSend(r)
CompareStep(r) == StartDispatcher(r) \/ Register(r) \/ StopOwn(r) \/ SendCompare(r)
StreamStep(r)  == ReadEvent(r) \/ LoseWorker(r) \/ DrainEvent(r)
LoadStep   == KillOld \/ CheckBeforeSpawn \/ SpawnWorker \/ CheckAfterSpawn
              \/ AwaitLoaded \/ HandleStall \/ LoadFails \/ Publish
CancelStep == CancelTeardown \/ CancelClearsAgain
UnloadStep == SetPending \/ SetDrain \/ CancelRunning \/ TakeGenLock \/ UnloadByKill
              \/ UnloadSeesIdle \/ UnloadStopsDispatcher \/ SendUnload \/ AwaitUnloaded
              \/ UnloadFails \/ ClearPending \/ ClearDrain

Next ==
  \/ WorkerStep
  \/ \E r \in Locked  : BeginLocked(r) \/ LockedStep(r)
  \/ \E r \in Compare : BeginCompare(r) \/ CompareStep(r)
  \/ \E r \in Streams : StreamStep(r) \/ CloseStream(r)
  \/ DispatchOne \/ DispatcherEnds
  \/ \E m \in Models : BeginLoad(m)
  \/ RefuseForRepair \/ LoadStep
  \/ BeginCancel \/ CancelStep
  \/ BeginUnload \/ UnloadStep

Spec == Init /\ [][Next]_vars

\* The worker's loop and the parent's threads are scheduled again and again;
\* what clients, operators and the hardware do is never forced.
Threads ==
  /\ WF_vars((FinishLoad \/ TakeCommand \/ StartGenerate) /\ UNCHANGED parentVars)
  /\ \A r \in Locked  : WF_vars(LockedStep(r))
  /\ \A r \in Compare : WF_vars(CompareStep(r))
  /\ \A r \in Streams : WF_vars(StreamStep(r))
  /\ WF_vars(DispatchOne)
  /\ WF_vars(LoadStep) /\ WF_vars(CancelStep) /\ WF_vars(UnloadStep)

\* A generation ends: with its text, or at once when no model is there.
Ends == (StopGenerate \/ (held = NoModel /\ FailGenerate)) /\ UNCHANGED parentVars

\* Nothing but the cancel event, or the lack of a model, ends a generation.
EndlessSpec == Spec /\ Threads /\ WF_vars((cancelEvent \/ held = NoModel) /\ Ends)

\* Every generation ends, at the latest with max_new_tokens.
FairSpec == Spec /\ Threads /\ WF_vars(Ends)

-----------------------------------------------------------------------------
(* Properties.                                                             *)

\* No request that was sent to a process takes another's events for its own: the
\* next holder of _gen_lock finds nothing of the one before it, cancelled or
\* not.  One that was sent when the handle of a crashed worker had been dropped
\* goes to the queue that is left, and may read what the one before left there.
OwnEvents == \A r \in Streams : latched[r] # 0 => seen[r] \subseteq {r}

\* While an unload waits for "unloaded", neither a dispatcher nor a locked
\* stream reads the response queue and could eat the reply.
UnloadSoleReader ==
  unloader = "reply" =>
    ~dispatcher /\ \A r \in Locked : phase[r] \notin {"stream", "drain"}

\* The worker never runs a request with another model than the one that was
\* active when the request came in.
GeneratesOnExpected ==
  job.kind = "running" => held \in {expected[job.id], NoModel}

\* Between loads and unloads, the advertised model is the one in the worker.
ActiveIsHeld ==
  gate = "free" /\ active # NoModel /\ alive => held = active

\* Once a cancelled load was reported unloaded, its model is not advertised
\* again before somebody loads it ...
CancelledStaysUnpublished == stopped # NoModel => active # stopped

\* ... and once the load itself returned too, no worker of it is left.
CancelledLeavesNoWorker ==
  stopped # NoModel /\ loader.pc = "idle" => ~alive \/ job = Wedged

\* A load that was cancelled leaves neither a name nor a worker.
CancelledIsGone == CancelledStaysUnpublished /\ CancelledLeavesNoWorker

\* A worker is never started over another one that is still alive.
NoSecondWorker == [][spawned' # spawned => ~alive]_vars

\* An unload ends although generations never end by themselves and no wait
\* of it expires: a generate queued behind the cancelled one does not run.
UnloadEnds == unloader = "pending" ~> unloader = "idle"

\* A stream whose worker died or was replaced ends: it does not block on the
\* queue of the next worker with _gen_lock in its hands.
LostWorkerEndsStream ==
  \A r \in Streams :
    phase[r] = "stream" /\ (~alive \/ ~Current(r)) ~> phase[r] = "done"

\* Every stream ends: its gen_done reaches it, or it sees its worker gone.
StreamsEnd == \A r \in Streams : phase[r] = "stream" ~> phase[r] = "done"
=============================================================================
