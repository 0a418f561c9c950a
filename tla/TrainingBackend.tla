--------------------------- MODULE TrainingBackend ---------------------------
(***************************************************************************)
(* core/training/training.py: the parent of the training worker.  Four     *)
(* kinds of actor share its state: the event loop, on which start, stop    *)
(* and reset run one at a time; the pump thread that reads the worker's    *)
(* events; a watchdog thread per stopped worker; and the workers.          *)
(*                                                                         *)
(* A step is a section under _lock, an event taken from the queue, or a    *)
(* statement of the database.  _run_intent_lock is held from the mark of a *)
(* stop to its put.  Deadlines are choices: a wait may end by them at any  *)
(* time.  A signal ends a worker at once unless it is wedged.              *)
(*                                                                         *)
(* Bounds: MaxRuns runs are started, MaxStops stops are asked for, and     *)
(* MaxFaults of the disturbances that Faults names happen.  A run resumed  *)
(* from an earlier one, and the metrics, are left out.                     *)
(***************************************************************************)
EXTENDS Naturals, Sequences, FiniteSets

CONSTANTS MaxRuns, MaxStops, MaxFaults, Faults

FaultKinds == {"crash",    \* a worker dies without a word
               "wedge",    \* a worker hangs in its driver, out of a signal's reach
               "stall",    \* a model download stalls
               "sidecar",  \* the respawn finds the sidecar reserved, or cannot spawn
               "reset",    \* the user resets the page
               "db"}       \* the database fails

ASSUME MaxRunsAssumption  == MaxRuns \in Nat
ASSUME MaxStopsAssumption == MaxStops \in Nat
ASSUME FaultsAssumption   == Faults \subseteq FaultKinds /\ MaxFaults \in Nat

Runs == 1..MaxRuns

VARIABLES
  worker,    \* the workers ever spawned, each with its queues and its watchdog
  proc,      \* _proc: a worker, or 0
  chan,      \* the worker whose _event_queue and _stop_queue are installed
  flags,     \* the fields of the backend that describe the current run
  payload,   \* _terminal_finalize_payload
  spawning,  \* _spawn_in_progress
  pump,      \* the pump thread
  pumping,   \* _pump_running
  loop,      \* the start, stop or reset the event loop is in
  row,       \* the rows of training_runs
  history    \* the runs stopped, broken, replaced, left unwritten; the bounds' counts

parent == <<proc, chan, flags, payload, spawning, pumping>>
vars   == <<worker, parent, pump, loop, row, history>>

-----------------------------------------------------------------------------
Endings == {"completed", "stopped", "error"}

\* The arguments of a finalization: run 0 is none.
Finals  == [run : 0..MaxRuns, status : Endings, dir : BOOLEAN, clear : BOOLEAN]
NoFinal == [run |-> 0, status |-> "error", dir |-> FALSE, clear |-> FALSE]

WorkerPhases == {"spawned", "loading", "stalled", "loaded", "training", "ended", "wedged",
                 "dead"}
WatchPhases  == {"none", "watch", "final", "create", "claim", "finish", "drop"}
PumpPhases   == {"none", "read", "exit", "persist", "create", "claim", "finish",
                 "last", "payload", "reap", "respawn"}
Events       == {"load", "loaded", "stall", "dir", "complete", "cut", "stopped", "error"}

\* The shape of the state; no run is ever given a third worker.
TypeOK ==
  /\ \A r \in Runs : Cardinality({i \in DOMAIN worker : worker[i].run = r}) <= 2
  /\ \A i \in DOMAIN worker :
       worker[i] \in [run : Runs, phase : WorkerPhases, told : BOOLEAN, out : Seq(Events),
                      watch : WatchPhases, fin : Finals]
  /\ proc \in {0} \cup DOMAIN worker /\ chan \in {0} \cup DOMAIN worker
  /\ flags \in [job : 0..MaxRuns, stop : BOOLEAN, cancel : BOOLEAN, training : BOOLEAN,
                created : BOOLEAN, finalized : BOOLEAN, dir : BOOLEAN, inLoad : BOOLEAN,
                xetUsed : BOOLEAN, respawn : BOOLEAN]
  /\ payload \in Finals
  /\ spawning \in BOOLEAN /\ pumping \in BOOLEAN
  /\ pump \in [pc : PumpPhases, back : {"read", "exit", "end", "gone"}, fin : Finals]
  /\ loop \in {"idle", "spawn", "reset", "row", "install", "mark", "cancel", "put", "watch",
              "clear"}
  /\ row \in [Runs -> [status : {"none", "running"} \cup Endings, dir : BOOLEAN,
                       cancelled : BOOLEAN]]
  /\ history \in [asked : SUBSET Runs, broken : SUBSET Runs, replaced : SUBSET Runs,
                  lost : SUBSET Runs, stops : 0..MaxStops, faults : 0..MaxFaults]

NoPump == [pc |-> "none", back |-> "end", fin |-> NoFinal]
Pump   == [NoPump EXCEPT !.pc = "read"]

\* The fields as start_training resets them for run r.
Fresh(r) == [job |-> r, stop |-> FALSE, cancel |-> FALSE, training |-> r # 0,
             created |-> FALSE, finalized |-> FALSE, dir |-> FALSE, inLoad |-> FALSE,
             xetUsed |-> FALSE, respawn |-> FALSE]

Init ==
  /\ worker = <<>> /\ proc = 0 /\ chan = 0
  /\ flags = Fresh(0) /\ payload = NoFinal
  /\ spawning = FALSE /\ pumping = FALSE
  /\ pump = NoPump /\ loop = "idle"
  /\ row = [r \in Runs |-> [status |-> "none", dir |-> FALSE, cancelled |-> FALSE]]
  /\ history = [asked |-> {}, broken |-> {}, replaced |-> {}, lost |-> {},
                stops |-> 0, faults |-> 0]

\* A disturbance, within the bound; h is the history otherwise.
Fault(kind, h) ==
  /\ kind \in Faults /\ history.faults < MaxFaults
  /\ history' = [h EXCEPT !.faults = @ + 1]

Alive(i) == i # 0 /\ worker[i].phase # "dead"

\* is_training_active, as far as its fields tell.
Active == spawning \/ Alive(proc) \/ (~flags.stop /\ flags.training)

NewWorker(r) == [run |-> r, phase |-> "spawned", told |-> FALSE, out |-> <<>>,
                 watch |-> "none", fin |-> NoFinal]

\* The workers after a signal to worker i.
Signalled(i) ==
  IF i # 0 /\ worker[i].phase # "wedged"
    THEN [worker EXCEPT ![i].phase = "dead"] ELSE worker

\* The queues of the installed worker are dropped for those of the next.
Forgotten ==
  IF chan = 0 THEN worker ELSE [worker EXCEPT ![chan].out = <<>>, ![chan].told = FALSE]

-----------------------------------------------------------------------------
(* The workers.                                                            *)

Emit(i, e, p) == worker' = [worker EXCEPT ![i].out = Append(@, e), ![i].phase = p]
Broken(i)     == [history EXCEPT !.broken = @ \cup {worker[i].run}]

BeginModelLoad(i) ==
  worker[i].phase = "spawned" /\ Emit(i, "load", "loading") /\ UNCHANGED history

StallDownload(i) ==
  worker[i].phase = "loading" /\ Emit(i, "stall", "stalled") /\ Fault("stall", Broken(i))

\* Sent however the load ended; a stalled one may still end by itself.
EndModelLoad(i) ==
  worker[i].phase \in {"loading", "stalled"} /\ Emit(i, "loaded", "loaded")
  /\ UNCHANGED history

BeginTraining(i) ==
  worker[i].phase = "loaded" /\ Emit(i, "dir", "training") /\ UNCHANGED history

\* Between two steps the worker may fail, or end because it was told to: its
\* "complete" then names the stop or does not.
Between(i) == worker[i].phase \in {"spawned", "loaded", "training"}

Finish(i) ==
  /\ \/ worker[i].phase = "training" /\ ~worker[i].told /\ Emit(i, "complete", "ended")
     \/ Between(i) /\ worker[i].told /\ \E e \in {"cut", "stopped"} : Emit(i, e, "ended")
  /\ UNCHANGED history

Fail(i) == Between(i) /\ Emit(i, "error", "ended") /\ history' = Broken(i)

Exit(i) ==
  worker[i].phase = "ended" /\ worker' = [worker EXCEPT ![i].phase = "dead"]
  /\ UNCHANGED history

Wedge(i) ==
  /\ worker[i].phase \in {"training", "ended"}
  /\ worker' = [worker EXCEPT ![i].phase = "wedged"]
  /\ Fault("wedge", IF worker[i].phase = "ended" THEN history ELSE Broken(i))

Crash(i) ==
  worker[i].phase \in {"spawned", "loading", "stalled", "loaded", "training"}
  /\ worker' = [worker EXCEPT ![i].phase = "dead"] /\ Fault("crash", Broken(i))

WorkerStep(i) ==
  /\ \/ BeginModelLoad(i) \/ StallDownload(i) \/ EndModelLoad(i) \/ BeginTraining(i)
     \/ Finish(i) \/ Fail(i) \/ Exit(i) \/ Wedge(i) \/ Crash(i)
  /\ UNCHANGED <<parent, pump, loop, row>>

-----------------------------------------------------------------------------
(* The row of a run, as create_run, finish_run, mark_run_cancel_requested  *)
(* and update_run_output_dir (storage/studio_db.py:735-929) leave it.      *)

IntentFree == loop \notin {"cancel", "put"}

\* _ensure_db_run_created; the flag is published with the row.
EnsureCreated ==
  \/ (flags.created \/ flags.job = 0) /\ UNCHANGED <<flags, row, history>>
  \/ /\ ~flags.created /\ flags.job # 0
     /\ flags' = [flags EXCEPT !.created = TRUE]
     /\ row' = [row EXCEPT ![flags.job] =
                  [status |-> "running", dir |-> flags.dir /\ ~flags.cancel,
                   cancelled |-> flags.cancel]]
     /\ UNCHANGED history
  \/ ~flags.created /\ flags.job # 0 /\ Fault("db", history) /\ UNCHANGED <<flags, row>>

\* finish_run of storage/studio_db.py, tried three times: the first ending of
\* a row counts, and a cancelled row offers no directory.  When every try
\* fails the claim is given back.
WriteEnding(f) ==
  \/ /\ row' = [row EXCEPT ![f.run] =
                  IF @.status # "running" THEN @
                  ELSE [status    |-> f.status,
                        dir       |-> ~(@.cancelled \/ f.clear)
                                      /\ (f.dir \/ (f.status # "completed" /\ @.dir)),
                        cancelled |-> @.cancelled \/ f.clear]]
     /\ UNCHANGED <<flags, history>>
  \/ /\ Fault("db", [history EXCEPT !.lost = @ \cup {f.run}])
     /\ flags' = [flags EXCEPT !.finalized = @ /\ flags.job # f.run]
     /\ UNCHANGED row

\* _terminal_finalize_kwargs.  Without a checkpoint of the current step, a
\* stop that wanted to save is an error.
TerminalFinals ==
  IF payload.run = flags.job /\ payload.run # 0
    THEN {payload}
    ELSE {[run |-> flags.job, status |-> s, dir |-> flags.dir /\ ~flags.cancel,
           clear |-> flags.cancel] :
             s \in IF ~flags.stop THEN {"error"}
                   ELSE IF flags.cancel THEN {"stopped"} ELSE {"stopped", "error"}}

\* Who may finalize: once per run, and only the run that is current.
MayClaim(r) == flags.job = r /\ r # 0 /\ flags.created /\ ~flags.finalized

-----------------------------------------------------------------------------
(* The pump: _pump_loop and _handle_event.                                 *)

Queue == worker[chan].out

PumpTo(p, back, f) == pump' = [pc |-> p, back |-> back, fin |-> f]

\* Where the pump goes on after a finalization.
Return ==
  /\ pump' = CASE pump.back = "read" -> Pump
               [] pump.back = "exit" -> [NoPump EXCEPT !.pc = "exit"]
               [] OTHER              -> NoPump
  /\ pumping' = (pumping /\ pump.back # "end")

HandleLoad ==
  /\ flags' = [flags EXCEPT !.inLoad = TRUE]
  /\ UNCHANGED <<payload, pump>>

HandleLoaded ==
  /\ flags' = [flags EXCEPT !.inLoad = FALSE]
  /\ UNCHANGED <<payload, pump>>

\* A cancelled run drops the directory its worker announces.
HandleDir ==
  /\ flags' = [flags EXCEPT !.dir = ~flags.cancel]
  /\ IF flags.created /\ ~flags.cancel
       THEN PumpTo("persist", pump.pc, [NoFinal EXCEPT !.run = flags.job])
       ELSE UNCHANGED pump
  /\ UNCHANGED payload

\* Mutant: a stall is met with a respawn however often it happens.
HandleEveryStall ==
  /\ flags' = [flags EXCEPT !.xetUsed = TRUE, !.respawn = @ \/ flags.inLoad]
  /\ UNCHANGED <<payload, pump>>

\* _handle_stall_event: the first stall of a model load asks for a respawn.
HandleStall ==
  /\ flags' = IF flags.inLoad /\ ~flags.xetUsed
                THEN [flags EXCEPT !.xetUsed = TRUE, !.respawn = TRUE] ELSE flags
  /\ UNCHANGED <<payload, pump>>

\* A terminal event fixes the ending; the row is created if it is not there.
Settle(f) ==
  /\ payload' = f
  /\ flags' = [flags EXCEPT !.training = FALSE, !.dir = f.dir]
  /\ PumpTo(IF flags.created THEN "claim" ELSE "create", pump.pc, f)

HandleEnd(e) ==
  \E d \in IF e = "complete" THEN {TRUE} ELSE BOOLEAN :
    Settle([run |-> flags.job,
            status |-> IF flags.stop \/ e = "stopped" THEN "stopped" ELSE "completed",
            dir |-> d /\ ~flags.cancel, clear |-> flags.cancel])

HandleError ==
  \E s \in IF flags.stop THEN {"stopped", "error"} ELSE {"error"} :
    Settle([run |-> flags.job, status |-> s, dir |-> flags.dir /\ ~flags.cancel,
            clear |-> flags.cancel])

HandleEvent ==
  /\ pump.pc \in {"read", "exit"} /\ Queue # <<>>
  /\ LET e == Head(Queue)
         w == IF e = "stall" THEN Signalled(proc) ELSE worker IN
       /\ worker' = [w EXCEPT ![chan].out = Tail(@)]
       /\ CASE e = "load"   -> HandleLoad
            [] e = "loaded" -> HandleLoaded
            [] e = "stall"  -> HandleStall
            [] e = "dir"    -> HandleDir
            [] e = "error"  -> HandleError
            [] OTHER        -> HandleEnd(e)
  /\ UNCHANGED <<proc, chan, spawning, pumping, loop, row, history>>

\* _persist_output_dir: the update comes after _lock was released.
Persist ==
  /\ pump.pc = "persist"
  /\ row' = [row EXCEPT ![pump.fin.run].dir =
               @ \/ (row[pump.fin.run].status = "running" /\ ~row[pump.fin.run].cancelled)]
  /\ pump' = [NoPump EXCEPT !.pc = pump.back]
  /\ UNCHANGED <<worker, parent, loop, history>>

\* The watchdog dropped the handle: the pump sees it at the top of its loop,
\* or fails on it after an empty read and leaves _pump_running set.
PumpEnds ==
  /\ pump.pc = "read" /\ proc = 0
  /\ pump' = NoPump
  /\ \/ pumping' = FALSE
     \/ Queue = <<>> /\ UNCHANGED pumping
  /\ UNCHANGED <<worker, proc, chan, flags, payload, spawning, loop, row, history>>

\* The worker was alive no more after an empty read.
SeeExit ==
  /\ pump.pc = "read" /\ proc # 0 /\ ~Alive(proc)
  /\ pump' = [NoPump EXCEPT !.pc = "exit"]
  /\ UNCHANGED <<worker, parent, loop, row, history>>

\* Mutant: what is left in the queue is not looked at.
MarkDoneUndrained ==
  /\ pump.pc = "exit" /\ ~flags.respawn
  /\ flags' = [flags EXCEPT !.training = FALSE]
  /\ pump' = [NoPump EXCEPT !.pc = "last"]
  /\ UNCHANGED <<worker, proc, chan, payload, spawning, pumping, loop, row, history>>

MarkDone ==
  /\ pump.pc = "exit" /\ Queue = <<>> /\ ~flags.respawn
  /\ flags' = [flags EXCEPT !.training = FALSE]
  /\ pump' = [NoPump EXCEPT !.pc = "last"]
  /\ UNCHANGED <<worker, proc, chan, payload, spawning, pumping, loop, row, history>>

PumpCreate ==
  /\ pump.pc \in {"create", "last"} /\ IntentFree
  /\ EnsureCreated
  /\ pump' = [pump EXCEPT !.pc = IF @ = "create" THEN "claim" ELSE "payload"]
  /\ UNCHANGED <<worker, proc, chan, payload, spawning, pumping, loop>>

PumpPayload ==
  /\ pump.pc = "payload"
  /\ \E f \in TerminalFinals :
       /\ PumpTo("claim", "end", f)
       /\ flags' = [flags EXCEPT !.dir = @ /\ ~f.clear]
  /\ UNCHANGED <<worker, proc, chan, payload, spawning, pumping, loop, row, history>>

\* _finalize_run_in_db claims under _lock ...
PumpClaim ==
  /\ pump.pc = "claim"
  /\ IF MayClaim(pump.fin.run)
       THEN /\ flags' = [flags EXCEPT !.finalized = TRUE]
            /\ pump' = [pump EXCEPT !.pc = "finish"] /\ UNCHANGED pumping
       ELSE Return /\ UNCHANGED flags
  /\ UNCHANGED <<worker, proc, chan, payload, spawning, loop, row, history>>

\* ... and writes after it.
PumpFinish ==
  /\ pump.pc = "finish"
  /\ WriteEnding(pump.fin)
  /\ Return
  /\ UNCHANGED <<worker, proc, chan, payload, spawning, loop>>

-----------------------------------------------------------------------------
(* _respawn_worker_disable_xet, on the pump thread.                        *)

BeginRespawn ==
  /\ pump.pc = "exit" /\ Queue = <<>> /\ flags.respawn
  /\ flags' = [flags EXCEPT !.respawn = FALSE]
  /\ pump' = [NoPump EXCEPT !.pc = "reap"]
  /\ UNCHANGED <<worker, proc, chan, payload, spawning, pumping, loop, row, history>>

Reap ==
  /\ pump.pc = "reap"
  /\ worker' = Signalled(proc)
  /\ spawning' = TRUE
  /\ pump' = [NoPump EXCEPT !.pc = "respawn"]
  /\ UNCHANGED <<proc, chan, flags, payload, pumping, loop, row, history>>

\* The new worker has queues of its own and gets a pump of its own.
Respawn ==
  /\ pump.pc = "respawn"
  /\ worker' = Append(Forgotten, NewWorker(flags.job))
  /\ proc' = Len(worker') /\ chan' = Len(worker')
  /\ flags' = [flags EXCEPT !.inLoad = FALSE]
  /\ spawning' = FALSE /\ pumping' = TRUE
  /\ pump' = Pump
  /\ history' = [history EXCEPT !.replaced = @ \cup {flags.job}]
  /\ UNCHANGED <<payload, loop, row>>

\* A reserved sidecar ends the run, and so does a spawn that fails, which
\* also clears _pump_running.
RespawnFails ==
  /\ pump.pc = "respawn"
  /\ Fault("sidecar", [history EXCEPT !.broken = @ \cup {flags.job}])
  /\ spawning' = FALSE /\ pumping' \in {pumping, FALSE}
  /\ flags' = [flags EXCEPT !.training = FALSE]
  /\ PumpTo("create", "gone", [NoFinal EXCEPT !.run = flags.job])
  /\ UNCHANGED <<worker, proc, chan, payload, loop, row>>

-----------------------------------------------------------------------------
(* The stop watchdog of worker i.                                          *)

WatchAt(i, p) == worker' = [worker EXCEPT ![i].watch = p]

\* The worker is gone, or another one took its place.
WatchEnds(i) ==
  /\ worker[i].watch = "watch" /\ (proc # i \/ ~Alive(i))
  /\ WatchAt(i, "none")
  /\ UNCHANGED <<parent, pump, loop, row, history>>

\* Mutant: the kill is taken for the end, nothing is recorded after it.
KillOnly(i) ==
  /\ worker[i].watch = "watch" /\ proc = i /\ Alive(i)
  /\ worker' = [Signalled(i) EXCEPT ![i].watch = "none"]
  /\ UNCHANGED <<parent, pump, loop, row, history>>

\* A deadline passed: force_terminate, with its joins.
Escalate(i) ==
  /\ worker[i].watch = "watch" /\ proc = i /\ Alive(i)
  /\ worker' = [Signalled(i) EXCEPT ![i].watch = "final"]
  /\ UNCHANGED <<parent, pump, loop, row, history>>

\* _finalize_stopped_after_escalation, for its own worker and run only.
WatchFinal(i) ==
  /\ worker[i].watch = "final"
  /\ IF proc # i \/ flags.job # worker[i].run
       THEN WatchAt(i, "none") /\ UNCHANGED flags
       ELSE /\ flags' = [flags EXCEPT !.training = FALSE]
            /\ \E f \in TerminalFinals :
                 worker' = [worker EXCEPT ![i].watch = "create", ![i].fin = f]
  /\ UNCHANGED <<proc, chan, payload, spawning, pumping, pump, loop, row, history>>

WatchCreate(i) ==
  /\ worker[i].watch = "create" /\ IntentFree
  /\ EnsureCreated
  /\ WatchAt(i, "claim")
  /\ UNCHANGED <<proc, chan, payload, spawning, pumping, pump, loop>>

\* The directory is cleared whether or not the run is still current.
WatchClaim(i) ==
  LET f == worker[i].fin IN
  /\ worker[i].watch = "claim"
  /\ flags' = [flags EXCEPT !.dir = @ /\ ~f.clear, !.finalized = @ \/ MayClaim(f.run)]
  /\ WatchAt(i, IF MayClaim(f.run) THEN "finish" ELSE "drop")
  /\ UNCHANGED <<proc, chan, payload, spawning, pumping, pump, loop, row, history>>

WatchFinish(i) ==
  /\ worker[i].watch = "finish"
  /\ WriteEnding(worker[i].fin)
  /\ WatchAt(i, "drop")
  /\ UNCHANGED <<proc, chan, payload, spawning, pumping, pump, loop>>

WatchDrop(i) ==
  /\ worker[i].watch = "drop"
  /\ proc' = IF proc = i THEN 0 ELSE proc
  /\ worker' = [worker EXCEPT ![i].watch = "none", ![i].fin = NoFinal]
  /\ UNCHANGED <<chan, flags, payload, spawning, pumping, pump, loop, row, history>>

-----------------------------------------------------------------------------
(* start_training.                                                         *)

LoopAt(p) == loop' = p

\* Mutant: a prior pump that is still there is left alone.
StartBesidePump ==
  /\ loop = "idle" /\ flags.job < MaxRuns /\ ~Active
  /\ LoopAt("spawn") /\ pumping' = FALSE /\ spawning' = TRUE
  /\ UNCHANGED <<worker, proc, chan, flags, payload, pump, row, history>>

\* The prior pump is joined; one that will not end refuses the start.
Start ==
  /\ loop = "idle" /\ flags.job < MaxRuns /\ ~Active
  /\ pump.pc = "none"
  /\ LoopAt("spawn") /\ pumping' = FALSE /\ spawning' = TRUE
  /\ UNCHANGED <<worker, proc, chan, flags, payload, pump, row, history>>

SpawnTrainer ==
  /\ loop = "spawn"
  /\ \/ /\ LoopAt("reset") /\ UNCHANGED <<spawning, history>>
        /\ worker' = Append(worker, NewWorker(flags.job + 1))
     \/ /\ Fault("sidecar", history)
        /\ LoopAt("idle") /\ spawning' = FALSE /\ UNCHANGED worker
  /\ UNCHANGED <<proc, chan, flags, payload, pumping, pump, row>>

\* The assignments between the spawn and the row.
ResetFields ==
  /\ loop = "reset"
  /\ flags' = Fresh(flags.job + 1) /\ payload' = NoFinal
  /\ LoopAt("row")
  /\ UNCHANGED <<worker, proc, chan, spawning, pumping, pump, row, history>>

CreateRow ==
  /\ loop = "row"
  /\ EnsureCreated
  /\ LoopAt("install")
  /\ UNCHANGED <<worker, proc, chan, payload, spawning, pumping, pump>>

\* Handles and pump are installed together.
Install ==
  /\ loop = "install"
  /\ worker' = Forgotten
  /\ proc' = Len(worker) /\ chan' = Len(worker)
  /\ pump' = Pump /\ pumping' = TRUE /\ spawning' = FALSE
  /\ LoopAt("idle")
  /\ UNCHANGED <<flags, payload, row, history>>

-----------------------------------------------------------------------------
(* stop_training, behind the route's look at is_training_active.           *)

\* stop_training(save = True): _should_stop and the put, as one section.
StopAndSave ==
  /\ loop = "idle" /\ Active /\ history.stops < MaxStops
  /\ LoopAt("put")
  /\ history' = [history EXCEPT !.stops = @ + 1]
  /\ UNCHANGED <<worker, parent, pump, row>>

\* stop_training(save = False): the row is marked first, the put follows.
Cancel ==
  /\ loop = "idle" /\ Active /\ history.stops < MaxStops
  /\ LoopAt("mark")
  /\ history' = [history EXCEPT !.stops = @ + 1]
  /\ UNCHANGED <<worker, parent, pump, row>>

MarkStop ==
  /\ loop = "mark"
  /\ EnsureCreated
  /\ LoopAt("cancel")
  /\ UNCHANGED <<worker, proc, chan, payload, spawning, pumping, pump>>

\* A cancel is refused once the worker's ending is known or recorded.
CancelRun ==
  /\ loop = "cancel"
  /\ \/ /\ payload.run # flags.job /\ row[flags.job].status = "running"
        /\ row' = [row EXCEPT ![flags.job].cancelled = TRUE, ![flags.job].dir = FALSE]
        /\ flags' = [flags EXCEPT !.stop = TRUE, !.cancel = TRUE, !.dir = FALSE]
        /\ history' = [history EXCEPT !.asked = @ \cup {flags.job}]
        /\ LoopAt("put")
     \/ /\ payload.run = flags.job \/ row[flags.job].status # "running"
        /\ LoopAt("idle") /\ UNCHANGED <<flags, row, history>>
     \/ Fault("db", history) /\ LoopAt("idle") /\ UNCHANGED <<flags, row>>
  /\ UNCHANGED <<worker, proc, chan, payload, spawning, pumping, pump>>

PutStop ==
  /\ loop = "put"
  /\ flags' = [flags EXCEPT !.stop = TRUE]
  /\ worker' = [worker EXCEPT ![chan].told = TRUE]
  /\ history' = [history EXCEPT !.asked = @ \cup {flags.job}]
  /\ LoopAt("watch")
  /\ UNCHANGED <<proc, chan, payload, spawning, pumping, pump, row>>

\* _start_stop_watchdog.
StartWatchdog ==
  /\ loop = "watch"
  /\ worker' = IF Alive(proc) /\ worker[proc].watch = "none"
                 THEN [worker EXCEPT ![proc].watch = "watch"] ELSE worker
  /\ LoopAt("idle")
  /\ UNCHANGED <<parent, pump, row, history>>

-----------------------------------------------------------------------------
(* /reset, and the pollers of is_training_active.                          *)

\* While a run is active only a cancelled one may be reset, by force.
Reset ==
  /\ loop = "idle" /\ (Active => flags.cancel) /\ Fault("reset", history)
  /\ worker' = IF Active THEN Signalled(proc) ELSE worker
  /\ LoopAt("clear")
  /\ UNCHANGED <<parent, pump, row>>

ClearState ==
  /\ loop = "clear"
  /\ flags' = [flags EXCEPT !.stop = FALSE, !.training = FALSE]
  /\ LoopAt("idle")
  /\ UNCHANGED <<worker, proc, chan, payload, spawning, pumping, pump, row, history>>

EnsurePumpAlive ==
  /\ loop = "idle" /\ ~spawning
  /\ pumping /\ proc # 0 /\ pump.pc = "none"
  /\ pump' = Pump
  /\ UNCHANGED <<worker, parent, loop, row, history>>

-----------------------------------------------------------------------------
PumpStep ==
  \/ HandleEvent \/ Persist \/ PumpEnds \/ SeeExit \/ MarkDone \/ PumpCreate \/ PumpPayload
  \/ PumpClaim \/ PumpFinish \/ BeginRespawn \/ Reap \/ Respawn \/ RespawnFails

WatchStep(i) ==
  \/ WatchEnds(i) \/ Escalate(i) \/ WatchFinal(i) \/ WatchCreate(i) \/ WatchClaim(i)
  \/ WatchFinish(i) \/ WatchDrop(i)

LoopStep ==
  \/ SpawnTrainer \/ ResetFields \/ CreateRow \/ Install
  \/ MarkStop \/ CancelRun \/ PutStop \/ StartWatchdog
  \/ ClearState

Next ==
  \/ \E i \in DOMAIN worker : WorkerStep(i) \/ WatchStep(i)
  \/ PumpStep
  \/ Start \/ LoopStep
  \/ StopAndSave \/ Cancel
  \/ Reset \/ EnsurePumpAlive

Spec == Init /\ [][Next]_vars

MaxWorkers == 2 * MaxRuns

\* The threads and the event loop run on, a worker that sent its last event
\* exits unless it is wedged.  Training itself may take for ever.
FairSpec ==
  /\ Spec
  /\ WF_vars(PumpStep) /\ WF_vars(LoopStep)
  /\ \A i \in 1..MaxWorkers :
       /\ WF_vars(i \in DOMAIN worker /\ WatchStep(i))
       /\ WF_vars(i \in DOMAIN worker /\ (Exit(i) \/ Wedge(i))
                  /\ UNCHANGED <<parent, pump, loop, row>>)

-----------------------------------------------------------------------------
(* Properties.                                                             *)

\* What is recorded is what happened to the run: stopped only if somebody
\* stopped it, an error only if something broke or a stop cut it off;
\* whichever of the pump and the watchdog wrote it, and whatever run the
\* shared fields described by then.
RecordIsTrue ==
  \A r \in Runs :
    /\ row[r].status = "stopped" => r \in history.asked
    /\ row[r].status = "error" => r \in history.asked \cup history.broken

\* Once a stop without save was accepted, the row never offers a directory
\* to resume from again.
CancelledOffersNothing == \A r \in Runs : row[r].cancelled => ~row[r].dir

\* A run's row tells what happened to it and offers what it may.
RowIsTrue == RecordIsTrue /\ CancelledOffersNothing

\* Two workers train at once only if one of them is wedged.
OneTrainer ==
  \A i, j \in DOMAIN worker :
    i # j /\ Alive(i) /\ Alive(j) => "wedged" \in {worker[i].phase, worker[j].phase}

Settled(r) == row[r].status # "running" \/ r \in history.lost

\* A run that was asked to stop, or has no worker left, gets its ending
\* written, unless its worker was replaced or the database refused it.
RunEnds ==
  \A r \in Runs :
    (/\ row[r].status = "running"
     /\ r \in history.asked \/ \A i \in DOMAIN worker : worker[i].run = r => ~Alive(i))
    ~> (Settled(r) \/ r \in history.replaced)

=============================================================================
