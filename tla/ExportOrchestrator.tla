------------------------- MODULE ExportOrchestrator -------------------------
(***************************************************************************)
(* The export orchestrator (core/export/orchestrator.py), its worker       *)
(* process (core/export/worker.py), the cancel of routes/export.py and the *)
(* teardown that a start of training or a chat load does to free the GPU   *)
(* (routes/training.py, routes/inference.py).                              *)
(*                                                                         *)
(* An operation holds _lock from its first line to its last, so there is   *)
(* one at a time; a request that still waits for the lock has done         *)
(* nothing.  The cancel and the teardown take no lock.                     *)
(***************************************************************************)
EXTENDS Integers, Sequences, FiniteSets

CONSTANTS
  Checkpoints,
  NoCheckpoint,
  ExportTypes,
  MaxOps,        \* operations
  MaxFaults      \* cancels, teardowns, crashes, wedges, refusals and timeouts

ASSUME CheckpointAssumption == NoCheckpoint \notin Checkpoints
ASSUME MaxOpsAssumption == MaxOps \in Nat \ {0}

VARIABLES
  proc,         \* _proc, 0 for None
  respQueue,    \* _resp_queue, named by its worker, 0 for None
  checkpoint,   \* current_checkpoint
  active,       \* _export_active
  cancelAsked,  \* _cancel_requested
  lastOp,       \* _last_op
  op,           \* the operation that holds _lock; history: was it cancelled before
                \* it was recorded, and whose answer it took
  stop,         \* _shutdown_subprocess, run by the operation or the teardown
  canceller,    \* the worker that cancel_export is killing, 0 if it is not
  worker,       \* a worker process: its state, its checkpoint, its command queue
  resps,        \* its response queue
  spawned,      \* how many workers there were
  faults,       \* history: how many things went wrong
  begun,        \* history: how many operations there were
  late,         \* history: operations whose wait ended before their answer came
  amid          \* history: workers started while a teardown ran

handles == <<proc, respQueue>>
workerVars == <<worker, resps>>
history == <<begun, late, amid>>
vars == <<handles, checkpoint, active, cancelAsked, lastOp, op, stop, canceller,
          workerVars, spawned, faults, history>>

OpIds == 1 .. MaxOps
Kinds == [type : {"load"}, of : Checkpoints]
  \cup [type : {"export"}, of : ExportTypes]
  \cup [type : {"cleanup"}, of : {NoCheckpoint}]
NoOp == [pc |-> "none", kind |-> [type |-> "none", of |-> NoCheckpoint], ok |-> FALSE,
         meant |-> FALSE, took |-> 0]
Shutdown == [type |-> "shutdown", of |-> NoCheckpoint]
Stoppers == {"op", "teardown"}

Init ==
  /\ proc = 0
  /\ respQueue = 0
  /\ checkpoint = NoCheckpoint
  /\ active = FALSE
  /\ cancelAsked = FALSE
  /\ lastOp = [seq |-> 0, status |-> "none"]
  /\ op = NoOp
  /\ stop = [x \in Stoppers |-> "off"]
  /\ canceller = 0
  /\ worker = [w \in OpIds |-> [state |-> "none", holds |-> NoCheckpoint, cmds |-> <<>>]]
  /\ resps = [w \in OpIds |-> <<>>]
  /\ spawned = 0
  /\ faults = 0
  /\ begun = 0
  /\ late = {}
  /\ amid = {}

Fault == faults < MaxFaults /\ faults' = faults + 1
Alive(w) == w # 0 /\ worker[w].state \notin {"none", "dead"}
Goes(place) == op' = [op EXCEPT !.pc = place]
Fails(place) == op' = [op EXCEPT !.pc = place, !.ok = FALSE]

Corpse == [state |-> "dead", holds |-> NoCheckpoint, cmds |-> <<>>]

\* Signals do not kill a worker that is wedged in a system call.
Killed(w) ==
  worker' = IF Alive(w) /\ worker[w].state # "wedged"
            THEN [worker EXCEPT ![w] = Corpse] ELSE worker

-----------------------------------------------------------------------------
(* The operations.                                                          *)

\* cleanup_memory does not reset the flag either.
ForgetCancel(kind) == cancelAsked' = IF kind.type = "cleanup" THEN cancelAsked ELSE FALSE

\* An export without a live worker is refused and is no step.
Begin(kind) ==
  /\ op.pc = "none"
  /\ begun < MaxOps
  /\ kind.type \in {"export", "cleanup"} => Alive(proc)
  /\ begun' = begun + 1
  /\ ForgetCancel(kind)
  /\ active' = TRUE
  /\ op' = [NoOp EXCEPT !.pc = "begun", !.kind = kind]
  /\ UNCHANGED <<handles, checkpoint, lastOp, stop, canceller, workerVars, spawned, faults,
                 late, amid>>

\* cleanup_memory without a live worker.
CleanNothing ==
  /\ op.pc = "none"
  /\ ~Alive(proc)
  /\ checkpoint # NoCheckpoint
  /\ checkpoint' = NoCheckpoint
  /\ UNCHANGED <<handles, active, cancelAsked, lastOp, op, stop, canceller, workerVars, spawned,
                 faults, history>>

\* A transformers install is replacing the sidecar.
Refused ==
  /\ Fault
  /\ op.pc = "begun"
  /\ op.kind.type # "cleanup"
  /\ Fails("record")
  /\ UNCHANGED <<handles, checkpoint, active, cancelAsked, lastOp, stop, canceller, workerVars,
                 spawned, history>>

\* A load stops the worker there is.
LoadStops ==
  /\ op.pc = "begun"
  /\ op.kind.type = "load"
  /\ Goes("clearing")
  /\ stop' = [stop EXCEPT !["op"] = "enter"]
  /\ UNCHANGED <<handles, checkpoint, active, cancelAsked, lastOp, canceller, workerVars,
                 spawned, faults, history>>

\* The new process starts with the load to do.
Spawn ==
  /\ op.pc = "spawn"
  /\ spawned' = spawned + 1
  /\ proc' = spawned + 1
  /\ respQueue' = spawned + 1
  /\ worker' = [worker EXCEPT ![spawned + 1].state = "running",
                              ![spawned + 1].cmds = <<[kind |-> op.kind, by |-> begun]>>]
  /\ Goes("wait")
  /\ amid' = IF stop["teardown"] = "off" THEN amid ELSE amid \cup {spawned + 1}
  /\ UNCHANGED <<checkpoint, active, cancelAsked, lastOp, stop, canceller, resps, faults, begun,
                 late>>

SpawnFails ==
  /\ Fault
  /\ op.pc = "spawn"
  /\ checkpoint' = NoCheckpoint
  /\ Fails("record")
  /\ UNCHANGED <<handles, active, cancelAsked, lastOp, stop, canceller, workerVars, spawned,
                 history>>

Sent(w, kind, by) ==
  IF Alive(w) THEN [worker EXCEPT ![w].cmds = Append(@, [kind |-> kind, by |-> by])] ELSE worker

\* _send_cmd: an export or a cleanup is put on the queue of the worker, or
\* fails at once when a teardown has taken the queue away.
Send ==
  /\ op.pc = "begun"
  /\ op.kind.type # "load"
  /\ respQueue # 0
  /\ worker' = Sent(respQueue, op.kind, begun)
  /\ Goes("wait")
  /\ UNCHANGED <<handles, checkpoint, active, cancelAsked, lastOp, stop, canceller, resps,
                 spawned, faults, history>>

\* Where an operation goes when its wait fails, by an error or without an answer.
Wrecked ==
  /\ Goes(IF op.kind.type = "export" THEN "record" ELSE "stopping")
  /\ stop' = IF op.kind.type = "export" THEN stop ELSE [stop EXCEPT !["op"] = "enter"]

SendFails ==
  /\ op.pc = "begun"
  /\ op.kind.type # "load"
  /\ respQueue = 0
  /\ Wrecked
  /\ UNCHANGED <<handles, checkpoint, active, cancelAsked, lastOp, canceller, workerVars, spawned,
                 faults, history>>

\* Mutant: any answer will do.
ExpectedAny(r) == r.kind.type \in {"load", "export", "cleanup"}

\* The types of the answers: "loaded", "export_<type>_done", "cleanup_done".
Expected(r) ==
  /\ r.kind.type = op.kind.type
  /\ r.kind.type = "export" => r.kind.of = op.kind.of

Outlived == late' = late \cup {[by |-> begun, kind |-> op.kind]}

\* _wait_response reads one answer: an error ends the wait, and what is not
\* expected is skipped.  Nothing in an answer says whose it is.
ReadAnswer ==
  /\ op.pc = "wait"
  /\ respQueue # 0
  /\ resps[respQueue] # <<>>
  /\ resps' = [resps EXCEPT ![respQueue] = Tail(@)]
  /\ LET r == Head(resps[respQueue]) IN
       /\ \/ /\ r.as = "error"
             /\ Wrecked
          \/ /\ r.as # "error"
             /\ op' = IF Expected(r)
                      THEN [op EXCEPT !.pc = "answered", !.ok = (r.as = "done"), !.took = r.by]
                      ELSE op
             /\ UNCHANGED stop
       /\ IF r.by # begun /\ (r.as = "error" \/ Expected(r)) THEN Outlived ELSE UNCHANGED late
  /\ UNCHANGED <<handles, checkpoint, active, cancelAsked, lastOp, canceller, worker,
                 spawned, faults, begun, amid>>

\* Nothing to read, and the worker is not alive.
ReadCrash ==
  /\ op.pc = "wait"
  /\ respQueue # 0 => resps[respQueue] = <<>>
  /\ ~Alive(proc)
  /\ Wrecked
  /\ UNCHANGED <<handles, checkpoint, active, cancelAsked, lastOp, canceller, workerVars, spawned,
                 faults, history>>

\* The deadline: the worker is slow, or wedged for good.
WaitTimesOut ==
  /\ op.pc = "wait"
  /\ \/ Fault
     \/ (\E w \in OpIds : worker[w].state = "wedged") /\ UNCHANGED faults
  /\ Outlived
  /\ Wrecked
  /\ UNCHANGED <<handles, checkpoint, active, cancelAsked, lastOp, canceller, workerVars, spawned,
                 begun, amid>>

\* What each operation does with its answer.
Answered ==
  /\ op.pc = "answered"
  /\ checkpoint' = IF op.kind.type # "load" THEN checkpoint
                   ELSE IF op.ok THEN op.kind.of ELSE NoCheckpoint
  /\ IF op.kind.type = "cleanup"
     THEN Goes("stopping") /\ stop' = [stop EXCEPT !["op"] = "enter"]
     ELSE Goes("record") /\ UNCHANGED stop
  /\ UNCHANGED <<handles, active, cancelAsked, lastOp, canceller, workerVars, spawned, faults,
                 history>>

\* _record_op_finished ...
Record ==
  /\ op.pc = "record"
  /\ lastOp' = [seq |-> begun,
                status |-> IF cancelAsked THEN "cancelled"
                           ELSE IF op.ok THEN "success" ELSE "error"]
  /\ Goes("recorded")
  /\ UNCHANGED <<handles, checkpoint, active, cancelAsked, stop, canceller, workerVars, spawned,
                 faults, history>>

\* Mutant: an operation that failed is still said to run.
OverOnSuccess ==
  /\ op.pc = "recorded"
  /\ active' = ~op.ok
  /\ op' = NoOp
  /\ UNCHANGED <<handles, checkpoint, cancelAsked, lastOp, stop, canceller, workerVars, spawned,
                 faults, history>>

\* ... then the operation is over.
Over ==
  /\ op.pc = "recorded"
  /\ active' = FALSE
  /\ op' = NoOp
  /\ UNCHANGED <<handles, checkpoint, cancelAsked, lastOp, stop, canceller, workerVars, spawned,
                 faults, history>>

-----------------------------------------------------------------------------
(* _shutdown_subprocess, run by the operation and by the teardown.  _proc is *)
(* read again after each wait.                                               *)

StopGoes(x, place) == stop' = [stop EXCEPT ![x] = place]

\* Mutant: a load does not look at the answer of the shutdown.
StoppedAnyway(x, dead) ==
  /\ stop' = [stop EXCEPT ![x] = "off"]
  /\ checkpoint' = IF x = "teardown" \/ op.pc = "stopping" THEN NoCheckpoint ELSE checkpoint
  /\ IF x = "teardown" THEN UNCHANGED op
     ELSE IF op.pc = "clearing" THEN Goes("spawn")
     ELSE Goes("record")

\* The worker is dead, or a survivor: what the caller does with it.  A load
\* does not start a second worker over a survivor.
Stopped(x, dead) ==
  /\ stop' = [stop EXCEPT ![x] = "off"]
  /\ checkpoint' = IF x = "teardown" \/ op.pc = "stopping" THEN NoCheckpoint ELSE checkpoint
  /\ IF x = "teardown" THEN UNCHANGED op
     ELSE IF op.pc = "clearing" /\ dead THEN Goes("spawn")
     ELSE Goes("record")

\* No live worker: the handle is let go of ...
StopSees(x) ==
  /\ stop[x] \in {"enter", "check"}
  /\ ~Alive(proc)
  /\ StopGoes(x, IF stop[x] = "enter" THEN "gone" ELSE "ended")
  /\ UNCHANGED <<handles, checkpoint, active, cancelAsked, lastOp, op, canceller, workerVars,
                 spawned, faults, history>>

\* ... a moment later, and the queues with it when this shutdown ended it.
StopEnds(x) ==
  /\ stop[x] \in {"gone", "ended"}
  /\ proc' = 0
  /\ respQueue' = IF stop[x] = "ended" THEN 0 ELSE respQueue
  /\ Stopped(x, TRUE)
  /\ UNCHANGED <<active, cancelAsked, lastOp, canceller, workerVars, spawned, faults, history>>

\* A live worker: drain its answers, ask it to end and wait.
StopAsks(x) ==
  /\ stop[x] = "enter"
  /\ Alive(proc)
  /\ resps' = [resps EXCEPT ![respQueue] = <<>>]
  /\ worker' = Sent(respQueue, Shutdown, 0)
  /\ StopGoes(x, "force")
  /\ UNCHANGED <<handles, checkpoint, active, cancelAsked, lastOp, op, canceller, spawned, faults,
                 history>>

\* The wait is over: terminate and kill what _proc names now.
StopForces(x) ==
  /\ stop[x] = "force"
  /\ Killed(proc)
  /\ StopGoes(x, "check")
  /\ UNCHANGED <<handles, checkpoint, active, cancelAsked, lastOp, op, canceller, resps,
                 spawned, faults, history>>

StopSurvivor(x) ==
  /\ stop[x] = "check"
  /\ Alive(proc)
  /\ Stopped(x, FALSE)
  /\ UNCHANGED <<handles, active, cancelAsked, lastOp, canceller, workerVars, spawned, faults,
                 history>>

\* Training or a chat load needs the GPU.
Teardown ==
  /\ Fault
  /\ stop["teardown"] = "off"
  /\ checkpoint # NoCheckpoint \/ active
  /\ StopGoes("teardown", "enter")
  /\ UNCHANGED <<handles, checkpoint, active, cancelAsked, lastOp, op, canceller, workerVars,
                 spawned, history>>

\* cancel_export: set the flag and take the process ...
Cancel ==
  /\ Fault
  /\ canceller = 0
  /\ cancelAsked' = TRUE
  /\ canceller' = IF Alive(proc) THEN proc ELSE 0
  /\ op' = IF op.pc \in {"none", "recorded"} THEN op ELSE [op EXCEPT !.meant = TRUE]
  /\ UNCHANGED <<handles, checkpoint, active, lastOp, stop, workerVars, spawned, history>>

\* ... then kill it.
CancelKills ==
  /\ canceller # 0
  /\ Killed(canceller)
  /\ canceller' = 0
  /\ UNCHANGED <<handles, checkpoint, active, cancelAsked, lastOp, op, stop, resps, spawned,
                 faults, history>>

-----------------------------------------------------------------------------
(* The worker.                                                              *)

\* One command, the load it was started with among them, and its answer: an
\* error in that load also ends the worker.
Work(w) ==
  /\ worker[w].state = "running"
  /\ worker[w].cmds # <<>>
  /\ LET c == Head(worker[w].cmds)
         idle == [worker[w] EXCEPT !.cmds = Tail(@)] IN
       \/ /\ c.kind.type = "shutdown"
          /\ worker' = [worker EXCEPT ![w] = Corpse]
          /\ UNCHANGED resps
       \/ /\ c.kind.type # "shutdown"
          /\ \E as \in {"done", "failed", "error"} :
               /\ resps' = [resps EXCEPT ![w] = Append(@, [kind |-> c.kind, by |-> c.by, as |-> as])]
               /\ worker' = [worker EXCEPT ![w] =
                     CASE c.kind.type = "load" /\ as = "error" -> Corpse
                       [] c.kind.type \in {"load", "cleanup"} /\ as = "done" ->
                            [idle EXCEPT !.holds = c.kind.of]
                       [] OTHER -> idle]
  /\ UNCHANGED <<handles, checkpoint, active, cancelAsked, lastOp, op, stop, canceller, spawned,
                 faults, history>>

\* It crashes, or wedges.
Fall(w) ==
  /\ Fault
  /\ worker[w].state = "running"
  /\ \E fall \in {Corpse, [worker[w] EXCEPT !.state = "wedged"]} :
       worker' = [worker EXCEPT ![w] = fall]
  /\ UNCHANGED <<handles, checkpoint, active, cancelAsked, lastOp, op, stop, canceller, resps,
                 spawned, history>>

\* A wedged worker is let go of by its system call.
Unwedge(w) ==
  /\ worker[w].state = "wedged"
  /\ worker' = [worker EXCEPT ![w] = Corpse]
  /\ UNCHANGED <<handles, checkpoint, active, cancelAsked, lastOp, op, stop, canceller, resps,
                 spawned, faults, history>>

-----------------------------------------------------------------------------

OpStep ==
  \/ Refused \/ LoadStops \/ Spawn \/ SpawnFails \/ Send \/ SendFails
  \/ ReadAnswer \/ ReadCrash \/ WaitTimesOut \/ Answered \/ Record \/ Over

StopStep(x) ==
  StopSees(x) \/ StopEnds(x) \/ StopAsks(x) \/ StopForces(x) \/ StopSurvivor(x)

Next ==
  \/ \E kind \in Kinds : Begin(kind)
  \/ CleanNothing
  \/ OpStep
  \/ \E x \in Stoppers : StopStep(x)
  \/ Teardown \/ Cancel \/ CancelKills
  \/ \E w \in OpIds : Work(w) \/ Fall(w) \/ Unwedge(w)

\* The threads of the server run; the worker handles its commands unless it
\* falls, and a wait has a deadline.
Fairness ==
  /\ WF_vars(OpStep)
  /\ \A x \in Stoppers : WF_vars(StopStep(x))
  /\ WF_vars(CancelKills)
  /\ \A w \in OpIds : WF_vars(Work(w))

Spec == Init /\ [][Next]_vars /\ Fairness

-----------------------------------------------------------------------------
(* What is promised.                                                        *)

Places == {"none", "begun", "clearing", "spawn", "wait", "answered", "stopping",
           "record", "recorded"}
StopPlaces == {"off", "enter", "gone", "force", "check", "ended"}
Operations == [pc : Places, kind : Kinds \cup {NoOp.kind}, ok : BOOLEAN, meant : BOOLEAN,
               took : 0 .. MaxOps]
Bye == [kind |-> Shutdown, by |-> 0]
Commands == [kind : Kinds, by : OpIds] \cup {Bye}
Workers == [state : {"none", "running", "wedged", "dead"},
            holds : Checkpoints \cup {NoCheckpoint}, cmds : Seq(Commands)]
Responses == [kind : Kinds, by : OpIds, as : {"done", "failed", "error"}]

\* Types of all variables; no more workers are started than there were operations.
TypeOK ==
  /\ {proc, respQueue, canceller} \subseteq 0 .. MaxOps
  /\ checkpoint \in Checkpoints \cup {NoCheckpoint}
  /\ {active, cancelAsked} \subseteq BOOLEAN
  /\ lastOp \in [seq : 0 .. MaxOps, status : {"none", "success", "error", "cancelled"}]
  /\ op \in Operations
  /\ stop \in [Stoppers -> StopPlaces]
  /\ worker \in [OpIds -> Workers]
  /\ resps \in [OpIds -> Seq(Responses)]
  /\ begun \in 0 .. MaxOps
  /\ spawned \in 0 .. begun
  /\ late \subseteq [by : OpIds, kind : Kinds]
  /\ amid \subseteq OpIds

\* No worker is lost: whatever the operations and the cancels do to the one
\* handle between each other's waits, a live worker is the one it names.  Only
\* a worker started while a teardown runs without the lock can be lost.
NoLostWorker == \A w \in OpIds : Alive(w) => w = proc \/ w \in amid

\* A poller that sees no operation running sees the result of the last one.
InactiveIsRecorded == ~active => lastOp.seq = begun

\* An operation is recorded as cancelled when it was cancelled while it ran,
\* and not for the cancel of another.  (cleanup_memory keeps an old flag.)
CancelIsRecorded ==
  op.pc = "recorded" /\ op.kind.type # "cleanup" =>
    (lastOp.status = "cancelled" <=> op.meant)

\* What an operation takes for its answer is its own, or one that an earlier
\* operation of the same kind left behind when its wait ended without it (by the
\* deadline, or by the answer of yet another): never the answer to another kind
\* of command.
OwnAnswer ==
  op.took \notin {0, begun} =>
    \E l \in late : l.by = op.took /\ l.kind = op.kind

\* Between operations, the checkpoint on show is the one the live worker holds.
NameIsHeld ==
  op.pc = "none" /\ Alive(proc) /\ checkpoint # NoCheckpoint => worker[proc].holds = checkpoint

\* An operation ends, and lets go of the lock, whatever becomes of its worker.
OperationEnds == active ~> ~active

\* The worker that holds the GPU is the one on show.
WorkerIsHeld == TypeOK /\ NoLostWorker /\ NameIsHeld

\* The outcome of an operation is its own and is there when it looks over.
OutcomeIsTrue == InactiveIsRecorded /\ CancelIsRecorded /\ OwnAnswer
=============================================================================
