--------------------------- MODULE InferenceWorker ---------------------------
(***************************************************************************)
(* core/inference/worker.py and the channel it shares with its parent: the *)
(* subprocess that loads one model and runs its commands one after the     *)
(* other.  Only the process behind the parent's handle (_proc) is kept; a  *)
(* handle is a number, so that a stream can tell one process from the next.*)
(* InferenceOrchestrator extends this module with the parent's threads.    *)
(***************************************************************************)
EXTENDS Naturals, Sequences, FiniteSets

CONSTANTS Locked,    \* requests of generate_chat_response (under _gen_lock)
          Compare,   \* requests of generate_with_adapter_control (dispatched)
          Models,
          NoModel

ASSUME StreamsAssumption == Locked \cap Compare = {}
ASSUME ModelsAssumption  == NoModel \notin Models

Streams == Locked \cup Compare

VARIABLES
  proc,         \* _proc: 0 is None, n the n-th process spawned
  queue,        \* whose _cmd_queue, _resp_queue and events are there, 0 is None
  spawned,      \* how many processes were spawned
  alive,        \* _proc.is_alive()
  cmds,         \* _cmd_queue
  resps,        \* _resp_queue
  cancelEvent,  \* _cancel_event
  drainEvent,   \* _drain_event
  held,         \* the model in the worker's memory
  job           \* what the worker is doing

channel    == <<cmds, resps, cancelEvent, drainEvent>>
workerVars == <<proc, queue, spawned, alive, channel, held, job>>

-----------------------------------------------------------------------------
(* Messages.                                                               *)

Generate(r) == [type |-> "generate", id |-> r]
Unload      == [type |-> "unload"]
Reset       == [type |-> "reset"]
Commands    == {Generate(r) : r \in Streams} \cup {Unload, Reset}

Token(r)    == [type |-> "token", id |-> r]
GenDone(r)  == [type |-> "gen_done", id |-> r]
GenError(r) == [type |-> "gen_error", id |-> r]
Loaded(ok)  == [type |-> "loaded", success |-> ok]
Stall       == [type |-> "stall"]
Unloaded    == [type |-> "unloaded"]
ResetAck    == [type |-> "reset_ack"]

StreamEvents == UNION {{Token(r), GenDone(r), GenError(r)} : r \in Streams}
Responses    == StreamEvents \cup {Loaded(TRUE), Loaded(FALSE), Stall, Unloaded,
                                   ResetAck}

EndsStream(e) == e.type \in {"gen_done", "gen_error"}

\* What a worker may be busy with.  A generate that passed the first look at
\* the drain event is "dequeued" until it cleared the cancel event.
Idling      == [kind |-> "idle"]
Loading(m)  == [kind |-> "loading", model |-> m]
Dequeued(r) == [kind |-> "dequeued", id |-> r]
Running(r)  == [kind |-> "running", id |-> r]
Wedged      == [kind |-> "wedged"]     \* it outlived a SIGKILL
Jobs == {Idling, Wedged} \cup {Loading(m) : m \in Models}
        \cup {Dequeued(r) : r \in Streams} \cup {Running(r) : r \in Streams}

WorkerTypeOK ==
  /\ proc \in Nat /\ spawned \in Nat /\ proc <= spawned
  /\ queue \in Nat /\ queue <= spawned
  /\ alive \in BOOLEAN
  /\ cmds \in Seq(Commands)
  /\ resps \in Seq(Responses)
  /\ cancelEvent \in BOOLEAN /\ drainEvent \in BOOLEAN
  /\ held \in Models \cup {NoModel}
  /\ job \in Jobs

\* Before the first load there is no process and there are no queues.
WorkerInit ==
  /\ proc = 0 /\ queue = 0 /\ spawned = 0 /\ alive = FALSE
  /\ cmds = <<>> /\ resps = <<>>
  /\ cancelEvent = FALSE /\ drainEvent = FALSE
  /\ held = NoModel
  /\ job = Idling

-----------------------------------------------------------------------------
(* The worker's steps.  All of them need a live process.                   *)

Reply(e) == resps' = Append(resps, e)

\* _handle_load: the model is in, or the load failed and the worker stays.
FinishLoad ==
  /\ alive /\ job.kind = "loading"
  /\ \/ held' = job.model /\ Reply(Loaded(TRUE))
     \/ held' = NoModel /\ Reply(Loaded(FALSE))
  /\ job' = Idling
  /\ UNCHANGED <<proc, queue, spawned, alive, cmds, cancelEvent, drainEvent>>

\* The download watchdog reports that nothing moves; the load hangs on.
StallLoad ==
  /\ alive /\ job.kind = "loading"
  /\ \A i \in DOMAIN resps : resps[i] # Stall
  /\ Reply(Stall)
  /\ UNCHANGED <<proc, queue, spawned, alive, cmds, cancelEvent, drainEvent, held,
                 job>>

\* The command loop takes the next command.  A generate dequeued while an
\* unload drains is answered without being run.
TakeCommand ==
  /\ alive /\ job = Idling /\ cmds # <<>>
  /\ cmds' = Tail(cmds)
  /\ LET c == Head(cmds) IN
       \/ /\ c.type = "generate" /\ drainEvent
          /\ Reply(GenDone(c.id))
          /\ UNCHANGED <<cancelEvent, held, job>>
       \/ /\ c.type = "generate" /\ ~drainEvent
          /\ job' = Dequeued(c.id)
          /\ UNCHANGED <<resps, cancelEvent, held>>
       \/ /\ c = Unload
          /\ held' = NoModel
          /\ Reply(Unloaded)
          /\ UNCHANGED <<cancelEvent, job>>
       \/ /\ c = Reset
          /\ cancelEvent' = TRUE
          /\ Reply(ResetAck)
          /\ UNCHANGED <<held, job>>
  /\ UNCHANGED <<proc, queue, spawned, alive, drainEvent>>

\* Mutant: the drain is not looked at again after the clear.
StartGenerateUnchecked ==
  /\ alive /\ job.kind = "dequeued"
  /\ cancelEvent' = FALSE
  /\ job' = Running(job.id)
  /\ UNCHANGED <<proc, queue, spawned, alive, cmds, resps, drainEvent, held>>

\* cancel_event.clear(), then the second look at the drain event: a cancel
\* that the clear wiped out belonged to an unload that had set the drain.
StartGenerate ==
  /\ alive /\ job.kind = "dequeued"
  /\ cancelEvent' = FALSE
  /\ IF drainEvent THEN job' = Idling /\ Reply(GenDone(job.id))
                   ELSE job' = Running(job.id) /\ UNCHANGED resps
  /\ UNCHANGED <<proc, queue, spawned, alive, cmds, drainEvent, held>>

\* _handle_generate sends one more token.  unread bounds the queue: the
\* previous token of the request was read.
SendToken(unread) ==
  /\ alive /\ job.kind = "running"
  /\ held # NoModel /\ ~cancelEvent /\ ~unread
  /\ Reply(Token(job.id))
  /\ UNCHANGED <<proc, queue, spawned, alive, cmds, cancelEvent, drainEvent, held,
                 job>>

\* The token loop stops: the text is complete, or the cancel event is set.
StopGenerate ==
  /\ alive /\ job.kind = "running" /\ held # NoModel
  /\ Reply(GenDone(job.id))
  /\ job' = Idling
  /\ UNCHANGED <<proc, queue, spawned, alive, cmds, cancelEvent, drainEvent, held>>

\* The backend raises: out of memory, or no model to generate with.
FailGenerate ==
  /\ alive /\ job.kind = "running"
  /\ Reply(GenError(job.id))
  /\ job' = Idling
  /\ UNCHANGED <<proc, queue, spawned, alive, cmds, cancelEvent, drainEvent, held>>

\* The process dies: killed under memory pressure, or by a native fault.
Crash ==
  /\ alive
  /\ alive' = FALSE
  /\ job' = Idling
  /\ held' = NoModel
  /\ UNCHANGED <<proc, queue, spawned, channel>>

-----------------------------------------------------------------------------
(* What the parent does to the process and the queues.                     *)

\* _send_cmd refuses only when there is no queue.
NoQueue == queue = 0

\* ... and puts the command on the one that is there, whoever reads it.
Send(c) == cmds' = Append(cmds, c)

\* _spawn_subprocess: a fresh process with fresh queues and events.
Spawn(m) ==
  /\ spawned' = spawned + 1
  /\ proc' = spawned + 1 /\ queue' = spawned + 1
  /\ alive' = TRUE
  /\ cmds' = <<>> /\ resps' = <<>>
  /\ cancelEvent' = FALSE /\ drainEvent' = FALSE
  /\ held' = NoModel
  /\ job' = Loading(m)

\* _shutdown_subprocess once the dispatcher is stopped: the process is gone
\* and the handle and the queues are dropped.
Kill ==
  /\ proc' = 0 /\ queue' = 0 /\ alive' = FALSE
  /\ cmds' = <<>> /\ resps' = <<>>
  /\ cancelEvent' = FALSE /\ drainEvent' = FALSE
  /\ held' = NoModel
  /\ job' = Idling
  /\ UNCHANGED spawned

\* _shutdown_subprocess when the process outlives SIGKILL: the handle stays.
\* The process still holds its memory; if it ever wakes up, it exits.
Survive ==
  /\ alive
  /\ cancelEvent' = TRUE
  /\ resps' = <<>>
  /\ job' = Wedged
  /\ UNCHANGED <<proc, queue, spawned, alive, cmds, drainEvent, held>>

=============================================================================
