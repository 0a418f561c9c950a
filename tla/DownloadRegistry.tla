--------------------------- MODULE DownloadRegistry ---------------------------
(***************************************************************************)
(* hub/utils/download_registry.py with the threads that drive it in        *)
(* hub/services/download_lifecycle.py: the downloads of one repository, as *)
(* a whole (key Whole) or one GGUF variant at a time.                      *)
(*                                                                         *)
(* Starts, cancels and delete reservations are coroutines of the event     *)
(* loop without an await between their registry calls, so one of them runs *)
(* at a time; what overtakes them are the threads that watch the workers,  *)
(* which also retry over HTTP, and the workers themselves.  A registry     *)
(* call holds the registry's lock and is one step.                         *)
(*                                                                         *)
(* Bounds: MaxRuns downloads are started, each spawns at most two workers  *)
(* (its own and the HTTP retry), MaxDeletes deletes of one scope overlap.  *)
(* The job table is smaller than max_terminal: nothing is evicted.         *)
(***************************************************************************)
EXTENDS Naturals, Sequences, FiniteSets

CONSTANTS Keys,       \* the job keys that are downloaded
          Scopes,     \* what is deleted: variants, or Whole
          Whole,      \* the key without a variant, the scope None
          Cancellable, \* the keys whose downloads are cancelled
          MaxRuns,
          MaxDeletes,
          Shutdowns   \* may the server shut down

ASSUME MaxRunsAssumption == MaxRuns \in Nat
ASSUME MaxDeletesAssumption == MaxDeletes \in Nat
ASSUME ShutdownsAssumption == Shutdowns \in BOOLEAN

Transports     == {"http", "xet"}
ActiveStates   == {"running", "cancelling"}
TerminalStates == {"complete", "cancelled", "error"}
NoCancel       == MaxRuns + 1
MaxWorkers     == 2 * MaxRuns

VARIABLES
  job,        \* _jobs
  slot,       \* _repo_active
  transport,  \* _metadata: the transport of each job
  gen,        \* _generations
  seq,        \* _generation_seq
  pending,    \* _pending_cancel: NoCancel, or a generation (0: whichever)
  process,    \* _processes: a worker, or 0
  deleting,   \* _deleting
  worker,     \* the workers ever spawned, with the thread that watches each
  loop,       \* the start or the cancel the event loop is in
  deletes,    \* how many deletes of each scope are removing files
  marker,     \* the cancel markers on disk
  server,     \* how far terminate_all is
  doomed,     \* its snapshot: the live workers, the jobs without one
  stopped     \* the last run of each key that was told to stop (history)

registry == <<job, slot, transport, gen, seq, pending, process, deleting>>
vars == <<registry, worker, loop, deletes, marker, server, doomed, stopped>>

-----------------------------------------------------------------------------
ExitStates  == {"done", "failed", "killed", "trapped"}
WatchStates == {"born", "wait", "refused", "asked", "dropped", "mark", "unmark", "loop",
                "claim", "spawn", "over"}
Workers == [key : Keys, gen : 1..MaxRuns, transport : Transports,
            state : {"live"} \cup ExitStates, watch : WatchStates, asked : BOOLEAN]
NoHandler == [pc |-> "idle", key |-> Whole, gen |-> 0, proc |-> 0]

\* The registry and its threads keep their shape, and no run has a third worker.
TypeOK ==
  /\ job \in [Keys -> {"idle"} \cup ActiveStates \cup TerminalStates]
  /\ slot \subseteq Keys
  /\ transport \in [Keys -> Transports]
  /\ gen \in [Keys -> 0..MaxRuns] /\ seq \in 0..MaxRuns
  /\ pending \in [Keys -> 0..NoCancel]
  /\ process \in [Keys -> 0..MaxWorkers]
  /\ deleting \subseteq Scopes /\ deletes \in [Scopes -> 0..MaxDeletes]
  /\ worker \in Seq(Workers) /\ Len(worker) <= MaxWorkers
  /\ loop \in [pc : {"idle", "unmark", "launch", "register", "found", "kill"},
               key : Keys \cup {Whole}, gen : 0..MaxRuns, proc : 0..MaxWorkers]
  /\ marker \subseteq Keys
  /\ server \in {"up", "stopping", "off"}
  /\ doomed \in [live : SUBSET (1..MaxWorkers), idle : SUBSET Keys]
  /\ stopped \in [Keys -> 0..MaxRuns]

Init ==
  /\ job = [k \in Keys |-> "idle"]
  /\ slot = {}
  /\ transport = [k \in Keys |-> "http"]
  /\ gen = [k \in Keys |-> 0] /\ seq = 0
  /\ pending = [k \in Keys |-> NoCancel]
  /\ process = [k \in Keys |-> 0]
  /\ deleting = {} /\ deletes = [s \in Scopes |-> 0]
  /\ worker = <<>>
  /\ loop = NoHandler
  /\ marker = {}
  /\ server = "up" /\ doomed = [live |-> {}, idle |-> {}]
  /\ stopped = [k \in Keys |-> 0]

Active(k)          == job[k] \in ActiveStates
Armed(k)           == pending[k] # NoCancel
GenMatches(k, g)   == g \in {0, gen[k]}
CancelRequested(k) == Armed(k) \/ job[k] = "cancelling"
Live(i)            == i # 0 /\ worker[i].state = "live"
Exited(i)          == i # 0 /\ worker[i].state # "live"

-----------------------------------------------------------------------------
(* Registry calls.                                                         *)

\* Mutant: a cancel that was armed outlives the run it was meant for.
KeepPending(k, s) ==
  /\ job' = [job EXCEPT ![k] = s]
  /\ slot' = slot \ {k}
  /\ UNCHANGED pending

\* set_job with a terminal state.
Settle(k, s) ==
  /\ job' = [job EXCEPT ![k] = s]
  /\ slot' = slot \ {k}
  /\ pending' = [pending EXCEPT ![k] = NoCancel]

\* set_error_unless_cancelled.
FailedState(k) ==
  IF job[k] = "cancelling" \/ (Armed(k) /\ GenMatches(k, pending[k]))
    THEN "cancelled" ELSE "error"

\* Mutant: any two variants may be written at once.
AnyVariants(k, t, other) == k # Whole /\ other # Whole

\* Two variants may be written at once, over the same transport.
Concurrent(k, t, other) == k # Whole /\ other # Whole /\ transport[other] = t

\* Mutant: only a delete of the whole repository keeps a download out.
WholeDeleted(k) == Whole \in deleting

BeingDeleted(k) == Whole \in deleting \/ k \in deleting

Conflicts(k, t) ==
  \E other \in slot \ {k} : Active(other) /\ ~Concurrent(k, t, other)

\* claim publishes the run of key k over transport t as generation g.
Claim(k, t, g) ==
  /\ job' = [job EXCEPT ![k] = "running"]
  /\ slot' = {o \in slot : Active(o)} \cup {k}
  /\ transport' = [transport EXCEPT ![k] = t]
  /\ gen' = [gen EXCEPT ![k] = g]

SpawnedWorker(k, t) ==
  [key |-> k, gen |-> gen[k], transport |-> t, state |-> "live", watch |-> "born",
   asked |-> FALSE]

\* What is left of a worker whose thread is over: whether it completed.
Gone(w) == [w EXCEPT !.watch = "over", !.asked = FALSE, !.transport = "http",
                     !.state = IF @ = "done" THEN @ ELSE "failed"]

WatchAt(i, w) ==
  worker' = [worker EXCEPT ![i] = IF w = "over" THEN Gone(@) ELSE [@ EXCEPT !.watch = w]]

\* Mutant: a cancel that was armed before the worker came is not looked at.
RegisterAlways(i) ==
  LET k == worker[i].key IN
  /\ worker[i].watch = "born"
  /\ WatchAt(i, "wait") /\ process' = [process EXCEPT ![k] = i]
  /\ loop' = IF loop.pc = "register" /\ loop.key = k THEN NoHandler ELSE loop
  /\ UNCHANGED <<job, slot, transport, gen, seq, pending, deleting, deletes, marker, server,
                 doomed, stopped>>

\* register_process: take the worker, or refuse it because a cancel is armed.
Register(i) ==
  LET k == worker[i].key
      refused == Armed(k) /\ GenMatches(k, pending[k]) IN
  /\ worker[i].watch = "born"
  /\ \/ ~refused /\ WatchAt(i, "wait") /\ process' = [process EXCEPT ![k] = i]
        /\ pending' = [pending EXCEPT ![k] = NoCancel] /\ UNCHANGED <<job, slot>>
     \/ refused /\ WatchAt(i, "refused") /\ Settle(k, "cancelled") /\ UNCHANGED process
  /\ loop' = IF loop.pc = "register" /\ loop.key = k THEN NoHandler ELSE loop
  /\ UNCHANGED <<transport, gen, seq, deleting, deletes, marker, server, doomed, stopped>>

\* The refused worker gets its marker and is killed.
KillRefused(i) ==
  /\ worker[i].watch = "refused"
  /\ marker' = marker \cup {worker[i].key}
  /\ WatchAt(i, "over")   \* killed and reaped
  /\ UNCHANGED <<registry, loop, deletes, server, doomed, stopped>>

-----------------------------------------------------------------------------
(* Starting a download: download_model_response and launch_worker.         *)

Start(k, t) ==
  /\ server = "up" /\ loop.pc = "idle" /\ seq < MaxRuns
  /\ ~BeingDeleted(k) /\ ~Conflicts(k, t) /\ ~Active(k)
  /\ Claim(k, t, seq + 1)
  /\ seq' = seq + 1
  /\ loop' = [NoHandler EXCEPT !.pc = "unmark", !.key = k]
  /\ UNCHANGED <<pending, process, deleting, worker, deletes, marker, server, doomed, stopped>>

ClearMarker ==
  /\ loop.pc = "unmark"
  /\ marker' = marker \ {loop.key}
  /\ loop' = [loop EXCEPT !.pc = "launch"]
  /\ UNCHANGED <<registry, worker, deletes, server, doomed, stopped>>

\* Popen, which may fail.
Launch ==
  /\ loop.pc = "launch"
  /\ \/ /\ worker' = Append(worker, SpawnedWorker(loop.key, transport[loop.key]))
        /\ loop' = [loop EXCEPT !.pc = "register"]
        /\ UNCHANGED <<job, slot, pending>>
     \/ /\ Settle(loop.key, "error")
        /\ loop' = NoHandler
        /\ UNCHANGED worker
  /\ UNCHANGED <<transport, gen, seq, process, deleting, deletes, marker, server, doomed,
                 stopped>>

-----------------------------------------------------------------------------
(* Cancelling one: cancel_worker, with a generation or (0) without.        *)

\* The process is read in one registry call and used in a later one.
FindProcess(k, g) ==
  /\ server = "up" /\ loop.pc = "idle" /\ k \in Cancellable /\ gen[k] # 0
  /\ loop' = [pc |-> "found", key |-> k, gen |-> g, proc |-> process[k]]
  /\ UNCHANGED <<registry, worker, deletes, marker, server, doomed, stopped>>

\* The answer is "cancelling": the run of this key is told to stop.
Cancelling(k) ==
  /\ job' = [job EXCEPT ![k] = "cancelling"]
  /\ stopped' = [stopped EXCEPT ![k] = gen[k]]

\* Mutant: mark_pending_cancel arms the cancel whatever run it is for.
MarkAnyRun(k, g) ==
  Active(k) /\ Cancelling(k) /\ pending' = [pending EXCEPT ![k] = g]

MarkPendingCancel(k, g) ==
  Active(k) /\ GenMatches(k, g) /\ Cancelling(k) /\ pending' = [pending EXCEPT ![k] = g]

\* No worker yet, or one that exited and may be retried: arm a cancel.
ArmCancel ==
  /\ loop.pc = "found"
  /\ loop.proc = 0 \/ (Exited(loop.proc) /\ transport[loop.key] = "xet")
  /\ MarkPendingCancel(loop.key, loop.gen)
  /\ loop' = NoHandler
  /\ UNCHANGED <<slot, transport, gen, seq, process, deleting, worker, deletes, marker,
                 server, doomed>>

\* A live worker: request_cancel authorises its kill.
RequestCancel ==
  /\ loop.pc = "found" /\ Live(loop.proc)
  /\ process[loop.key] = loop.proc /\ GenMatches(loop.key, loop.gen) /\ Active(loop.key)
  /\ Cancelling(loop.key)
  /\ loop' = [loop EXCEPT !.pc = "kill"]
  /\ UNCHANGED <<slot, transport, gen, seq, pending, process, deleting, worker, deletes,
                 marker, server, doomed>>

Killed(ws) == worker' = [i \in DOMAIN worker |->
                           IF i \in ws /\ Live(i) THEN [worker[i] EXCEPT !.state = "killed"]
                                                  ELSE worker[i]]

Kill ==
  /\ loop.pc = "kill"
  /\ Killed({loop.proc})
  /\ loop' = NoHandler
  /\ UNCHANGED <<registry, deletes, marker, server, doomed, stopped>>

\* None of these: the answer is the state of the job.
LeaveToWatcher ==
  LET k == loop.key IN
  /\ loop.pc = "found"
  /\ \/ ~Active(k) \/ ~GenMatches(k, loop.gen)
     \/ Exited(loop.proc) /\ transport[k] = "http"
     \/ Live(loop.proc) /\ process[k] # loop.proc
  /\ loop' = NoHandler
  /\ UNCHANGED <<registry, worker, deletes, marker, server, doomed, stopped>>

-----------------------------------------------------------------------------
(* The worker and the thread that watches it.                              *)

\* It completes, fails, is killed from outside (out of memory), or traps a
\* stop signal (EXIT_CANCELLED, SIGPIPE).
Exit(i) ==
  /\ Live(i)
  /\ \E s \in ExitStates : worker' = [worker EXCEPT ![i].state = s]
  /\ UNCHANGED <<registry, loop, deletes, marker, server, doomed, stopped>>

\* finalize_worker_exit: was the stop ours?
AskCancel(i) ==
  /\ worker[i].watch = "wait" /\ Exited(i)
  /\ worker' = [worker EXCEPT ![i].watch = "asked",
                              ![i].asked = CancelRequested(worker[i].key)]
  /\ UNCHANGED <<registry, loop, deletes, marker, server, doomed, stopped>>

DropProcess(i) ==
  /\ worker[i].watch = "asked"
  /\ process' = [process EXCEPT ![worker[i].key] = 0]
  /\ WatchAt(i, "dropped")
  /\ UNCHANGED <<job, slot, transport, gen, seq, pending, deleting, loop, deletes, marker,
                 server, doomed, stopped>>

\* classify_exit.
ExitCancelled(i) == worker[i].state = "trapped" \/ (worker[i].state = "killed" /\ worker[i].asked)

\* Mutant: the HTTP worker is retried too.
AnyTransport(i) == TRUE

\* The recursion guard: only an XET worker is retried.
Retryable(i) == worker[i].transport = "xet"

\* The terminal state it stands for; an error over XET is left to the HTTP
\* retry, which first gives the slot away.
Classify(i) ==
  LET k == worker[i].key
      erred == worker[i].state # "done" /\ ~ExitCancelled(i) IN
  /\ worker[i].watch = "dropped"
  /\ \/ worker[i].state = "done" /\ Settle(k, "complete") /\ WatchAt(i, "unmark")
     \/ ExitCancelled(i) /\ Settle(k, "cancelled") /\ WatchAt(i, "mark")
     \/ erred /\ ~Retryable(i) /\ Settle(k, "error") /\ WatchAt(i, "over")
     \/ erred /\ Retryable(i) /\ slot' = slot \ {k} /\ WatchAt(i, "loop")
        /\ UNCHANGED <<job, pending>>
  /\ stopped' = [stopped EXCEPT ![k] = IF worker[i].state = "trapped" THEN gen[k] ELSE @]
  /\ UNCHANGED <<transport, gen, seq, process, deleting, loop, deletes, marker, server, doomed>>

\* The marker is written or cleared after the state is set.
WriteMarker(i) ==
  /\ worker[i].watch \in {"mark", "unmark"}
  /\ marker' = IF worker[i].watch = "mark" THEN marker \cup {worker[i].key}
                                           ELSE marker \ {worker[i].key}
  /\ WatchAt(i, "over")
  /\ UNCHANGED <<registry, loop, deletes, server, doomed, stopped>>

\* _set_retry_failure_state.
GiveUp(i) ==
  LET k == worker[i].key IN
  /\ Settle(k, FailedState(k))
  /\ WatchAt(i, IF FailedState(k) = "cancelled" THEN "mark" ELSE "over")

\* _try_http_retry waits for the slot: look for a cancel, then claim it.
LookForCancel(i) ==
  /\ worker[i].watch = "loop"
  /\ IF CancelRequested(worker[i].key)
       THEN GiveUp(i)
       ELSE WatchAt(i, "claim") /\ UNCHANGED <<job, slot, pending>>
  /\ UNCHANGED <<transport, gen, seq, process, deleting, loop, deletes, marker, server,
                 doomed, stopped>>

\* Mutant: the retry claims like a new download, without replace_active.
FreeForNew(k) == ~Conflicts(k, "http") /\ ~Active(k)

FreeForRetry(k) == ~Conflicts(k, "http")

Reclaim(i) ==
  LET k == worker[i].key IN
  /\ worker[i].watch = "claim"
  /\ \/ BeingDeleted(k) /\ GiveUp(i) /\ UNCHANGED <<transport, gen>>
     \/ ~BeingDeleted(k) /\ ~FreeForRetry(k) /\ WatchAt(i, "loop")
        /\ UNCHANGED <<job, slot, pending, transport, gen>>
     \/ ~BeingDeleted(k) /\ FreeForRetry(k) /\ Claim(k, "http", gen[k])
        /\ WatchAt(i, "spawn") /\ UNCHANGED pending
  /\ UNCHANGED <<seq, process, deleting, loop, deletes, marker, server, doomed, stopped>>

\* The HTTP worker is spawned and gets a thread of its own, or Popen fails.
Relaunch(i) ==
  LET k == worker[i].key IN
  /\ worker[i].watch = "spawn"
  /\ \/ /\ worker' = Append([worker EXCEPT ![i] = Gone(@)], SpawnedWorker(k, "http"))
        /\ UNCHANGED <<job, slot, pending, transport>>
     \/ /\ GiveUp(i)
        /\ transport' = [transport EXCEPT ![k] = "xet"]
  /\ UNCHANGED <<gen, seq, process, deleting, loop, deletes, marker, server, doomed, stopped>>

-----------------------------------------------------------------------------
(* Deleting from the cache: begin_delete, the removal, end_delete.         *)

BeginDelete(s) ==
  /\ loop.pc = "idle" /\ server = "up" /\ deletes[s] < MaxDeletes
  /\ ~\E k \in Keys : Active(k) /\ (s = Whole \/ k \in {s, Whole})
  /\ deleting' = deleting \cup {s}
  /\ deletes' = [deletes EXCEPT ![s] = @ + 1]
  /\ UNCHANGED <<job, slot, transport, gen, seq, pending, process, worker, loop, marker,
                 server, doomed, stopped>>

EndDelete(s) ==
  /\ deletes[s] > 0 /\ loop.pc = "idle"
  /\ deleting' = deleting \ {s}
  /\ deletes' = [deletes EXCEPT ![s] = @ - 1]
  /\ UNCHANGED <<job, slot, transport, gen, seq, pending, process, worker, loop, marker,
                 server, doomed, stopped>>

-----------------------------------------------------------------------------
(* Shutdown: terminate_all.                                                *)

\* Mutant: only the jobs with a live worker are settled.
NoIdleJobs == {}

\* The active jobs without a live worker that could still go on to one.
IdleJobs ==
  {k \in Keys : Active(k) /\ \/ process[k] = 0
                             \/ Exited(process[k]) /\ worker[process[k]].state # "done"
                                /\ transport[k] = "xet"}

Snapshot ==
  LET live == {i \in DOMAIN worker : Live(i) /\ process[worker[i].key] = i}
      stop == {worker[i].key : i \in live} \cup IdleJobs IN
  /\ Shutdowns /\ server = "up" /\ loop.pc = "idle"
  /\ doomed' = [live |-> live, idle |-> IdleJobs]
  /\ job' = [k \in Keys |-> IF k \in stop /\ Active(k) THEN "cancelling" ELSE job[k]]
  /\ pending' = [k \in Keys |-> IF k \in IdleJobs THEN gen[k] ELSE pending[k]]
  /\ stopped' = [k \in Keys |-> IF k \in stop THEN gen[k] ELSE stopped[k]]
  /\ server' = "stopping"
  /\ UNCHANGED <<slot, transport, gen, seq, process, deleting, worker, loop, deletes, marker>>

Interrupted == {i \in doomed.live : worker[i].state # "done"}

\* Outside the lock: the idle jobs are marked; then all workers are killed
\* before the first is waited for, and one that had completed gets no marker.
KillAndReap ==
  /\ server = "stopping"
  /\ Killed(doomed.live)
  /\ marker' = marker \cup doomed.idle \cup {worker[i].key : i \in Interrupted}
  /\ server' = "off"
  /\ UNCHANGED <<registry, loop, deletes, doomed, stopped>>

-----------------------------------------------------------------------------
Watcher(i) ==
  \/ Register(i) \/ KillRefused(i)
  \/ AskCancel(i) \/ DropProcess(i) \/ Classify(i) \/ WriteMarker(i)
  \/ LookForCancel(i) \/ Reclaim(i) \/ Relaunch(i)

Handler == ClearMarker \/ Launch \/ ArmCancel \/ RequestCancel \/ Kill \/ LeaveToWatcher

Next ==
  \/ \E k \in Keys, t \in Transports : Start(k, t)
  \/ \E k \in Keys : \E g \in 0..gen[k] : FindProcess(k, g)
  \/ Handler
  \/ \E i \in DOMAIN worker : Exit(i) \/ Watcher(i)
  \/ \E s \in Scopes : BeginDelete(s) \/ EndDelete(s)
  \/ Snapshot \/ KillAndReap

Spec == Init /\ [][Next]_vars

\* The event loop and the threads run on, and a worker ends (the hub library
\* times out on a dead connection).
FairSpec ==
  /\ Spec
  /\ WF_vars(Handler)
  /\ \A i \in 1..MaxWorkers : WF_vars(i \in DOMAIN worker /\ (Exit(i) \/ Watcher(i)))
  /\ WF_vars(KillAndReap)

-----------------------------------------------------------------------------
(* Properties.                                                             *)

\* Workers that write: live, and not refused on arrival.
Writers == {i \in DOMAIN worker : Live(i) /\ worker[i].watch # "refused"}

\* Two workers write into the repository at once only for two variants over
\* one transport, also while an XET job that failed has given its slot away
\* and waits to come back over HTTP.
OneWriter ==
  \A i, j \in Writers : i # j =>
    /\ worker[i].key # worker[j].key
    /\ Whole \notin {worker[i].key, worker[j].key}
    /\ worker[i].transport = worker[j].transport

\* An armed cancel belongs to the run that is under way, which was told to
\* stop: none is left for a later download of the key.
NoStaleCancel ==
  \A k \in Keys : Armed(k) => Active(k) /\ GenMatches(k, pending[k]) /\ stopped[k] = gen[k]

\* A run is reported cancelled only when it was told to stop (or its worker
\* trapped a signal that did): a kill by the system is an error.
OnlyStoppedAreCancelled ==
  \A k \in Keys : job[k] = "cancelled" => stopped[k] = gen[k]

\* A cancel hits the run it was meant for, and only such a run is "cancelled".
CancelsHitTheirRun == NoStaleCancel /\ OnlyStoppedAreCancelled

\* No worker is accepted for a run that was told to stop, by a cancel or by
\* the shutdown, whatever the retry was doing then.
StoppedStaysStopped ==
  [][\A k \in Keys : process'[k] \notin {0, process[k]} => stopped[k] # gen[k]]_vars

\* A worker that writes what is being deleted.
InTheWay(s) == {i \in Writers : s = Whole \/ worker[i].key \in {s, Whole}}

\* No worker writes into what is being removed, until the removal ends.
DeleteAlone == \A s \in Scopes : deletes[s] > 0 => InTheWay(s) = {}

\* Once terminate_all has returned, no registered worker lives.
ShutdownLeavesNoWorker ==
  server = "off" => \A k \in Keys : ~Live(process[k])

\* What the shutdown stopped left, when it returns, the marker by which the
\* next start of the server finds it, unless its worker completed.  Only the
\* first run of a key: the watcher of an earlier one may still clear it.
ShutdownMarksStopped ==
  server = "off" => \A k \in doomed.idle \cup {worker[i].key : i \in doomed.live} :
    \/ k \in marker
    \/ \E i \in DOMAIN worker : worker[i].key = k
                                /\ (worker[i].state = "done" \/ worker[i].gen # gen[k])

\* A shutdown leaves no worker behind, and its jobs resumable.
ShutdownIsClean == ShutdownLeavesNoWorker /\ ShutdownMarksStopped

\* Every download that was claimed comes to a terminal state: the retry does
\* not wait for its slot for ever.
JobEnds == \A k \in Keys : Active(k) ~> ~Active(k)

=============================================================================
