--------------------------- MODULE DataRecipeJobs ---------------------------
(***************************************************************************)
(* The data-recipe job manager (core/data_recipe/jobs/manager.py), the     *)
(* route that mints a key for a job and starts it, and the worker.  One    *)
(* job at a time; each start gives it a worker process, a queue and a pump *)
(* thread, all three named by the number of the request that started it.   *)
(*                                                                         *)
(* A pump takes a snapshot of the current job and its handles on every     *)
(* turn, so it may go on with the handles of a later job.  Sections under  *)
(* the manager's lock are one action.  _emit runs with and without the     *)
(* lock: numbering an event and appending it is one step (no call stands   *)
(* between the two), delivering it to the subscribers is another.          *)
(***************************************************************************)
EXTENDS Integers, Sequences, FiniteSets

CONSTANTS
  MaxJobs,       \* requests to start a job
  Subs,          \* clients of the event stream
  Loggers,       \* jobs whose worker sends a log line
  MaxEvents,     \* how many events _events keeps (5000)
  MaxFaults      \* cancels, crashes, failed handlers, drains and spawns

ASSUME MaxJobsAssumption == MaxJobs \in Nat \ {0}
ASSUME MaxFaultsAssumption == MaxFaults \in Nat
ASSUME MaxEventsAssumption == MaxEvents \in Nat \ {0}

VARIABLES
  request,    \* create_job: "new", "started", "refused"
  key,        \* the request's API key: "none", "valid", "revoked"
  job,        \* _job, 0 for None
  handle,     \* _proc and _mp_q, 0 for None
  status,     \* a job's status
  worker,     \* the worker's progress, "none" before the spawn, "dead" at last
  queue,      \* the worker's event queue
  faults,     \* history: how many of them there were
  asked,      \* history: jobs whose cancel found a live worker
  alone,      \* history: jobs started when no pump of an earlier job was left
  pump,       \* the pump thread of each job
  events,     \* the current stream; an event's place is its seq
  sub         \* a client's subscription

jobVars == <<job, handle, status>>
workVars == <<worker, queue>>
history == <<faults, asked, alone>>
vars == <<request, key, jobVars, workVars, history, pump, events, sub>>

Jobs == 1 .. MaxJobs

Running == {"pending", "active", "cancelling"}

Terminal == {"completed", "error", "cancelled"}
EventTypes == {"enqueued", "started", "log", "cancelling"} \cup Terminal
\* Only the manager's events carry a job_id; the worker's do not.
Event == [type : EventTypes, by : {"worker", "manager"}, job : Jobs]

Closed == [open |-> FALSE, after |-> 0, got |-> {}]
Idle == [pc |-> "off", job |-> 0, from |-> 0, batch |-> <<>>, last |-> FALSE]

Init ==
  /\ request = [n \in Jobs |-> "new"]
  /\ key = [n \in Jobs |-> "none"]
  /\ job = 0
  /\ handle = 0
  /\ status = [n \in Jobs |-> "created"]
  /\ worker = [n \in Jobs |-> "none"]
  /\ queue = [n \in Jobs |-> <<>>]
  /\ faults = 0
  /\ asked = {}
  /\ alone = {}
  /\ pump = [n \in Jobs |-> Idle]
  /\ events = <<>>
  /\ sub = [s \in Subs |-> Closed]

\* One more thing goes wrong.
Disturb == faults < MaxFaults /\ faults' = faults + 1

Alive(n) == n # 0 /\ worker[n] \notin {"none", "dead"}

-----------------------------------------------------------------------------
(* Emitting.  An event is put on the queue of every subscriber.  How far a   *)
(* client has read is left open: any of them may be full, and is dropped.    *)

\* _events, a deque(maxlen = 5000), holds the end of the stream: Gone is the
\* number of the last event that it has dropped.
Gone == IF Len(events) > MaxEvents THEN Len(events) - MaxEvents ELSE 0

Numbered(e, i) == [type |-> e.type, by |-> e.by, job |-> e.job, seq |-> i]

Deliver(e, fresh) ==
  \E full \in SUBSET {s \in Subs : sub[s].open} :
    sub' = [s \in Subs |->
              IF s \in full \/ ~sub[s].open THEN Closed
              ELSE [sub[s] EXCEPT !.got = (IF fresh THEN {} ELSE @) \cup {e}]]

\* A start begins a new stream; what a client has got of the one before is
\* forgotten with it.
EmitLocked(type) ==
  LET old == IF job' = job THEN events ELSE <<>>
      e == Numbered([type |-> type, by |-> "manager", job |-> job'], Len(old) + 1) IN
  /\ events' = Append(old, e)
  /\ Deliver(e, old # events)

-----------------------------------------------------------------------------
(* The routes.                                                              *)

\* Requests are numbered in the order in which they reach start.
Arrives(n) == request[n] = "new" /\ \A m \in 1 .. n - 1 : request[m] # "new"

\* start finds a live worker: RuntimeError, and the route revokes the key.
Refuse(n) ==
  /\ Arrives(n)
  /\ Alive(handle)
  /\ request' = [request EXCEPT ![n] = "refused"]
  /\ key' = [key EXCEPT ![n] = "revoked"]
  /\ UNCHANGED <<jobVars, workVars, history, pump, events, sub>>

Start(n) ==
  /\ Arrives(n)
  /\ ~Alive(handle)
  /\ request' = [request EXCEPT ![n] = "started"]
  /\ key' = [key EXCEPT ![n] = "valid"]
  /\ job' = n
  /\ handle' = n
  /\ status' = [status EXCEPT ![n] = "pending"]
  /\ worker' = [worker EXCEPT ![n] = "begun"]
  /\ pump' = [pump EXCEPT ![n].pc = "top"]
  /\ EmitLocked("enqueued")
  /\ alone' = IF \A p \in Jobs : pump[p].pc \in {"off", "ended"} THEN alone \cup {n} ELSE alone
  /\ UNCHANGED <<queue, faults, asked>>

\* The spawn raises after the new job was installed: no worker, no pump, and
\* _proc and _mp_q still those of the job before.  The route revokes the key.
SpawnFails(n) ==
  /\ Disturb
  /\ Arrives(n)
  /\ ~Alive(handle)
  /\ request' = [request EXCEPT ![n] = "refused"]
  /\ key' = [key EXCEPT ![n] = "revoked"]
  /\ job' = n
  /\ status' = [status EXCEPT ![n] = "pending"]
  /\ events' = <<>>
  /\ UNCHANGED <<handle, workVars, asked, alone, pump, sub>>

\* terminate kills the worker before its feeder thread has flushed: what the
\* pump can still read is a prefix of what was put.
Die(n) ==
  \E k \in 0 .. Len(queue[n]) :
    /\ worker' = [worker EXCEPT ![n] = "dead"]
    /\ queue' = [queue EXCEPT ![n] = SubSeq(@, 1, k)]

Cancel(n) ==
  /\ job = n
  /\ Alive(handle)
  /\ Disturb
  /\ status' = [status EXCEPT ![n] = "cancelling"]
  /\ asked' = asked \cup {n}
  /\ UNCHANGED <<job, handle, alone>>
  /\ EmitLocked("cancelling")
  /\ Die(handle)
  /\ UNCHANGED <<request, key, pump>>

\* Mutant: the first event after the one asked for is left out.
ReplayLate(after) == {events[i] : i \in {k \in DOMAIN events : k > after + 1 /\ k > Gone}}

\* What the buffer holds of the events after the one asked for.
Replay(after) == {events[i] : i \in {k \in DOMAIN events : k > after /\ k > Gone}}

\* A client joins, or comes back and names the last event it has.  What the
\* buffer has dropped by then it never gets; "after" keeps how much that is.
Subscribe(s, n, after) ==
  /\ job = n
  /\ sub[s] = Closed
  /\ sub' = [sub EXCEPT ![s] =
               [open |-> TRUE, after |-> IF after > Gone THEN after ELSE Gone,
                got |-> Replay(after)]]
  /\ UNCHANGED <<request, key, jobVars, workVars, history, pump, events>>

Unsubscribe(s) ==
  /\ sub[s].open
  /\ sub' = [sub EXCEPT ![s] = Closed]
  /\ UNCHANGED <<request, key, jobVars, workVars, history, pump, events>>

-----------------------------------------------------------------------------
(* The worker, run_job_process.                                             *)

Put(n, type) == queue' = [queue EXCEPT ![n] = Append(@, [type |-> type, by |-> "worker", job |-> n])]

Work(n) ==
  /\ \/ /\ worker[n] = "begun"
        /\ worker' = [worker EXCEPT ![n] = "working"]
        /\ Put(n, "started")
     \/ /\ worker[n] = "working" /\ n \in Loggers
        /\ worker' = [worker EXCEPT ![n] = "logged"]
        /\ Put(n, "log")
     \/ /\ worker[n] \in {"working", "logged"}
        /\ worker' = [worker EXCEPT ![n] = "reported"]
        /\ \/ Put(n, "completed")
           \/ Put(n, "error")
  /\ UNCHANGED <<request, key, jobVars, history, pump, events, sub>>

Exit(n) ==
  /\ worker[n] = "reported"
  /\ worker' = [worker EXCEPT ![n] = "dead"]
  /\ UNCHANGED <<request, key, jobVars, queue, history, pump, events, sub>>

Crash(n) ==
  /\ Disturb
  /\ Alive(n)
  /\ Die(n)
  /\ UNCHANGED <<request, key, jobVars, asked, alone, pump, events, sub>>

-----------------------------------------------------------------------------
(* The pump threads, _pump_loop.                                            *)

Goto(p, pc) == pump' = [pump EXCEPT ![p].pc = pc]

\* Its locals die with a turn of the loop.
Turn(p, pc) == pump' = [pump EXCEPT ![p] = [Idle EXCEPT !.pc = pc]]

Done(p) ==
  IF Len(pump[p].batch) > 1
  THEN pump' = [pump EXCEPT ![p].pc = "handle", ![p].batch = Tail(@)]
  ELSE Turn(p, IF pump[p].last THEN "final" ELSE "top")

Snapshot(p) ==
  /\ pump[p].pc = "top"
  /\ pump' = [pump EXCEPT ![p] = [@ EXCEPT !.pc = "read", !.job = job, !.from = handle]]
  /\ UNCHANGED <<request, key, jobVars, workVars, history, events, sub>>

\* _read_queue_with_timeout, with an event or after 0.25 seconds without one.
ReadEvent(p) ==
  LET q == queue[pump[p].from] IN
  /\ pump[p].pc = "read"
  /\ q # <<>>
  /\ pump' = [pump EXCEPT ![p] = [@ EXCEPT !.pc = "handle", !.batch = <<Head(q)>>]]
  /\ queue' = [queue EXCEPT ![pump[p].from] = Tail(q)]
  /\ UNCHANGED <<request, key, jobVars, worker, history, events, sub>>

ReadNothing(p) ==
  /\ pump[p].pc = "read"
  /\ queue[pump[p].from] = <<>>
  /\ Goto(p, "look")
  /\ UNCHANGED <<request, key, jobVars, workVars, history, events, sub>>

\* Mutant: a poll without an event is taken for the end of the worker.
ExitedOrQuiet(p) == pump[p].pc = "look"

Exited(p) == ~Alive(pump[p].from)

LookAlive(p) ==
  /\ pump[p].pc = "look"
  /\ ~Exited(p)
  /\ Turn(p, "top")
  /\ UNCHANGED <<request, key, jobVars, workVars, history, events, sub>>

\* The worker has exited: _drain_queue takes what is left, or what it can.
Drain(p) ==
  LET q == queue[pump[p].from] IN
  /\ pump[p].pc = "look"
  /\ Exited(p)
  /\ \E k \in 0 .. Len(q) :
       /\ IF k = Len(q) THEN UNCHANGED faults ELSE Disturb
       /\ IF k = 0 THEN Turn(p, "final")
          ELSE pump' = [pump EXCEPT ![p] =
                          [@ EXCEPT !.pc = "handle", !.batch = SubSeq(q, 1, k), !.last = TRUE]]
       /\ queue' = [queue EXCEPT ![pump[p].from] = SubSeq(q, k + 1, Len(q))]
  /\ UNCHANGED <<request, key, jobVars, worker, asked, alone, events, sub>>

\* The job is not the current one any more, or the handler raised on a log
\* line: _safe_handle_event goes on with the next event.
SkipEvent(p) ==
  /\ pump[p].pc = "handle"
  /\ \/ job # pump[p].job /\ UNCHANGED faults
     \/ Head(pump[p].batch).type = "log" /\ Disturb
  /\ Done(p)
  /\ UNCHANGED <<request, key, jobVars, workVars, asked, alone, events, sub>>

StatusAfter(type, old) ==
  CASE type = "started" -> "active"
    [] type \in {"completed", "error"} -> type
    [] OTHER -> old

HandleEvent(p) ==
  LET type == Head(pump[p].batch).type IN
  /\ pump[p].pc = "handle"
  /\ job = pump[p].job
  /\ status' = [status EXCEPT ![job] = StatusAfter(type, @)]
  /\ Goto(p, "emit")
  /\ UNCHANGED <<request, key, job, handle, workVars, history, events, sub>>

\* Mutant: the key of the current job is revoked.
RetiredCurrent(n) == [key EXCEPT ![job] = "revoked"]

\* _retire_workflow_key; nothing between it and its neighbours reads the key.
Retired(n) == [key EXCEPT ![n] = "revoked"]

\* Outside the lock: retire the key, number the event and append it.
AppendEvent(p) ==
  LET e == Head(pump[p].batch) IN
  /\ pump[p].pc = "emit"
  /\ key' = IF e.type \in Terminal THEN Retired(pump[p].job) ELSE key
  /\ events' = Append(events, Numbered(e, Len(events) + 1))
  /\ pump' = [pump EXCEPT ![p] = [@ EXCEPT !.pc = "deliver", !.batch[1] = events'[Len(events')]]]
  /\ UNCHANGED <<request, jobVars, workVars, history, sub>>

DeliverEvent(p) ==
  /\ pump[p].pc = "deliver"
  /\ Deliver(Head(pump[p].batch), FALSE)
  /\ Done(p)
  /\ UNCHANGED <<request, key, jobVars, workVars, history, events>>

EndStatus(old) == IF old = "cancelling" THEN "cancelled" ELSE "error"

\* The last look, under the lock: at the job that is current now.
Finalize(p) ==
  /\ pump[p].pc = "final"
  /\ UNCHANGED <<job, handle>>
  /\ IF status[job] \in Running
     THEN LET end == EndStatus(status[job]) IN
          /\ status' = [status EXCEPT ![job] = end]
          /\ EmitLocked(end)
          /\ key' = Retired(job)
     ELSE UNCHANGED <<status, key, events, sub>>
  /\ Turn(p, "ended")
  /\ UNCHANGED <<request, workVars, history>>

PumpStep(p) ==
  \/ Snapshot(p) \/ ReadEvent(p) \/ ReadNothing(p) \/ LookAlive(p) \/ Drain(p)
  \/ SkipEvent(p) \/ HandleEvent(p) \/ AppendEvent(p)
  \/ DeliverEvent(p) \/ Finalize(p)

Next ==
  \/ \E n \in Jobs :
       \/ Refuse(n) \/ Start(n) \/ SpawnFails(n)
       \/ Cancel(n) \/ Work(n) \/ Exit(n) \/ Crash(n) \/ PumpStep(n)
  \/ \E s \in Subs :
       \/ \E n \in Jobs, after \in 0 .. Len(events) : Subscribe(s, n, after)
       \/ Unsubscribe(s)

Spec == Init /\ [][Next]_vars

-----------------------------------------------------------------------------
(* Properties.                                                              *)

PumpPlaces == {"off", "top", "read", "look", "handle", "emit", "deliver",
               "final", "ended"}
Seen == [type : EventTypes, by : {"worker", "manager"}, job : Jobs, seq : Nat \ {0}]

\* Types of all variables; a pump has a batch in hand only between reading and
\* delivering, and never has more than the worker can have sent.
TypeOK ==
  /\ request \in [Jobs -> {"new", "started", "refused"}]
  /\ key \in [Jobs -> {"none", "valid", "revoked"}]
  /\ job \in 0 .. MaxJobs
  /\ handle \in 0 .. MaxJobs
  /\ status \in [Jobs -> {"created"} \cup Running \cup Terminal]
  /\ worker \in [Jobs -> {"none", "begun", "working", "logged", "reported", "dead"}]
  /\ \A n \in Jobs : Len(queue[n]) <= 3 /\ \A i \in DOMAIN queue[n] : queue[n][i] \in Event
  /\ faults \in 0 .. MaxFaults
  /\ asked \subseteq Jobs /\ alone \subseteq Jobs
  /\ \A p \in Jobs :
       /\ pump[p].pc \in PumpPlaces
       /\ pump[p].job \in 0 .. MaxJobs /\ pump[p].from \in 0 .. MaxJobs
       /\ pump[p].last \in BOOLEAN
       /\ Len(pump[p].batch) <= 3
       /\ pump[p].batch # <<>> <=> pump[p].pc \in {"handle", "emit", "deliver"}
  /\ \A i \in DOMAIN events : events[i] \in Seen
  /\ \A s \in Subs :
       /\ sub[s].open \in BOOLEAN
       /\ sub[s].got \subseteq Seen

\* An event that some pump has appended and is about to deliver.
InDelivery(e) == \E p \in Jobs : pump[p].pc = "deliver" /\ Head(pump[p].batch) = e

\* A subscriber that was not dropped has every event of the current stream
\* after the one it asked for, from the replay or live, or is about to get it,
\* except those that the bounded buffer had dropped before it joined:
\* subscribing between the append and the delivery of an event, or beside two
\* emitters, may repeat an event and never loses one.
NoEventLost ==
  \A s \in Subs : sub[s].open =>
    \A i \in DOMAIN events :
      i > sub[s].after => events[i] \in sub[s].got \/ InDelivery(events[i])

\* A pump that holds an ending it has not emitted yet.
EndingInHand ==
  \E p \in Jobs : pump[p].pc = "emit" /\ Head(pump[p].batch).type \in Terminal

\* The stream of an ended job holds an ending, so that a client that follows
\* it is told, as is one that joins later unless MaxEvents events followed the
\* ending; the status alone is never the only trace.
EndIsAnnounced ==
  job # 0 /\ status[job] \in Terminal /\ ~EndingInHand
    => \E i \in DOMAIN events : events[i].type \in Terminal

\* A job that was started when no earlier pump was left is not ended, and its
\* key is not revoked, before its worker has reported or died.
NothingEndsEarly ==
  \A n \in alone : status[n] \in Terminal \/ key[n] = "revoked"
    => worker[n] \in {"reported", "dead"}

\* Nothing is left that could still change the job.
Settled == job # 0 /\ request[job] = "started" /\ \A p \in Jobs : pump[p].pc \in {"off", "ended"}

\* However the worker ended and whatever its pump met, a job is never left in a
\* running state once no pump is there to end it, and its key is revoked.
SettledJobHasEnded == Settled => status[job] \in Terminal /\ key[job] = "revoked"

\* A key that is still valid when all pumps are gone belongs to a job that was
\* replaced before any pump had seen it end; no job that ended keeps its key.
EndedJobKeepsNoKey ==
  \A n \in Jobs :
    status[n] \in Terminal /\ key[n] = "valid" => \E p \in Jobs : pump[p].pc \notin {"off", "ended"}

\* A cancel that no event of the worker followed ends the job as cancelled.
\* One that did may move the job from cancelling back to active (line 543).
CancelIsHonoured ==
  Settled /\ job \in asked \cap alone =>
    \/ status[job] = "cancelled"
    \/ \E i, k \in DOMAIN events :
         i < k /\ events[i].type = "cancelling" /\ events[k].by = "worker"

\* A subscriber's stream has no gap after the point at which it begins, and
\* the end of the job is among its events.
StreamIsComplete == NoEventLost /\ EndIsAnnounced

\* A job ends for a reason of its own: its worker's report or death, or the
\* cancel that somebody asked for.
EndsForItsReason == NothingEndsEarly /\ CancelIsHonoured

\* No job is left running, and no key left valid, behind the pumps.
JobsAreSettled == TypeOK /\ SettledJobHasEnded /\ EndedJobKeepsNoKey
=============================================================================
