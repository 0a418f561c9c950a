--------------------- MODULE InferenceOrchestratorProofs ---------------------
(***************************************************************************)
(* Proofs about the inference orchestrator and its worker, for any         *)
(* requests and models, any number of processes and any disturbances but   *)
(* those that a theorem excludes by name.                                  *)
(***************************************************************************)
EXTENDS InferenceOrchestrator, SequenceTheorems, TLAPS

-----------------------------------------------------------------------------
(* The inductive invariant.                                                *)

Reading == {"stream", "drain"}

\* A live process is behind the handle, with its own queues.
Handled == (alive => proc # 0) /\ (proc # 0 => queue = proc)

\* Who holds _gen_lock: the one locked request that reads, or the unload from
\* its wait for an idle dispatcher to its reply.
LockInv ==
  /\ \A r \in Locked : phase[r] \in Reading <=> genLock = r
  /\ genLock \notin Compare
  /\ genLock = Unloader <=> unloader \in {"wait_idle", "stop", "send", "reply"}
  /\ unloadPending <=> unloader \notin {"idle", "pending", "undrain"}
  /\ unloader \in {"send", "reply"} => ~dispatcher
  /\ Handled
  /\ \A r \in Streams : latched[r] # 0 => latchedQueue[r] = latched[r]

\* The gate tells who is in it, and the marker is that of the load in it.
GateInv ==
  /\ gate = "load" <=> loader.pc # "idle"
  /\ gate = "unload" <=> unloader # "idle"
  /\ loader.pc # "idle" => loader.model \in Models
  /\ canceller.pc # "idle" => canceller.model \in Models
  /\ loading \subseteq {loader.model}
  /\ loader.pc = "idle" => loading = {}
  /\ canceller.pc # "idle" \/ stopped # NoModel => loading = {}

\* The retry after a stall goes past a worker that outlived the kill.
Blind == {"stall", "survive"} \subseteq Faults

\* Such a survivor keeps the old name on show when a repair turns the retry away.
NameOfSurvivor == Blind /\ "repair" \in Faults

\* Otherwise a load that is about to spawn finds nothing alive.
SpawnInv ==
  /\ "stall" \notin Faults => \A i \in DOMAIN resps : resps[i] # Stall
  /\ ~Blind => (loader.pc \in {"check", "spawn"} => ~alive)

\* Nobody is between a command that changes the worker's model and the mirrors.
Settled ==
  \/ gate = "free" \/ loader.pc = "kill"
  \/ gate = "unload" /\ unloader # "reply"

ToUnload == \E i \in DOMAIN cmds : cmds[i] = Unload
LoadedOk == \E i \in DOMAIN resps : resps[i] = Loaded(TRUE)

\* What the mirrors say of the worker, and what a worker that is loading or has
\* an unload to do says of the threads.
ActiveInv ==
  ~NameOfSurvivor /\ alive =>
    /\ active # NoModel /\ Settled => held = active
    /\ job.kind = "loading" => active = NoModel \/ loader.pc \in {"post", "wait"}
    /\ ToUnload => /\ active = NoModel \/ unloader = "reply"
                   /\ loader.pc \notin {"post", "wait", "publish"}
    /\ loader.pc \in {"post", "wait"} =>
         /\ job.kind = "loading" => job.model = loader.model
         /\ LoadedOk => job.kind # "loading" /\ held = loader.model
    /\ loader.pc = "publish" => held = loader.model /\ job.kind # "loading"

\* A cancelled load has no worker, but one that it spawned and has not looked
\* at yet; while no worker dies by itself, a load that was not cancelled has one.
CancelInv ==
  /\ canceller.pc = "clear" \/ stopped # NoModel =>
       ~alive \/ job = Wedged \/ loader.pc = "post"
  /\ "crash" \notin Faults =>
       /\ stopped # NoModel => active = NoModel /\ loader.pc # "publish"
       /\ /\ loader.pc \in {"post", "wait", "publish"}
          /\ canceller.pc # "clear" /\ stopped = NoModel
          => alive /\ job # Wedged
       /\ canceller.pc = "clear" /\ ~canceller.settle => loader.pc # "publish"

\* Only a cancelled request drains, and one that was not sent has seen nothing.
PhaseInv ==
  /\ "cancel" \notin Faults => \A r \in Locked : phase[r] # "drain"
  /\ \A r \in Streams : phase[r] \in Reading \cup {"done"} \/ seen[r] = {}

\* Nothing lets a locked request go before the worker is done with it, and no
\* compare request works beside it.
Alone == Compare = {} /\ "close" \notin Faults /\ ~({"cancel", "timeout"} \subseteq Faults)

Owned(r)      == r = genLock /\ latched[r] = proc
Generating    == job.kind \in {"dequeued", "running"}
ToGenerate(i) == cmds[i].type = "generate"
Ended         == \E i \in DOMAIN resps : EndsStream(resps[i])

\* What is in the queues of the current process and in its hands is of the one
\* request that reads, and its gen_done or gen_error comes last.
OwnInv ==
  Alone =>
    /\ OwnEvents
    /\ \A i \in DOMAIN resps : resps[i] \in StreamEvents /\ proc # 0 => Owned(resps[i].id)
    /\ \A i, k \in DOMAIN resps : i < k /\ EndsStream(resps[i]) => resps[k] \notin StreamEvents
    /\ alive =>
         /\ \A i \in DOMAIN cmds : ToGenerate(i) => Owned(cmds[i].id)
         /\ \A i, k \in DOMAIN cmds : ToGenerate(i) /\ ToGenerate(k) => i = k
         /\ Generating => Owned(job.id) /\ \A i \in DOMAIN cmds : ~ToGenerate(i)
         /\ Ended => ~Generating /\ \A i \in DOMAIN cmds : ~ToGenerate(i)

\* The inductive invariant.
IInv ==
  /\ TypeOK /\ LockInv /\ GateInv /\ SpawnInv /\ ActiveInv /\ CancelInv /\ PhaseInv /\ OwnInv

-----------------------------------------------------------------------------
(* Messages, jobs and queues.                                              *)

\* The messages are told apart by their types.
LEMMA Messages ==
  /\ \A r : /\ Generate(r).type = "generate" /\ Generate(r).id = r
            /\ Token(r).type = "token" /\ Token(r).id = r
            /\ GenDone(r).type = "gen_done" /\ GenDone(r).id = r
            /\ GenError(r).type = "gen_error" /\ GenError(r).id = r
            /\ ~EndsStream(Token(r)) /\ EndsStream(GenDone(r)) /\ EndsStream(GenError(r))
  /\ Unload.type = "unload" /\ Reset.type = "reset"
  /\ Loaded(TRUE).type = "loaded" /\ Loaded(FALSE).type = "loaded"
  /\ Loaded(TRUE) # Loaded(FALSE)
  /\ Stall.type = "stall" /\ Unloaded.type = "unloaded" /\ ResetAck.type = "reset_ack"
<1>1. Loaded(TRUE).success /\ ~Loaded(FALSE).success
  BY DEF Loaded
<1>2. QED
  BY <1>1 DEF Generate, Token, GenDone, GenError, EndsStream, Unload, Reset, Loaded, Stall,
              Unloaded, ResetAck

LEMMA IsCommand ==
  /\ \A r \in Streams : Generate(r) \in Commands
  /\ Unload \in Commands /\ Reset \in Commands /\ Unload # Reset
  /\ \A c \in Commands :
       \/ c.type = "generate" /\ c.id \in Streams /\ c # Unload /\ c # Reset
       \/ c = Unload /\ c.type = "unload"
       \/ c = Reset /\ c.type = "reset"
BY Messages DEF Commands

LEMMA IsResponse ==
  /\ \A r \in Streams : /\ Token(r) \in StreamEvents /\ GenDone(r) \in StreamEvents
                        /\ GenError(r) \in StreamEvents
  /\ StreamEvents \subseteq Responses
  /\ \A e \in StreamEvents :
       /\ e.type \in {"token", "gen_done", "gen_error"} /\ e.id \in Streams
       /\ EndsStream(e) <=> e.type # "token"
  /\ \A e \in {Loaded(TRUE), Loaded(FALSE), Stall, Unloaded, ResetAck} :
       e \in Responses /\ e \notin StreamEvents /\ ~EndsStream(e)
  /\ \A e \in Responses :
       /\ e \in StreamEvents \/ e \in {Loaded(TRUE), Loaded(FALSE), Stall, Unloaded, ResetAck}
       /\ e.type \in {"token", "gen_done", "gen_error"} <=> e \in StreamEvents
<1>1. \A e \in StreamEvents : \E r \in Streams : e \in {Token(r), GenDone(r), GenError(r)}
  BY DEF StreamEvents
<1>2. \A r \in Streams : \A e \in {Token(r), GenDone(r), GenError(r)} : e \in StreamEvents
  BY DEF StreamEvents
<1>3. \A e \in StreamEvents :
        /\ e.type \in {"token", "gen_done", "gen_error"} /\ e.id \in Streams
        /\ EndsStream(e) <=> e.type # "token"
  BY <1>1, Messages DEF EndsStream
<1>4. \A e \in {Loaded(TRUE), Loaded(FALSE), Stall, Unloaded, ResetAck} :
        /\ e.type \notin {"token", "gen_done", "gen_error"} /\ e \in Responses
        /\ ~EndsStream(e)
  BY Messages DEF EndsStream, Responses
<1>5. \A e \in Responses :
        e \in StreamEvents \/ e \in {Loaded(TRUE), Loaded(FALSE), Stall, Unloaded, ResetAck}
  BY DEF Responses
<1>6. StreamEvents \subseteq Responses
  BY DEF Responses
<1>7. QED
  BY <1>2, <1>3, <1>4, <1>5, <1>6

LEMMA IsJob ==
  /\ Idling \in Jobs /\ Wedged \in Jobs /\ Idling.kind = "idle" /\ Wedged.kind = "wedged"
  /\ \A m : Loading(m).kind = "loading" /\ Loading(m).model = m
  /\ \A r : Dequeued(r).kind = "dequeued" /\ Dequeued(r).id = r
  /\ \A r : Running(r).kind = "running" /\ Running(r).id = r
  /\ \A m \in Models : Loading(m) \in Jobs
  /\ \A r \in Streams : Dequeued(r) \in Jobs /\ Running(r) \in Jobs
  /\ \A j \in Jobs : \/ j = Idling \/ j = Wedged
                     \/ j.kind = "loading" /\ j.model \in Models
                     \/ j.kind \in {"dequeued", "running"} /\ j.id \in Streams
<1>1. /\ Idling.kind = "idle" /\ Wedged.kind = "wedged"
      /\ \A m : Loading(m).kind = "loading" /\ Loading(m).model = m
      /\ \A r : Dequeued(r).kind = "dequeued" /\ Dequeued(r).id = r
      /\ \A r : Running(r).kind = "running" /\ Running(r).id = r
  BY DEF Idling, Wedged, Loading, Dequeued, Running
<1>2. QED
  BY <1>1 DEF Jobs

LEMMA Appends ==
  ASSUME NEW S, NEW q \in Seq(S), NEW e \in S
  PROVE  /\ Append(q, e) \in Seq(S)
         /\ \E n \in Nat :
              /\ n \notin DOMAIN q /\ DOMAIN Append(q, e) = DOMAIN q \cup {n}
              /\ Append(q, e)[n] = e
              /\ \A i \in DOMAIN q : i \in Nat /\ i < n /\ Append(q, e)[i] = q[i]
<1>1. Len(q) \in Nat /\ DOMAIN q = 1 .. Len(q)
  BY LenProperties
<1>2. /\ Append(q, e) \in Seq(S) /\ Len(Append(q, e)) = Len(q) + 1
      /\ \A i \in 1 .. Len(q) : Append(q, e)[i] = q[i]
      /\ Append(q, e)[Len(q) + 1] = e
  BY AppendProperties
<1>3. DOMAIN Append(q, e) = 1 .. Len(q) + 1
  BY <1>2, LenProperties
<1> DEFINE n == Len(q)
<1> HIDE DEF n
<1>4. n \in Nat /\ DOMAIN q = 1 .. n /\ DOMAIN Append(q, e) = 1 .. n + 1
      /\ (\A i \in 1 .. n : Append(q, e)[i] = q[i]) /\ Append(q, e)[n + 1] = e
  BY <1>1, <1>2, <1>3 DEF n
<1>5. n + 1 \notin 1 .. n /\ 1 .. n + 1 = (1 .. n) \cup {n + 1} /\ \A i \in 1 .. n : i < n + 1
  BY <1>4
<1>6. QED
  BY <1>2, <1>4, <1>5

LEMMA Tails ==
  ASSUME NEW S, NEW q \in Seq(S), q # <<>>
  PROVE  /\ Head(q) \in S /\ Head(q) = q[1] /\ 1 \in DOMAIN q
         /\ Tail(q) \in Seq(S)
         /\ \A i \in DOMAIN q : i \in Nat /\ 1 <= i
         /\ \A i \in DOMAIN Tail(q) : i \in Nat /\ 1 <= i /\ i + 1 \in DOMAIN q
                                      /\ Tail(q)[i] = q[i + 1]
<1>1. Len(q) \in Nat \ {0} /\ DOMAIN q = 1 .. Len(q)
  BY LenProperties, EmptySeq
<1>2. /\ Head(q) \in S /\ Tail(q) \in Seq(S) /\ Len(Tail(q)) = Len(q) - 1
      /\ \A i \in 1 .. Len(Tail(q)) : Tail(q)[i] = q[i + 1]
  BY HeadTailProperties
<1>3. DOMAIN Tail(q) = 1 .. Len(Tail(q))
  BY <1>2, LenProperties
<1>4. Head(q) = q[1]
  OBVIOUS
<1> DEFINE n == Len(q)
<1> HIDE DEF n
<1>5. n \in Nat \ {0} /\ DOMAIN q = 1 .. n /\ DOMAIN Tail(q) = 1 .. n - 1
      /\ \A i \in 1 .. n - 1 : Tail(q)[i] = q[i + 1]
  BY <1>1, <1>2, <1>3 DEF n
<1>6. 1 \in 1 .. n /\ \A i \in 1 .. n - 1 : i \in Nat /\ 1 <= i /\ i + 1 \in 1 .. n
  BY <1>5
<1>7. \A i \in 1 .. n : i \in Nat /\ 1 <= i
  BY <1>5
<1>8. /\ 1 \in DOMAIN q /\ \A i \in DOMAIN q : i \in Nat /\ 1 <= i
      /\ \A i \in DOMAIN Tail(q) : i \in Nat /\ 1 <= i /\ i + 1 \in DOMAIN q
                                   /\ Tail(q)[i] = q[i + 1]
  BY <1>5, <1>6, <1>7, Zenon
<1>9. QED
  BY <1>2, <1>4, <1>8, Zenon

\* Nothing is in an empty queue.
LEMMA NoEntries == <<>> \in Seq(Commands) /\ <<>> \in Seq(Responses) /\ DOMAIN <<>> = {}
BY EmptySeq

-----------------------------------------------------------------------------
(* What the shared actions do.                                             *)

\* A shutdown leaves a process that is dead or wedged; the queues keep what
\* they have or are empty.
LEMMA Shuts ==
  ASSUME WorkerTypeOK, NEW s \in MaySurvive, Shutdown(s)
  PROVE  /\ WorkerTypeOK' /\ ~dispatcher' /\ spawned' = spawned
         /\ resps' = <<>> \/ (~alive /\ resps' = resps)
         /\ cmds' \in {cmds, <<>>}
         /\ \/ /\ ~s /\ proc' = 0 /\ ~alive'
            \/ /\ s /\ "survive" \in Faults /\ alive /\ alive' /\ job' = Wedged
               /\ UNCHANGED <<proc, queue, held>> /\ cmds' = cmds /\ resps' = <<>>
<1>1. CASE ~alive
  BY <1>1 DEF Shutdown, WorkerTypeOK, channel
<1>2. CASE alive /\ s
  <2>1. Survive /\ dispatcher' = FALSE /\ "survive" \in Faults
    BY <1>2 DEF Shutdown, MaySurvive
  <2>2. QED
    BY <1>2, <2>1, IsJob, NoEntries DEF Survive, WorkerTypeOK
<1>3. CASE alive /\ ~s
  <2>1. Kill /\ dispatcher' = FALSE
    BY <1>3 DEF Shutdown
  <2>2. /\ proc' = 0 /\ queue' = 0 /\ ~alive' /\ alive' = FALSE /\ cmds' = <<>> /\ resps' = <<>> /\ job' = Idling
        /\ cancelEvent' = FALSE /\ drainEvent' = FALSE /\ held' = NoModel /\ spawned' = spawned
    BY <2>1 DEF Kill
  <2>3. cmds' \in Seq(Commands) /\ resps' \in Seq(Responses) /\ job' \in Jobs
    BY <2>2, IsJob, NoEntries
  <2>4. /\ proc' \in Nat /\ spawned' \in Nat /\ proc' <= spawned'
        /\ queue' \in Nat /\ queue' <= spawned'
    BY <2>2 DEF WorkerTypeOK
  <2>5. WorkerTypeOK'
    BY <2>2, <2>3, <2>4 DEF WorkerTypeOK
  <2>6. QED
    BY <1>3, <2>1, <2>2, <2>5
<1>4. QED
  BY <1>1, <1>2, <1>3 DEF MaySurvive

\* So does the shutdown of the old worker when a load begins, if there is one.
LEMMA OldShuts ==
  ASSUME WorkerTypeOK, Handled, NEW s \in MaySurvive, ShutdownOld(s)
  PROVE  (~s /\ ~alive') \/ (s /\ job' = Wedged)
<1>1. CASE proc = 0
  <2>1. ~s /\ alive' = alive /\ ~alive
    BY <1>1 DEF ShutdownOld, Handled, workerVars
  <2>2. QED
    BY <2>1
<1>2. CASE proc # 0
  BY <1>2, Shuts DEF ShutdownOld
<1>3. QED
  BY <1>1, <1>2

\* The worker leaves the parent and its handle alone.
LEMMA WorkerSteps ==
  ASSUME WorkerTypeOK, WorkerStep
  PROVE  /\ WorkerTypeOK' /\ alive
         /\ UNCHANGED <<proc, queue, spawned, drainEvent>> /\ UNCHANGED parentVars
<1>1. UNCHANGED parentVars
  BY DEF WorkerStep
<1>2. /\ proc \in Nat /\ spawned \in Nat /\ proc <= spawned
      /\ queue \in Nat /\ queue <= spawned /\ alive \in BOOLEAN
      /\ cmds \in Seq(Commands) /\ resps \in Seq(Responses)
      /\ cancelEvent \in BOOLEAN /\ drainEvent \in BOOLEAN
      /\ held \in Models \cup {NoModel} /\ job \in Jobs
  BY DEF WorkerTypeOK
<1>3. \A e \in Responses : Append(resps, e) \in Seq(Responses)
  BY <1>2, AppendProperties
<1>4. CASE FinishLoad
  <2>1. job.model \in Models
    BY <1>2, <1>4, IsJob DEF FinishLoad
  <2>2. /\ held' \in Models \cup {NoModel} /\ job' = Idling /\ alive
        /\ resps' = Append(resps, Loaded(TRUE)) \/ resps' = Append(resps, Loaded(FALSE))
        /\ UNCHANGED <<proc, queue, spawned, alive, cmds, cancelEvent, drainEvent>>
    BY <1>4, <2>1 DEF FinishLoad, Reply
  <2>3. resps' \in Seq(Responses)
    BY <1>3, <2>2, IsResponse
  <2>4. QED
    BY <1>1, <1>2, <2>2, <2>3, IsJob DEF WorkerTypeOK
<1>5. CASE StallLoad
  BY <1>1, <1>2, <1>3, <1>5, IsResponse DEF StallLoad, Reply, WorkerTypeOK
<1>6. CASE TakeCommand
  <2>1. Head(cmds) \in Commands /\ Tail(cmds) \in Seq(Commands)
    BY <1>2, <1>6, Tails DEF TakeCommand
  <2>2. Head(cmds).type = "generate" => Head(cmds).id \in Streams
    BY <2>1, IsCommand
  <2>3. \/ job' = job \/ job' \in Jobs
    BY <1>6, <2>2, IsJob DEF TakeCommand
  <2>4. resps' \in Seq(Responses)
    BY <1>2, <1>3, <1>6, <2>2, IsResponse DEF TakeCommand, Reply
  <2>5. held' \in Models \cup {NoModel} /\ cancelEvent' \in BOOLEAN
    BY <1>2, <1>6 DEF TakeCommand
  <2>6. cmds' = Tail(cmds) /\ UNCHANGED <<proc, queue, spawned, alive, drainEvent>> /\ alive
    BY <1>6 DEF TakeCommand
  <2>7. QED
    BY <1>1, <1>2, <2>1, <2>3, <2>4, <2>5, <2>6 DEF WorkerTypeOK
<1>7. CASE StartGenerate
  <2>1. job.id \in Streams
    BY <1>2, <1>7, IsJob DEF StartGenerate
  <2>2. job' \in Jobs /\ resps' \in Seq(Responses)
    BY <1>2, <1>3, <1>7, <2>1, IsJob, IsResponse DEF StartGenerate, Reply
  <2>3. QED
    BY <1>1, <1>2, <1>7, <2>2 DEF StartGenerate, WorkerTypeOK
<1>8. CASE Emit \/ StopGenerate \/ FailGenerate
  <2>1. job.id \in Streams
    BY <1>2, <1>8, IsJob DEF Emit, SendToken, StopGenerate, FailGenerate
  <2>2. resps' \in Seq(Responses)
    BY <1>2, <1>3, <1>8, <2>1, IsResponse DEF Emit, SendToken, StopGenerate, FailGenerate, Reply
  <2>3. QED
    BY <1>1, <1>2, <1>8, <2>2, IsJob
       DEF Emit, SendToken, StopGenerate, FailGenerate, WorkerTypeOK
<1>9. CASE Crash
  BY <1>1, <1>2, <1>9, IsJob DEF Crash, WorkerTypeOK, channel
<1>10. QED
  BY <1>4, <1>5, <1>6, <1>7, <1>8, <1>9 DEF WorkerStep

\* One request's threads.
RequestStep(r) ==
  \/ r \in Locked  /\ (BeginLocked(r) \/ LockedStep(r))
  \/ r \in Compare /\ (BeginCompare(r) \/ CompareStep(r))
  \/ StreamStep(r) \/ CloseStream(r)

LEMMA SourceType ==
  ASSUME TypeOK, NEW r \in Streams, Source(r) # <<>>, Pop(r)
  PROVE  /\ Head(Source(r)) \in Responses
         /\ resps' \in Seq(Responses) /\ mailbox' \in [Compare -> Seq(StreamEvents)]
         /\ resps' = resps \/ (r \in Locked /\ resps # <<>> /\ resps' = Tail(resps))
<1>1. /\ resps \in Seq(Responses) /\ mailbox \in [Compare -> Seq(StreamEvents)]
      /\ r \in Locked \/ r \in Compare
  BY DEF TypeOK, WorkerTypeOK, Streams
<1>2. CASE r \in Locked
  <2>1. resps # <<>> /\ Source(r) = resps /\ resps' = Tail(resps) /\ mailbox' = mailbox
    BY <1>2 DEF Source, Pop
  <2>2. QED
    BY <1>1, <1>2, <2>1, Tails
<1>3. CASE r \notin Locked
  <2>1. /\ r \in Compare /\ mailbox[r] # <<>> /\ Source(r) = mailbox[r] /\ resps' = resps
        /\ mailbox' = [mailbox EXCEPT ![r] = Tail(mailbox[r])]
    BY <1>1, <1>3 DEF Source, Pop
  <2>2. mailbox[r] \in Seq(StreamEvents)
    BY <1>1, <2>1
  <2>3. Head(mailbox[r]) \in StreamEvents /\ Tail(mailbox[r]) \in Seq(StreamEvents)
    BY <2>1, <2>2, Tails
  <2>4. mailbox' \in [Compare -> Seq(StreamEvents)]
    BY <1>1, <2>1, <2>3
  <2>5. QED
    BY <1>1, <2>1, <2>3, <2>4, IsResponse
<1>4. QED
  BY <1>2, <1>3

\* A request's step stays with the request, but for a command it sends, an
\* event it takes, the dispatcher and _gen_lock.
LEMMA RequestSteps ==
  ASSUME TypeOK, NEW r \in Streams, RequestStep(r)
  PROVE  /\ TypeOK'
         /\ UNCHANGED <<proc, queue, spawned, alive, drainEvent, held, job, active, loading,
                        unloadPending, loadVars>>
         /\ cmds' \in {cmds, Append(cmds, Generate(r)), Append(cmds, Reset)}
         /\ resps' = resps \/ (resps # <<>> /\ resps' = Tail(resps))
<1>1. /\ proc \in Nat /\ queue \in Nat /\ cmds \in Seq(Commands) /\ resps \in Seq(Responses) /\ WorkerTypeOK
      /\ active \in Models \cup {NoModel}
      /\ cancelEvent \in BOOLEAN /\ genLock \in Streams \cup {Unloader, Nobody}
      /\ dispatcher \in BOOLEAN /\ registered \subseteq Compare
      /\ phase \in [Streams -> Phases] /\ expected \in [Streams -> Models \cup {NoModel}]
      /\ latched \in [Streams -> Nat] /\ latchedQueue \in [Streams -> Nat]
      /\ seen \in [Streams -> SUBSET Streams]
      /\ unloadPending \in BOOLEAN
  BY DEF TypeOK, WorkerTypeOK
<1> DEFINE Same == UNCHANGED <<proc, queue, spawned, alive, drainEvent, held, job, active, loading,
                               unloadPending, loadVars>>
<1>2. ASSUME Same, cmds' \in {cmds, Append(cmds, Generate(r)), Append(cmds, Reset)},
             cancelEvent' \in BOOLEAN, resps' \in Seq(Responses),
             genLock' \in Streams \cup {Unloader, Nobody},
             dispatcher' \in BOOLEAN, registered' \subseteq Compare,
             mailbox' \in [Compare -> Seq(StreamEvents)],
             phase' \in [Streams -> Phases], expected' \in [Streams -> Models \cup {NoModel}],
             latched' \in [Streams -> Nat], latchedQueue' \in [Streams -> Nat],
             seen' \in [Streams -> SUBSET Streams]
      PROVE  TypeOK'
  <2>1. Append(cmds, Generate(r)) \in Seq(Commands) /\ Append(cmds, Reset) \in Seq(Commands)
    BY <1>1, IsCommand, AppendProperties
  <2>2. cmds' \in Seq(Commands)
    BY <1>1, <1>2, <2>1
  <2>3. WorkerTypeOK'
    BY <1>2, <2>2 DEF TypeOK, WorkerTypeOK
  <2>4. QED
    BY <1>2, <2>3 DEF TypeOK, loadVars
<1>3. \A p \in Phases : [phase EXCEPT ![r] = p] \in [Streams -> Phases]
  BY <1>1
<1>4. /\ [expected EXCEPT ![r] = active] \in [Streams -> Models \cup {NoModel}]
      /\ [latched EXCEPT ![r] = proc] \in [Streams -> Nat]
      /\ [latchedQueue EXCEPT ![r] = queue] \in [Streams -> Nat]
  BY <1>1
<1>5. {"new", "idle", "stop", "lock", "start", "register", "registerOwn", "stopOwn", "send",
       "stream", "drain", "done"} \subseteq Phases
  BY DEF Phases
<1> HIDE DEF Same
<1>6. CASE BeginLocked(r) \/ BeginCompare(r)
  <2>1. /\ Same /\ UNCHANGED <<cmds, resps, cancelEvent, genLock, dispatcher, registered, mailbox,
                               latched, latchedQueue, seen>>
        /\ \E p \in {"idle", "start", "done"} : phase' = [phase EXCEPT ![r] = p]
        /\ expected' \in {expected, [expected EXCEPT ![r] = active]}
    BY <1>6 DEF BeginLocked, BeginCompare, Goto, Same, workerVars, channel, routing, loadVars
  <2>2. phase' \in [Streams -> Phases]
    BY <1>3, <1>5, <2>1
  <2>3. expected' \in [Streams -> Models \cup {NoModel}]
    BY <1>1, <1>4, <2>1
  <2>4. mailbox' \in [Compare -> Seq(StreamEvents)]
    BY <2>1 DEF TypeOK
  <2>5. QED
    BY <1>1, <1>2, <2>1, <2>2, <2>3, <2>4 DEF Same
<1>7. CASE SeeIdle(r) \/ StopIdle(r) \/ (r \in Compare /\ (StartDispatcher(r) \/ Register(r) \/ StopOwn(r)))
  <2>1. /\ Same /\ UNCHANGED <<cmds, resps, cancelEvent, genLock, mailbox, expected, latched, latchedQueue, seen>>
        /\ \E p \in {"lock", "stop", "register", "registerOwn", "send", "stopOwn", "done"} :
             phase' = [phase EXCEPT ![r] = p]
        /\ dispatcher' \in BOOLEAN
        /\ registered' = registered \/ (r \in Compare /\ registered' = registered \cup {r})
    BY <1>1, <1>7 DEF SeeIdle, StopIdle, StartDispatcher, Register, StopOwn, Goto, Same,
                      workerVars, channel, routing, loadVars
  <2>2. QED
    BY <1>1, <1>2, <1>3, <1>5, <2>1 DEF TypeOK, Same
<1>8. CASE LockAndSend(r) \/ SendCompare(r)
  <2>1. /\ Same /\ UNCHANGED <<resps, cancelEvent, mailbox, expected, seen, dispatcher>>
        /\ \E p \in {"done", "stream"} : phase' = [phase EXCEPT ![r] = p]
        /\ genLock' \in {genLock, r}
        /\ registered' \subseteq registered
        /\ latched' \in {latched, [latched EXCEPT ![r] = proc]}
        /\ latchedQueue' \in {latchedQueue, [latchedQueue EXCEPT ![r] = queue]}
        /\ cmds' \in {cmds, Append(cmds, Generate(r))}
    BY <1>8 DEF LockAndSend, SendCompare, Goto, Send, Latch, Same, routing, loadVars
  <2>2. phase' \in [Streams -> Phases]
    BY <1>3, <1>5, <2>1
  <2>3. latched' \in [Streams -> Nat] /\ latchedQueue' \in [Streams -> Nat]
    BY <1>1, <1>4, <2>1
  <2>4. cmds' \in {cmds, Append(cmds, Generate(r)), Append(cmds, Reset)}
    BY <2>1
  <2>5. mailbox' \in [Compare -> Seq(StreamEvents)]
    BY <2>1 DEF TypeOK
  <2>6. QED
    BY <1>1, <1>2, <2>1, <2>2, <2>3, <2>4, <2>5 DEF Same
<1>9. CASE LoseWorker(r)
  <2>1. /\ Same /\ UNCHANGED <<cmds, resps, cancelEvent, mailbox, expected, latched, latchedQueue, seen, dispatcher>>
        /\ phase' = [phase EXCEPT ![r] = "done"] /\ genLock' \in {genLock, Nobody}
        /\ registered' \subseteq registered
    BY <1>9 DEF LoseWorker, Finish, Goto, Same, workerVars, channel, loadVars
  <2>2. QED
    BY <1>1, <1>2, <1>3, <1>5, <2>1 DEF TypeOK, Same
<1>10. CASE CloseStream(r)
  <2>1. /\ Same /\ UNCHANGED <<resps, mailbox, expected, latched, latchedQueue, seen, dispatcher>>
        /\ phase' = [phase EXCEPT ![r] = "done"] /\ genLock' \in {genLock, Nobody}
        /\ registered' \subseteq registered
        /\ cmds' \in {cmds, Append(cmds, Reset)} /\ cancelEvent' \in BOOLEAN
    BY <1>10 DEF CloseStream, Finish, Send, Goto, Same, workerVars, channel, loadVars
  <2>2. QED
    BY <1>1, <1>2, <1>3, <1>5, <2>1 DEF TypeOK, Same
<1>11. CASE DrainEvent(r)
  <2>1. /\ Same /\ UNCHANGED <<cmds, cancelEvent, expected, latched, latchedQueue, seen, dispatcher>>
        /\ phase' \in {phase, [phase EXCEPT ![r] = "done"]} /\ genLock' \in {genLock, Nobody}
        /\ registered' \subseteq registered
        /\ (Source(r) # <<>> /\ Pop(r)) \/ UNCHANGED <<resps, mailbox>>
    BY <1>11 DEF DrainEvent, Finish, Stay, Goto, Same, loadVars
  <2>2. /\ resps' \in Seq(Responses) /\ mailbox' \in [Compare -> Seq(StreamEvents)]
        /\ resps' = resps \/ (resps # <<>> /\ resps' = Tail(resps))
    BY <1>1, <2>1, SourceType DEF TypeOK
  <2>3. QED
    BY <1>1, <1>2, <1>3, <1>5, <2>1, <2>2 DEF Same
<1>12. CASE ReadEvent(r)
  <2> DEFINE e == Head(Source(r))
  <2>1. /\ Same /\ UNCHANGED <<cmds, expected, latched, latchedQueue, dispatcher>>
        /\ Source(r) # <<>> /\ Pop(r)
        /\ cancelEvent' \in {cancelEvent, TRUE}
        /\ phase' \in {phase, [phase EXCEPT ![r] = "drain"], [phase EXCEPT ![r] = "done"]}
        /\ genLock' \in {genLock, Nobody} /\ registered' \subseteq registered
        /\ \/ seen' = seen
           \/ /\ e.type = "token" \/ EndsStream(e)
              /\ seen' = [seen EXCEPT ![r] = seen[r] \cup {e.id}]
    BY <1>1, <1>12 DEF ReadEvent, Finish, Stay, Goto, Same, loadVars
  <2>2. /\ resps' \in Seq(Responses) /\ mailbox' \in [Compare -> Seq(StreamEvents)]
        /\ resps' = resps \/ (resps # <<>> /\ resps' = Tail(resps))
        /\ e \in Responses
    BY <2>1, SourceType
  <2>3. e.type = "token" \/ EndsStream(e) => e.id \in Streams
    BY <2>2, IsResponse DEF EndsStream
  <2> HIDE DEF e
  <2>4. seen' \in [Streams -> SUBSET Streams]
    <3>1. e.id \in Streams => seen[r] \cup {e.id} \in SUBSET Streams
      BY <1>1
    <3>2. e.id \in Streams => [seen EXCEPT ![r] = seen[r] \cup {e.id}] \in [Streams -> SUBSET Streams]
      BY <1>1, <3>1
    <3>3. QED
      BY <1>1, <2>1, <2>3, <3>2
  <2>5. phase' \in [Streams -> Phases]
    <3>1. phase' \in {phase, [phase EXCEPT ![r] = "drain"], [phase EXCEPT ![r] = "done"]}
      BY <2>1
    <3>2. QED
      BY <1>1, <1>3, <1>5, <3>1
  <2>6. QED
    BY <1>1, <1>2, <2>1, <2>2, <2>4, <2>5 DEF Same
<1>13. QED
  BY <1>6, <1>7, <1>8, <1>9, <1>10, <1>11, <1>12
     DEF RequestStep, LockedStep, CompareStep, StreamStep

\* The dispatcher moves an event from the queue to a mailbox, or ends.
LEMMA DispatcherSteps ==
  ASSUME TypeOK, DispatchOne \/ DispatcherEnds
  PROVE  /\ TypeOK' /\ dispatcher
         /\ UNCHANGED <<proc, queue, spawned, alive, cmds, cancelEvent, drainEvent, held, job, active,
                        loading, unloadPending, genLock, registered, streamVars, loadVars>>
         /\ resps' = resps \/ (resps # <<>> /\ resps' = Tail(resps))
<1>1. CASE DispatcherEnds
  <2>1. /\ dispatcher /\ dispatcher' = FALSE /\ UNCHANGED workerVars
        /\ UNCHANGED <<active, loading, unloadPending, genLock, registered, mailbox, streamVars,
                       loadVars>>
    BY <1>1 DEF DispatcherEnds
  <2>2. WorkerTypeOK'
    BY <2>1 DEF TypeOK, WorkerTypeOK, workerVars, channel
  <2>3. /\ UNCHANGED <<active, loading, unloadPending, genLock, registered, mailbox, phase,
                       expected, latched, latchedQueue, seen, gate, loader, unloader, canceller, stopped>>
        /\ dispatcher' \in BOOLEAN
    BY <2>1 DEF streamVars, loadVars
  <2>4. TypeOK'
    BY <2>2, <2>3 DEF TypeOK
  <2>5. QED
    BY <2>1, <2>4 DEF workerVars, channel
<1>2. CASE DispatchOne
  <2> DEFINE e == Head(resps)
  <2>1. /\ dispatcher /\ resps # <<>> /\ resps' = Tail(resps)
        /\ UNCHANGED <<proc, queue, spawned, alive, cmds, cancelEvent, drainEvent, held, job, active,
                       loading, unloadPending, genLock, dispatcher, registered, streamVars,
                       loadVars>>
        /\ \/ mailbox' = mailbox
           \/ /\ e \in StreamEvents /\ e.id \in registered
              /\ mailbox' = [mailbox EXCEPT ![e.id] = Append(mailbox[e.id], e)]
    BY <1>2 DEF DispatchOne
  <2>2. /\ mailbox \in [Compare -> Seq(StreamEvents)] /\ registered \subseteq Compare
        /\ resps \in Seq(Responses)
    BY DEF TypeOK, WorkerTypeOK
  <2>3. resps' \in Seq(Responses)
    BY <2>1, <2>2, Tails
  <2> HIDE DEF e
  <2>4. mailbox' \in [Compare -> Seq(StreamEvents)]
    <3>1. ASSUME e \in StreamEvents, e.id \in registered
          PROVE  e.id \in Compare /\ Append(mailbox[e.id], e) \in Seq(StreamEvents)
      BY <2>2, <3>1, AppendProperties
    <3>2. QED
      BY <2>1, <2>2, <3>1
  <2>5. WorkerTypeOK'
    BY <2>1, <2>3 DEF TypeOK, WorkerTypeOK
  <2>6. QED
    BY <2>1, <2>4, <2>5 DEF TypeOK, streamVars, loadVars
<1>3. QED
  BY <1>1, <1>2

\* The operators of the model that load, cancel and unload.
Loads    == (\E m \in Models : BeginLoad(m)) \/ RefuseForRepair \/ LoadStep
Cancels  == BeginCancel \/ CancelStep
Unloads  == BeginUnload \/ UnloadStep
Places   == {"idle", "kill", "check", "spawn", "post", "wait", "publish"}
Waits    == {"idle", "pending", "drain", "cancel", "lock", "wait_idle", "stop", "send",
             "reply", "finally", "undrain"}
Loaders    == [pc : Places, model : Models \cup {NoModel}, attempt : 0..2]
Cancellers == [pc : {"idle", "teardown", "clear"}, model : Models \cup {NoModel},
               settle : BOOLEAN]

LEMMA TypeKept ==
  ASSUME TypeOK, WorkerTypeOK', UNCHANGED <<registered, mailbox, streamVars>>,
         active' \in Models \cup {NoModel}, loading' \subseteq Models,
         unloadPending' \in BOOLEAN, genLock' \in Streams \cup {Unloader, Nobody},
         dispatcher' \in BOOLEAN, gate' \in {"free", "load", "unload"},
         loader' \in Loaders,
         unloader' \in Waits, canceller' \in Cancellers,
         stopped' \in Models \cup {NoModel}
  PROVE  TypeOK'
<1>1. UNCHANGED <<registered, mailbox, phase, expected, latched, latchedQueue, seen>>
  BY DEF streamVars
<1>2. QED
  BY <1>1 DEF TypeOK, Places, Waits, Loaders, Cancellers

LEMMA WorkerKept ==
  ASSUME WorkerTypeOK, UNCHANGED <<proc, queue, spawned, alive, held, job>>,
         resps' \in Seq(Responses), cmds' \in Seq(Commands),
         cancelEvent' \in BOOLEAN, drainEvent' \in BOOLEAN
  PROVE  WorkerTypeOK'
BY DEF WorkerTypeOK

\* A load touches no request and no unload, and it starts no dispatcher.
LEMMA LoadSteps ==
  ASSUME TypeOK, GateInv, Loads
  PROVE  /\ TypeOK' /\ UNCHANGED parentButLoad
         /\ dispatcher' => dispatcher
         /\ (\A i \in DOMAIN resps : resps[i] # Stall) => \A i \in DOMAIN resps' : resps'[i] # Stall
<1>1. /\ WorkerTypeOK /\ resps \in Seq(Responses) /\ cmds \in Seq(Commands)
      /\ cancelEvent \in BOOLEAN /\ drainEvent \in BOOLEAN
      /\ active \in Models \cup {NoModel} /\ loading \subseteq Models
      /\ unloadPending \in BOOLEAN /\ genLock \in Streams \cup {Unloader, Nobody}
      /\ dispatcher \in BOOLEAN /\ gate \in {"free", "load", "unload"}
      /\ loader \in Loaders
      /\ unloader \in Waits
      /\ canceller \in Cancellers
      /\ stopped \in Models \cup {NoModel}
      /\ spawned \in Nat
  BY DEF TypeOK, WorkerTypeOK, Places, Waits, Loaders, Cancellers
<1>2. ASSUME UNCHANGED parentButLoad, WorkerTypeOK', dispatcher' => dispatcher, dispatcher' \in BOOLEAN,
             active' \in Models \cup {NoModel}, loading' \subseteq Models,
             gate' \in {"free", "load", "unload"},
             loader' \in Loaders,
             stopped' \in Models \cup {NoModel},
             (\A i \in DOMAIN resps : resps[i] # Stall) => \A i \in DOMAIN resps' : resps'[i] # Stall
      PROVE  /\ TypeOK' /\ UNCHANGED parentButLoad /\ (dispatcher' => dispatcher)
             /\ (\A i \in DOMAIN resps : resps[i] # Stall) => \A i \in DOMAIN resps' : resps'[i] # Stall
  <2>1. UNCHANGED <<registered, mailbox, streamVars, unloadPending, genLock, unloader, canceller>>
    BY <1>2 DEF parentButLoad
  <2>2. TypeOK'
    BY <1>1, <1>2, <2>1, TypeKept
  <2>3. QED
    BY <1>2, <2>2
<1>3. {"idle", "kill", "check", "spawn", "post", "wait", "publish"} \subseteq Places
  BY DEF Places
<1>4. /\ IdleLoader \in Loaders /\ loader.model \in Models \cup {NoModel}
      /\ \A p \in Places : [loader EXCEPT !.pc = p] \in Loaders
      /\ \A m \in Models : [pc |-> "kill", model |-> m, attempt |-> 1] \in Loaders
      /\ [loader EXCEPT !.pc = "check", !.attempt = 2] \in Loaders
  <2>1. 0 \in 0..2 /\ 1 \in 0..2 /\ 2 \in 0..2
    OBVIOUS
  <2>2. [loader EXCEPT !.pc = "check", !.attempt = 2] \in Loaders
    BY <1>1, <1>3, <2>1 DEF Loaders
  <2>3. IdleLoader \in Loaders
    BY <1>3, <2>1 DEF Loaders, IdleLoader
  <2>4. QED
    BY <1>1, <1>3, <2>1, <2>2, <2>3 DEF Loaders
<1>5. CASE \E m \in Models : BeginLoad(m)
  <2>1. PICK m \in Models : BeginLoad(m)
    BY <1>5
  <2>2. /\ UNCHANGED <<workerVars, active, dispatcher>> /\ UNCHANGED parentButLoad
        /\ loading' = loading \cup {m} /\ gate' = "load" /\ stopped' = NoModel
        /\ loader' = [pc |-> "kill", model |-> m, attempt |-> 1]
    BY <2>1 DEF BeginLoad
  <2>3. WorkerTypeOK' /\ resps' = resps
    BY <1>1, <2>2 DEF WorkerTypeOK, workerVars, channel
  <2>4. QED
    BY <1>1, <1>2, <1>4, <2>2, <2>3
<1>6. CASE RefuseForRepair \/ LoadFails \/ Publish \/ CheckBeforeSpawn
  <2>1. /\ UNCHANGED <<workerVars, dispatcher, stopped>> /\ UNCHANGED parentButLoad
        /\ loading' \subseteq loading /\ gate' \in {gate, "free"}
        /\ active' \in {active, NoModel, loader.model}
        /\ loader' \in {IdleLoader, [loader EXCEPT !.pc = "spawn"]}
    BY <1>6 DEF RefuseForRepair, LoadFails, Publish, CheckBeforeSpawn, Discard, LoadReturns,
                LoadRaises, LoaderAt, ForgetModels
  <2>2. WorkerTypeOK' /\ resps' = resps
    BY <1>1, <2>1 DEF WorkerTypeOK, workerVars, channel
  <2>3. QED
    BY <1>1, <1>2, <1>3, <1>4, <2>1, <2>2
<1>7. CASE KillOld \/ HandleStall \/ (CheckAfterSpawn /\ ~Marked)
  <2>1. PICK s \in MaySurvive :
          /\ Shutdown(s) \/ UNCHANGED <<workerVars, dispatcher>>
          /\ UNCHANGED stopped /\ UNCHANGED parentButLoad
          /\ loading' \subseteq loading /\ gate' \in {gate, "free"}
          /\ active' \in {active, NoModel}
          /\ loader' \in {IdleLoader, [loader EXCEPT !.pc = "check"],
                          [loader EXCEPT !.pc = "check", !.attempt = 2]}
    BY <1>7 DEF KillOld, ShutdownOld, HandleStall, CheckAfterSpawn, Discard, LoadReturns, LoadRaises,
                LoaderAt, ForgetModels
  <2>2. WorkerTypeOK' /\ (dispatcher' => dispatcher) /\ (resps' = resps \/ resps' = <<>>)
    <3>1. CASE Shutdown(s)
      BY <1>1, <3>1, Shuts
    <3>2. CASE UNCHANGED <<workerVars, dispatcher>>
      BY <1>1, <3>2 DEF WorkerTypeOK, workerVars, channel
    <3>3. QED
      BY <2>1, <3>1, <3>2
  <2>3. dispatcher' \in BOOLEAN
    BY <1>1, <2>1 DEF Shutdown
  <2>4. (\A i \in DOMAIN resps : resps[i] # Stall) => \A i \in DOMAIN resps' : resps'[i] # Stall
    BY <2>2, NoEntries
  <2>5. QED
    BY <1>1, <1>2, <1>3, <1>4, <2>1, <2>2, <2>3, <2>4
<1>8. CASE SpawnWorker
  <2>1. /\ Spawn(loader.model) /\ loader.pc = "spawn" /\ loader' = [loader EXCEPT !.pc = "post"]
        /\ UNCHANGED <<gate, active, loading, dispatcher, stopped>> /\ UNCHANGED parentButLoad
    BY <1>8 DEF SpawnWorker, LoaderAt
  <2>2. loader.model \in Models
    BY <2>1 DEF GateInv
  <2>3. /\ resps' = <<>> /\ cmds' = <<>> /\ job' = Loading(loader.model) /\ held' = NoModel
        /\ spawned' = spawned + 1 /\ proc' = spawned + 1 /\ queue' = spawned + 1 /\ alive' = TRUE
        /\ cancelEvent' = FALSE /\ drainEvent' = FALSE
    BY <2>1 DEF Spawn
  <2>4. WorkerTypeOK'
    <3>1. resps' \in Seq(Responses) /\ cmds' \in Seq(Commands) /\ job' \in Jobs
      BY <2>2, <2>3, NoEntries, IsJob
    <3>2. /\ proc' \in Nat /\ spawned' \in Nat /\ proc' <= spawned'
          /\ queue' \in Nat /\ queue' <= spawned'
      BY <1>1, <2>3
    <3>3. QED
      BY <2>3, <3>1, <3>2 DEF WorkerTypeOK
  <2>5. \A i \in DOMAIN resps' : resps'[i] # Stall
    BY <2>3, NoEntries
  <2>6. QED
    BY <1>1, <1>2, <1>3, <1>4, <2>1, <2>4, <2>5
<1>9. CASE CheckAfterSpawn /\ Marked
  <2>1. /\ UNCHANGED <<workerVars, dispatcher, gate, active, loading, stopped>>
        /\ UNCHANGED parentButLoad /\ loader' = [loader EXCEPT !.pc = "wait"]
    BY <1>9 DEF CheckAfterSpawn, LoaderAt
  <2>2. WorkerTypeOK' /\ resps' = resps
    BY <1>1, <2>1 DEF WorkerTypeOK, workerVars, channel
  <2>3. QED
    BY <1>1, <1>2, <1>3, <1>4, <2>1, <2>2
<1>10. CASE AwaitLoaded
  <2>1. /\ resps # <<>> /\ resps' = Tail(resps) /\ UNCHANGED parentButLoad
        /\ UNCHANGED <<proc, queue, spawned, alive, cmds, cancelEvent, drainEvent, held, job, dispatcher,
                       stopped>>
        /\ loading' \subseteq loading /\ gate' \in {gate, "free"}
        /\ active' \in {active, NoModel}
        /\ loader' \in {loader, IdleLoader, [loader EXCEPT !.pc = "publish"]}
    BY <1>10 DEF AwaitLoaded, Discard, LoadReturns, LoadRaises, LoaderAt, ForgetModels
  <2>2. /\ resps' \in Seq(Responses)
        /\ \A i \in DOMAIN resps' : \E k \in DOMAIN resps : resps'[i] = resps[k]
    BY <1>1, <2>1, Tails
  <2>3. WorkerTypeOK'
    BY <1>1, <2>1, <2>2, WorkerKept
  <2>4. (\A i \in DOMAIN resps : resps[i] # Stall) => \A i \in DOMAIN resps' : resps'[i] # Stall
    BY <2>2
  <2>5. QED
    BY <1>1, <1>2, <1>3, <1>4, <2>1, <2>3, <2>4
<1>11. QED
  BY <1>5, <1>6, <1>7, <1>8, <1>9, <1>10 DEF Loads, LoadStep

\* A cancel touches no request, no load but its marker, and no unload.
LEMMA CancelSteps ==
  ASSUME TypeOK, Cancels
  PROVE  /\ TypeOK' /\ UNCHANGED parentButCancel
         /\ dispatcher' => dispatcher
         /\ \/ UNCHANGED workerVars
            \/ \E s \in MaySurvive : Shutdown(s)
<1>1. /\ WorkerTypeOK
      /\ active \in Models \cup {NoModel} /\ loading \subseteq Models
      /\ unloadPending \in BOOLEAN /\ genLock \in Streams \cup {Unloader, Nobody}
      /\ dispatcher \in BOOLEAN /\ gate \in {"free", "load", "unload"} /\ alive \in BOOLEAN
      /\ loader \in Loaders
      /\ unloader \in Waits
      /\ canceller \in Cancellers
      /\ stopped \in Models \cup {NoModel}
  BY DEF TypeOK, WorkerTypeOK, Places, Waits, Loaders, Cancellers
<1>2. ASSUME UNCHANGED parentButCancel, WorkerTypeOK', dispatcher' \in BOOLEAN,
             active' \in Models \cup {NoModel}, loading' \subseteq Models,
             canceller' \in Cancellers, stopped' \in Models \cup {NoModel}
      PROVE  TypeOK'
  <2>1. UNCHANGED <<registered, mailbox, streamVars, unloadPending, genLock, unloader, gate, loader>>
    BY <1>2 DEF parentButCancel
  <2>2. QED
    BY <1>1, <1>2, <2>1, TypeKept
<1>3. /\ canceller.model \in Models \cup {NoModel}
      /\ IdleCancel \in Cancellers /\ [canceller EXCEPT !.pc = "clear", !.settle = alive] \in Cancellers
      /\ \A m \in Models : [pc |-> "teardown", model |-> m, settle |-> FALSE] \in Cancellers
  BY <1>1 DEF IdleCancel, Cancellers
<1>4. CASE BeginCancel \/ CancelClearsAgain
  <2>1. /\ UNCHANGED <<workerVars, dispatcher>> /\ UNCHANGED parentButCancel
        /\ loading' \subseteq loading /\ active' = NoModel
        /\ stopped' \in {stopped, canceller.model}
        /\ \/ canceller' = IdleCancel
           \/ \E m \in loading : canceller' = [pc |-> "teardown", model |-> m, settle |-> FALSE]
    BY <1>4 DEF BeginCancel, CancelClearsAgain, ForgetModels
  <2>2. WorkerTypeOK'
    BY <1>1, <2>1 DEF WorkerTypeOK, workerVars, channel
  <2>3. canceller' \in Cancellers
    BY <1>1, <1>3, <2>1
  <2>4. /\ dispatcher' \in BOOLEAN /\ active' \in Models \cup {NoModel}
        /\ loading' \subseteq Models /\ stopped' \in Models \cup {NoModel}
    BY <1>1, <1>3, <2>1
  <2>5. TypeOK'
    BY <1>2, <2>1, <2>2, <2>3, <2>4
  <2>6. QED
    BY <2>1, <2>5
<1>5. CASE CancelTeardown
  <2>1. PICK s \in MaySurvive :
          /\ Shutdown(s) /\ UNCHANGED <<active, loading, stopped>> /\ UNCHANGED parentButCancel
          /\ canceller' = [canceller EXCEPT !.pc = "clear", !.settle = alive]
    BY <1>5 DEF CancelTeardown
  <2>2. WorkerTypeOK' /\ ~dispatcher'
    BY <1>1, <2>1, Shuts
  <2>3. dispatcher' \in BOOLEAN
    BY <2>1 DEF Shutdown
  <2>4. TypeOK'
    BY <1>1, <1>2, <1>3, <2>1, <2>2, <2>3
  <2>5. QED
    BY <2>1, <2>2, <2>4
<1>6. QED
  BY <1>4, <1>5 DEF Cancels, CancelStep

\* An unload touches no request, no load and no cancel; it starts no dispatcher.
\* What it does to the worker is a command, an event, a read or a shutdown.
LEMMA UnloadSteps ==
  ASSUME TypeOK, Unloads
  PROVE  /\ TypeOK' /\ UNCHANGED parentButUnload
         /\ dispatcher' => dispatcher
         /\ \/ /\ UNCHANGED <<proc, queue, spawned, alive, held, job>>
               /\ resps' \in {resps, <<>>} \/ (resps # <<>> /\ resps' = Tail(resps))
               /\ cmds' = cmds \/ (SendUnload /\ cmds' = Append(cmds, Unload))
            \/ UnloadByKill /\ \E s \in MaySurvive : Shutdown(s)
<1>1. /\ WorkerTypeOK /\ resps \in Seq(Responses) /\ cmds \in Seq(Commands)
      /\ cancelEvent \in BOOLEAN /\ drainEvent \in BOOLEAN
      /\ active \in Models \cup {NoModel} /\ loading \subseteq Models
      /\ unloadPending \in BOOLEAN /\ genLock \in Streams \cup {Unloader, Nobody}
      /\ dispatcher \in BOOLEAN /\ gate \in {"free", "load", "unload"}
      /\ loader \in Loaders /\ unloader \in Waits /\ canceller \in Cancellers
      /\ stopped \in Models \cup {NoModel}
  BY DEF TypeOK, WorkerTypeOK, Places, Waits, Loaders, Cancellers
<1>2. ASSUME UNCHANGED parentButUnload, WorkerTypeOK', dispatcher' \in BOOLEAN,
             active' \in {active, NoModel}, unloadPending' \in BOOLEAN,
             genLock' \in {genLock, Unloader, Nobody}, gate' \in {"free", "load", "unload"},
             unloader' \in Waits
      PROVE  TypeOK'
  <2>1. UNCHANGED <<registered, mailbox, streamVars, loading, loader, canceller, stopped>>
    BY <1>2 DEF parentButUnload
  <2>2. QED
    BY <1>1, <1>2, <2>1, TypeKept
<1>3. {"idle", "pending", "drain", "cancel", "lock", "wait_idle", "stop", "send", "reply",
       "finally", "undrain"} \subseteq Waits
  BY DEF Waits
<1>4. /\ Append(cmds, Unload) \in Seq(Commands) /\ <<>> \in Seq(Responses)
      /\ resps # <<>> => Tail(resps) \in Seq(Responses)
  BY <1>1, IsCommand, AppendProperties, NoEntries, Tails
<1>5. CASE UnloadByKill
  <2>1. PICK s \in MaySurvive : Shutdown(s)
    BY <1>5 DEF UnloadByKill
  <2>2. /\ UNCHANGED <<unloadPending, gate>> /\ UNCHANGED parentButUnload
        /\ active' = NoModel /\ genLock' \in {genLock, Nobody} /\ unloader' = "finally"
    BY <1>5 DEF UnloadByKill, ForgetModels, UnloadAt
  <2>3. WorkerTypeOK' /\ ~dispatcher' /\ dispatcher' \in BOOLEAN
    BY <1>1, <2>1, Shuts DEF Shutdown
  <2>4. TypeOK'
    BY <1>1, <1>2, <1>3, <2>2, <2>3
  <2>5. QED
    BY <1>5, <2>1, <2>2, <2>3, <2>4
<1>6. ASSUME UNCHANGED parentButUnload, UNCHANGED <<proc, queue, spawned, alive, held, job>>,
             resps' \in {resps, <<>>} \/ (resps # <<>> /\ resps' = Tail(resps)),
             cmds' = cmds \/ (SendUnload /\ cmds' = Append(cmds, Unload)),
             cancelEvent' \in BOOLEAN, drainEvent' \in BOOLEAN,
             dispatcher' \in {dispatcher, FALSE},
             active' \in {active, NoModel}, unloadPending' \in BOOLEAN,
             genLock' \in {genLock, Unloader, Nobody}, gate' \in {gate, "free", "unload"},
             unloader' \in Waits
      PROVE  /\ TypeOK' /\ UNCHANGED parentButUnload
             /\ dispatcher' => dispatcher
             /\ UNCHANGED <<proc, queue, spawned, alive, held, job>>
             /\ resps' \in {resps, <<>>} \/ (resps # <<>> /\ resps' = Tail(resps))
             /\ cmds' = cmds \/ (SendUnload /\ cmds' = Append(cmds, Unload))
  <2>1. resps' \in Seq(Responses) /\ cmds' \in Seq(Commands)
    BY <1>1, <1>4, <1>6
  <2>2. WorkerTypeOK'
    BY <1>1, <1>6, <2>1, WorkerKept
  <2>3. dispatcher' \in BOOLEAN /\ gate' \in {"free", "load", "unload"}
    BY <1>1, <1>6
  <2>4. TypeOK'
    BY <1>2, <1>6, <2>2, <2>3
  <2>5. dispatcher' => dispatcher
    BY <1>6
  <2>6. QED
    BY <1>6, <2>4, <2>5, Zenon
<1>7. CASE BeginUnload
  <2>1. /\ UNCHANGED <<workerVars, unloadPending, genLock, dispatcher>> /\ UNCHANGED parentButUnload
        /\ active' \in {active, NoModel} /\ gate' \in {gate, "unload"}
        /\ unloader' \in {unloader, "pending"}
    BY <1>7 DEF BeginUnload, UnloadAt, ForgetModels
  <2>2. QED
    BY <1>1, <1>3, <1>6, <2>1 DEF workerVars, channel
<1>8. CASE SetPending \/ ClearPending \/ TakeGenLock \/ UnloadSeesIdle \/ UnloadStopsDispatcher
           \/ UnloadFails
  <2>1. /\ UNCHANGED <<workerVars, gate>> /\ UNCHANGED parentButUnload
        /\ active' \in {active, NoModel} /\ genLock' \in {genLock, Unloader, Nobody}
        /\ dispatcher' \in {dispatcher, FALSE} /\ unloadPending' \in {unloadPending, TRUE, FALSE}
        /\ unloader' \in {"drain", "undrain", "wait_idle", "send", "stop", "finally"}
    BY <1>8 DEF SetPending, ClearPending, TakeGenLock, UnloadSeesIdle, UnloadStopsDispatcher,
                UnloadFails, UnloadAt, ForgetModels
  <2>2. unloadPending' \in BOOLEAN /\ unloader' \in Waits
    BY <1>1, <1>3, <2>1
  <2>3. QED
    BY <1>1, <1>6, <2>1, <2>2 DEF workerVars, channel
<1>9. CASE SetDrain \/ CancelRunning \/ ClearDrain
  <2>1. /\ UNCHANGED <<proc, queue, spawned, alive, cmds, resps, held, job, active, unloadPending,
                       genLock, dispatcher>> /\ UNCHANGED parentButUnload
        /\ cancelEvent' \in {cancelEvent, ~NoQueue} /\ drainEvent' \in {drainEvent, ~NoQueue, FALSE}
        /\ gate' \in {gate, "free"} /\ unloader' \in {"cancel", "lock", "idle"}
    BY <1>9 DEF SetDrain, CancelRunning, ClearDrain, UnloadAt
  <2>2. cancelEvent' \in BOOLEAN /\ drainEvent' \in BOOLEAN /\ unloader' \in Waits
    BY <1>1, <1>3, <2>1 DEF NoQueue
  <2>3. QED
    BY <1>1, <1>6, <2>1, <2>2
<1>10. CASE SendUnload \/ AwaitUnloaded
  <2>1. /\ UNCHANGED <<proc, queue, spawned, alive, cancelEvent, drainEvent, held, job, unloadPending,
                       dispatcher, gate>> /\ UNCHANGED parentButUnload
        /\ resps' \in {resps, <<>>} \/ (resps # <<>> /\ resps' = Tail(resps))
        /\ cmds' = cmds \/ (SendUnload /\ cmds' = Append(cmds, Unload))
        /\ active' \in {active, NoModel} /\ genLock' \in {genLock, Nobody}
        /\ unloader' \in {unloader, "reply", "finally"}
    BY <1>10 DEF SendUnload, AwaitUnloaded, Send, UnloadAt, ForgetModels
  <2>2. QED
    BY <1>1, <1>3, <1>6, <2>1
<1>11. QED
  BY <1>5, <1>7, <1>8, <1>9, <1>10 DEF Unloads, UnloadStep

-----------------------------------------------------------------------------
(* Every step preserves the types.                                         *)

LEMMA Steps ==
  ASSUME [Next]_vars
  PROVE  \/ UNCHANGED vars
         \/ WorkerStep
         \/ \E r \in Streams : RequestStep(r)
         \/ DispatchOne \/ DispatcherEnds
         \/ Loads \/ Cancels \/ Unloads
BY DEF Next, RequestStep, Loads, Cancels, Unloads, Streams

LEMMA TypeStep ==
  ASSUME TypeOK, GateInv, [Next]_vars
  PROVE  TypeOK'
<1>1. CASE UNCHANGED vars
  <2>1. WorkerTypeOK'
    BY <1>1 DEF TypeOK, WorkerTypeOK, vars, workerVars, channel
  <2>2. QED
    BY <1>1, <2>1 DEF TypeOK, vars, parentVars, routing, streamVars, loadVars
<1>2. CASE WorkerStep
  <2>1. WorkerTypeOK' /\ UNCHANGED parentVars
    BY <1>2, WorkerSteps DEF TypeOK
  <2>2. QED
    BY <2>1 DEF TypeOK, parentVars, routing, streamVars, loadVars
<1>3. QED
  BY <1>1, <1>2, Steps, RequestSteps, DispatcherSteps, LoadSteps, CancelSteps, UnloadSteps

-----------------------------------------------------------------------------
(* Every step preserves the gate and its marker.                           *)

LEMMA GateStep ==
  ASSUME TypeOK, GateInv, [Next]_vars
  PROVE  GateInv'
<1>1. ASSUME UNCHANGED loading, UNCHANGED loadVars PROVE GateInv'
  BY <1>1 DEF GateInv, loadVars
<1>2. CASE WorkerStep
  BY <1>1, <1>2, WorkerSteps DEF TypeOK, parentVars
<1>3. CASE UNCHANGED vars
  BY <1>1, <1>3 DEF vars, parentVars
<1>4. ASSUME NEW r \in Streams, RequestStep(r) PROVE GateInv'
  BY <1>1, <1>4, RequestSteps
<1>5. CASE DispatchOne \/ DispatcherEnds
  BY <1>1, <1>5, DispatcherSteps
<1>6. /\ loader \in Loaders /\ loading \subseteq Models /\ canceller \in Cancellers
      /\ IdleLoader.pc = "idle" /\ IdleCancel.pc = "idle" /\ NoModel \notin Models
  BY ModelsAssumption DEF TypeOK, Loaders, Cancellers, Places, IdleLoader, IdleCancel
<1>7. CASE Loads
  <2>1. UNCHANGED <<unloader, canceller>>
    BY <1>7, LoadSteps DEF parentButLoad
  <2>2. ASSUME NEW m \in Models, BeginLoad(m) PROVE GateInv'
    <3>1. /\ loader.pc = "idle" /\ gate = "free" /\ canceller.pc = "idle"
          /\ gate' = "load" /\ loading' = loading \cup {m} /\ stopped' = NoModel
          /\ loader'.pc = "kill" /\ loader'.model = m
      BY <2>2 DEF BeginLoad
    <3>2. QED
      BY <2>1, <3>1 DEF GateInv
  <2>3. CASE loader.pc # "idle" /\ loader' = IdleLoader /\ gate' = "free"
             /\ loading' \subseteq loading \ {loader.model} /\ stopped' = stopped
    BY <1>6, <2>1, <2>3 DEF GateInv
  <2>4. CASE loader.pc # "idle" /\ loader'.pc # "idle" /\ loader'.model = loader.model
             /\ gate' = gate /\ loading' = loading /\ stopped' = stopped
    BY <1>6, <2>1, <2>4 DEF GateInv
  <2>5. ASSUME NEW p \in Places \ {"idle"}, LoaderAt(p)
        PROVE  loader'.pc # "idle" /\ loader'.model = loader.model
    BY <1>6, <2>5 DEF LoaderAt, Loaders
  <2>6. {"check", "spawn", "post", "wait", "publish"} \subseteq Places \ {"idle"}
    BY DEF Places
  <2>7. CASE RefuseForRepair \/ LoadFails \/ Publish
    BY <2>3, <2>7 DEF RefuseForRepair, LoadFails, Publish, LoadRaises, LoadReturns, Discard
  <2>8. CASE KillOld
    BY <2>3, <2>4, <2>5, <2>6, <2>8 DEF KillOld, LoadRaises, LoadReturns, Discard
  <2>9. CASE CheckBeforeSpawn \/ CheckAfterSpawn
    <3>1. ASSUME ~Marked PROVE loading \subseteq loading \ {loader.model}
      BY <3>1 DEF Marked
    <3>2. QED
      BY <2>3, <2>4, <2>5, <2>6, <2>9, <3>1 DEF CheckBeforeSpawn, CheckAfterSpawn, LoadReturns
  <2>10. CASE SpawnWorker
    BY <2>4, <2>5, <2>6, <2>10 DEF SpawnWorker
  <2>11. CASE AwaitLoaded
    <3>1. ASSUME ~Marked PROVE loading \subseteq loading \ {loader.model}
      BY <3>1 DEF Marked
    <3>2. QED
      BY <2>3, <2>4, <2>5, <2>6, <2>11, <3>1 DEF AwaitLoaded, LoadRaises, LoadReturns, Discard
  <2>12. CASE HandleStall
    <3>1. loader.attempt = 1 => loader'.pc # "idle" /\ loader'.model = loader.model
      BY <1>6, <2>12 DEF HandleStall, Loaders
    <3>2. QED
      BY <2>3, <2>4, <2>12, <3>1 DEF HandleStall, LoadRaises, LoadReturns, Discard
  <2>13. QED
    BY <1>7, <2>2, <2>7, <2>8, <2>9, <2>10, <2>11, <2>12 DEF Loads, LoadStep
<1>8. CASE Cancels
  <2>1. UNCHANGED <<gate, loader, unloader>>
    BY <1>8, CancelSteps DEF parentButCancel
  <2>2. CASE BeginCancel
    <3>1. PICK m \in loading : /\ loading' = loading \ {m} /\ stopped' = stopped
                               /\ canceller' = [pc |-> "teardown", model |-> m, settle |-> FALSE]
      BY <2>2 DEF BeginCancel
    <3>2. loading' = {} /\ canceller'.model = m /\ m \in Models
      BY <1>6, <3>1 DEF GateInv
    <3>3. QED
      BY <2>1, <3>1, <3>2 DEF GateInv
  <2>3. CASE CancelTeardown
    <3>1. /\ canceller.pc # "idle" /\ canceller'.model = canceller.model
          /\ UNCHANGED <<loading, stopped>>
      BY <1>6, <2>3 DEF CancelTeardown, Cancellers
    <3>2. QED
      BY <2>1, <3>1 DEF GateInv
  <2>4. CASE CancelClearsAgain
    BY <1>6, <2>1, <2>4 DEF CancelClearsAgain, GateInv
  <2>5. QED
    BY <1>8, <2>2, <2>3, <2>4 DEF Cancels, CancelStep
<1>9. CASE Unloads
  <2>1. UNCHANGED <<loader, loading, canceller, stopped>>
    BY <1>9, UnloadSteps DEF parentButUnload
  <2>2. CASE BeginUnload
    BY <2>1, <2>2 DEF BeginUnload, GateInv, UnloadAt
  <2>3. CASE ClearDrain
    BY <2>1, <2>3 DEF ClearDrain, GateInv, UnloadAt
  <2>4. CASE UnloadStep /\ ~ClearDrain
    <3>1. unloader # "idle" /\ unloader' # "idle" /\ gate' = gate
      BY <2>4 DEF UnloadStep, SetPending, SetDrain, CancelRunning, TakeGenLock, UnloadByKill,
                  UnloadSeesIdle, UnloadStopsDispatcher, SendUnload, AwaitUnloaded, UnloadFails,
                  ClearPending, UnloadAt
    <3>2. QED
      BY <2>1, <3>1 DEF GateInv
  <2>5. QED
    BY <1>9, <2>2, <2>3, <2>4 DEF Unloads, UnloadStep
<1>10. QED
  BY <1>2, <1>3, <1>4, <1>5, <1>7, <1>8, <1>9, Steps

-----------------------------------------------------------------------------
(* Every step preserves who holds the lock.                                *)

\* A request's step leaves the other requests where they are, and it starts to
\* read, reads on, ends, or has nothing to do with reading.
LEMMA RequestPhases ==
  ASSUME TypeOK, NEW r \in Streams, RequestStep(r)
  PROVE  /\ \A q \in Streams \ {r} : /\ phase'[q] = phase[q] /\ latched'[q] = latched[q]
                                      /\ latchedQueue'[q] = latchedQueue[q]
         /\ dispatcher' => dispatcher \/ ~unloadPending
         /\ \/ /\ phase[r] \notin Reading /\ phase'[r] \notin Reading
               /\ genLock' = genLock /\ latched' = latched /\ latchedQueue' = latchedQueue
            \/ /\ phase[r] \notin Reading /\ phase'[r] = "stream"
               /\ latched'[r] = proc /\ latchedQueue'[r] = queue
               /\ \/ r \in Locked /\ genLock = Nobody /\ genLock' = r
                  \/ r \in Compare /\ genLock' = genLock
            \/ /\ phase[r] \in Reading /\ phase'[r] \in Reading
               /\ genLock' = genLock /\ latched' = latched /\ latchedQueue' = latchedQueue
            \/ /\ phase[r] \in Reading /\ phase'[r] = "done"
               /\ latched' = latched /\ latchedQueue' = latchedQueue
               /\ genLock' = IF genLock = r THEN Nobody ELSE genLock
<1>1. phase \in [Streams -> Phases] /\ latched \in [Streams -> Nat] /\ dispatcher \in BOOLEAN
      /\ latchedQueue \in [Streams -> Nat]
      /\ Locked \subseteq Streams /\ Compare \subseteq Streams
  BY DEF TypeOK, Streams
<1>2. ASSUME NEW p, Goto(r, p)
      PROVE  phase'[r] = p /\ \A q \in Streams \ {r} : phase'[q] = phase[q]
  BY <1>1, <1>2 DEF Goto
<1>3. CASE \/ BeginLocked(r) \/ SeeIdle(r) \/ StopIdle(r)
           \/ BeginCompare(r) \/ StartDispatcher(r) \/ Register(r) \/ StopOwn(r)
  <2>1. /\ phase[r] \notin Reading /\ genLock' = genLock
        /\ latched' = latched /\ latchedQueue' = latchedQueue
        /\ \E p \in {"idle", "done", "lock", "stop", "start", "register", "registerOwn", "stopOwn",
                     "send"} : Goto(r, p)
    BY <1>3 DEF BeginLocked, SeeIdle, StopIdle, BeginCompare, StartDispatcher, Register, StopOwn,
                Reading, routing, streamVars
  <2>2. dispatcher' \in {dispatcher, FALSE, dispatcher \/ ~unloadPending}
    BY <1>3 DEF BeginLocked, SeeIdle, StopIdle, BeginCompare, StartDispatcher, Register, StopOwn,
                routing
  <2>3. dispatcher' => dispatcher \/ ~unloadPending
    BY <2>2
  <2>4. QED
    BY <1>2, <2>1, <2>3 DEF Reading
<1>4. CASE (r \in Locked /\ LockAndSend(r)) \/ (r \in Compare /\ SendCompare(r))
  <2>1. /\ phase[r] \notin Reading /\ dispatcher' = dispatcher
        /\ \/ Goto(r, "done") /\ UNCHANGED <<latched, latchedQueue, genLock>>
           \/ /\ Goto(r, "stream") /\ Latch(r)
              /\ \/ r \in Locked /\ genLock = Nobody /\ genLock' = r
                 \/ r \in Compare /\ genLock' = genLock
    BY <1>4 DEF LockAndSend, SendCompare, Reading, routing
  <2>2. CASE Goto(r, "done") /\ UNCHANGED <<latched, latchedQueue, genLock>>
    BY <1>2, <2>1, <2>2 DEF Reading
  <2>3. CASE /\ Goto(r, "stream") /\ Latch(r)
             /\ \/ r \in Locked /\ genLock = Nobody /\ genLock' = r
                \/ r \in Compare /\ genLock' = genLock
    <3>1. /\ latched'[r] = proc /\ latchedQueue'[r] = queue
          /\ \A q \in Streams \ {r} : /\ latched'[q] = latched[q]
                                       /\ latchedQueue'[q] = latchedQueue[q]
      BY <1>1, <2>3 DEF Latch
    <3>2. QED
      BY <1>2, <2>1, <2>3, <3>1
  <2>4. QED
    BY <2>1, <2>2, <2>3
<1>5. CASE ReadEvent(r) \/ LoseWorker(r) \/ DrainEvent(r) \/ CloseStream(r)
  <2>1. /\ phase[r] \in Reading /\ dispatcher' = dispatcher
        /\ latched' = latched /\ latchedQueue' = latchedQueue
        /\ \/ Finish(r) \/ Stay \/ (Goto(r, "drain") /\ genLock' = genLock)
    BY <1>5 DEF ReadEvent, LoseWorker, DrainEvent, CloseStream, Reading
  <2>2. QED
    BY <1>2, <2>1 DEF Finish, Stay, Reading
<1>6. QED
  BY <1>3, <1>4, <1>5 DEF RequestStep, LockedStep, CompareStep, StreamStep

LEMMA HandleStep ==
  ASSUME TypeOK, GateInv, LockInv, [Next]_vars
  PROVE  Handled'
<1>1. Handled
  BY DEF LockInv, Handled
<1>2. WorkerTypeOK /\ spawned \in Nat
  BY DEF TypeOK, WorkerTypeOK
<1>3. ASSUME UNCHANGED <<proc, queue>>, alive' => alive PROVE Handled'
  BY <1>1, <1>3 DEF Handled
<1>4. ASSUME NEW s \in MaySurvive, Shutdown(s) PROVE Handled'
  BY <1>1, <1>2, <1>4, Shuts DEF Handled
<1>5. CASE WorkerStep
  BY <1>2, <1>3, <1>5, WorkerSteps
<1>6. CASE UNCHANGED vars
  BY <1>3, <1>6 DEF vars, workerVars
<1>7. CASE Loads
  <2>1. CASE SpawnWorker
    BY <1>2, <2>1 DEF SpawnWorker, Spawn, Handled
  <2>2. CASE Loads /\ ~SpawnWorker
    <3>1. UNCHANGED <<proc, queue, alive>> \/ \E s \in MaySurvive : Shutdown(s)
      BY <2>2 DEF Loads, LoadStep, BeginLoad, RefuseForRepair, KillOld, ShutdownOld, CheckBeforeSpawn,
                  CheckAfterSpawn, AwaitLoaded, HandleStall, LoadFails, Publish, workerVars
    <3>2. QED
      BY <1>3, <1>4, <3>1
  <2>3. QED
    BY <1>7, <2>1, <2>2
<1>8. CASE Cancels
  BY <1>3, <1>4, <1>8, CancelSteps DEF workerVars
<1>9. CASE Unloads
  BY <1>3, <1>4, <1>9, UnloadSteps
<1>10. ASSUME NEW r \in Streams, RequestStep(r) PROVE Handled'
  BY <1>3, <1>10, RequestSteps
<1>11. QED
  BY <1>3, <1>5, <1>6, <1>7, <1>8, <1>9, <1>10, Steps, DispatcherSteps

LEMMA LockStep ==
  ASSUME TypeOK, GateInv, LockInv, [Next]_vars
  PROVE  LockInv'
<1>1. Handled'
  BY HandleStep
<1>2. ASSUME UNCHANGED <<streamVars, genLock, unloader, unloadPending>>, dispatcher' => dispatcher
      PROVE  LockInv'
  BY <1>1, <1>2 DEF LockInv, streamVars
<1>3. CASE WorkerStep
  BY <1>2, <1>3, WorkerSteps DEF TypeOK, parentVars, routing, loadVars
<1>4. CASE UNCHANGED vars
  BY <1>2, <1>4 DEF vars, parentVars, routing, loadVars
<1>5. CASE DispatchOne \/ DispatcherEnds
  BY <1>2, <1>5, DispatcherSteps DEF loadVars
<1>6. CASE Loads
  BY <1>2, <1>6, LoadSteps DEF parentButLoad
<1>7. CASE Cancels
  BY <1>2, <1>7, CancelSteps DEF parentButCancel
<1>8. /\ Locked \subseteq Streams /\ Compare \subseteq Streams /\ Locked \cap Compare = {}
      /\ Unloader \notin Streams /\ Nobody \notin Streams /\ Unloader # Nobody
  BY StreamsAssumption, OwnersAssumption DEF Streams
<1>9. ASSUME NEW r \in Streams, RequestStep(r) PROVE LockInv'
  <2>1. UNCHANGED <<alive, proc, queue, unloadPending, unloader>> /\ (proc # 0 => queue = proc)
    BY <1>9, RequestSteps DEF loadVars, LockInv, Handled
  <2>2. unloader \in {"send", "reply"} => ~dispatcher'
    BY <1>9, RequestPhases DEF LockInv
  <2>3. \A q \in Streams \ {r} : /\ phase'[q] = phase[q] /\ latched'[q] = latched[q]
                                  /\ latchedQueue'[q] = latchedQueue[q]
    BY <1>9, RequestPhases
  <2>4. CASE phase[r] \notin Reading /\ phase'[r] \notin Reading /\ genLock' = genLock
             /\ latched' = latched /\ latchedQueue' = latchedQueue
    BY <1>1, <1>8, <2>1, <2>2, <2>3, <2>4 DEF LockInv
  <2>5. CASE /\ phase[r] \notin Reading /\ phase'[r] = "stream"
             /\ latched'[r] = proc /\ latchedQueue'[r] = queue
             /\ \/ r \in Locked /\ genLock = Nobody /\ genLock' = r
                \/ r \in Compare /\ genLock' = genLock
    <3>1. "stream" \in Reading
      BY DEF Reading
    <3>2. QED
      BY <1>1, <1>8, <2>1, <2>2, <2>3, <2>5, <3>1 DEF LockInv
  <2>6. CASE phase[r] \in Reading /\ phase'[r] \in Reading /\ genLock' = genLock
             /\ latched' = latched /\ latchedQueue' = latchedQueue
    BY <1>1, <1>8, <2>1, <2>2, <2>3, <2>6 DEF LockInv
  <2>7. CASE /\ phase[r] \in Reading /\ phase'[r] = "done"
             /\ latched' = latched /\ latchedQueue' = latchedQueue
             /\ genLock' = IF genLock = r THEN Nobody ELSE genLock
    <3>1. "done" \notin Reading
      BY DEF Reading
    <3>2. QED
      BY <1>1, <1>8, <2>1, <2>2, <2>3, <2>7, <3>1 DEF LockInv
  <2>8. QED
    BY <1>9, <2>4, <2>5, <2>6, <2>7, RequestPhases
<1>10. CASE Unloads
  <2>1. UNCHANGED <<phase, latched, latchedQueue>> /\ (dispatcher' => dispatcher)
    BY <1>10, UnloadSteps DEF parentButUnload, streamVars
  <2>2. CASE BeginUnload
    BY <1>1, <2>1, <2>2 DEF BeginUnload, LockInv, UnloadAt
  <2>3. CASE SetPending \/ SetDrain \/ CancelRunning \/ ClearPending \/ ClearDrain
    BY <1>1, <2>1, <2>3 DEF SetPending, SetDrain, CancelRunning, ClearPending, ClearDrain, LockInv,
                            UnloadAt
  <2>4. CASE TakeGenLock
    BY <1>1, <1>8, <2>1, <2>4 DEF TakeGenLock, LockInv, UnloadAt
  <2>5. CASE UnloadByKill
    BY <1>1, <1>8, <2>1, <2>5 DEF UnloadByKill, LockInv, UnloadAt
  <2>6. CASE UnloadSeesIdle \/ UnloadStopsDispatcher
    BY <1>1, <2>1, <2>6 DEF UnloadSeesIdle, UnloadStopsDispatcher, LockInv, UnloadAt
  <2>7. CASE SendUnload \/ AwaitUnloaded \/ UnloadFails
    BY <1>1, <1>8, <2>1, <2>7 DEF SendUnload, AwaitUnloaded, UnloadFails, LockInv, UnloadAt
  <2>8. QED
    BY <1>10, <2>2, <2>3, <2>4, <2>5, <2>6, <2>7 DEF Unloads, UnloadStep
<1>11. QED
  BY <1>3, <1>4, <1>5, <1>6, <1>7, <1>9, <1>10, Steps

-----------------------------------------------------------------------------
(* Every step preserves that a spawn finds nothing alive.                  *)

\* What a load does to the worker: nothing, a read, a shutdown or the spawn.
LEMMA LoadKinds ==
  ASSUME TypeOK, Loads
  PROVE  \/ UNCHANGED workerVars
         \/ AwaitLoaded
         \/ (\E s \in MaySurvive : Shutdown(s)) /\ (KillOld \/ CheckAfterSpawn \/ HandleStall)
         \/ SpawnWorker
BY DEF Loads, LoadStep, BeginLoad, RefuseForRepair, KillOld, ShutdownOld, CheckBeforeSpawn,
       CheckAfterSpawn, HandleStall, LoadFails, Publish

\* Only the spawn brings a process to life.
LEMMA NoneRises ==
  ASSUME TypeOK, GateInv, [Next]_vars, ~SpawnWorker
  PROVE  alive' => alive
<1>1. WorkerTypeOK
  BY DEF TypeOK
<1>2. ASSUME NEW s \in MaySurvive, Shutdown(s) PROVE alive' => alive
  BY <1>1, <1>2, Shuts
<1>3. CASE WorkerStep
  BY <1>1, <1>3, WorkerSteps
<1>4. CASE UNCHANGED vars
  BY <1>4 DEF vars, workerVars
<1>5. CASE Loads
  BY <1>2, <1>5, LoadKinds DEF AwaitLoaded, workerVars
<1>6. CASE Cancels
  BY <1>2, <1>6, CancelSteps DEF workerVars
<1>7. CASE Unloads
  BY <1>2, <1>7, UnloadSteps
<1>8. ASSUME NEW r \in Streams, RequestStep(r) PROVE alive' => alive
  BY <1>8, RequestSteps
<1>9. QED
  BY <1>3, <1>4, <1>5, <1>6, <1>7, <1>8, Steps, DispatcherSteps

\* The worker adds at most one event, and a stall only if downloads do stall.
LEMMA WorkerReplies ==
  ASSUME TypeOK, WorkerStep
  PROVE  \/ resps' = resps
         \/ \E e \in Responses : /\ resps' = Append(resps, e)
                                 /\ e = Stall => "stall" \in Faults
<1>1. cmds \in Seq(Commands) /\ job \in Jobs
  BY DEF TypeOK, WorkerTypeOK
<1>2. \A e \in StreamEvents \cup {Loaded(TRUE), Loaded(FALSE), Unloaded, ResetAck} :
        e \in Responses /\ e # Stall
  BY IsResponse, Messages
<1>3. CASE FinishLoad
  BY <1>2, <1>3 DEF FinishLoad, Reply
<1>4. CASE "stall" \in Faults /\ StallLoad
  BY <1>4, IsResponse DEF StallLoad, Reply
<1>5. CASE TakeCommand
  <2>1. Head(cmds) \in Commands
    BY <1>1, <1>5, Tails DEF TakeCommand
  <2>2. Head(cmds).type = "generate" => GenDone(Head(cmds).id) \in StreamEvents
    BY <2>1, IsCommand, IsResponse
  <2>3. QED
    BY <1>2, <1>5, <2>2 DEF TakeCommand, Reply
<1>6. CASE StartGenerate \/ Emit \/ StopGenerate \/ FailGenerate
  <2>1. job.id \in Streams
    BY <1>1, <1>6, IsJob DEF StartGenerate, Emit, SendToken, StopGenerate, FailGenerate
  <2>2. {GenDone(job.id), GenError(job.id), Token(job.id)} \subseteq StreamEvents
    BY <2>1, IsResponse
  <2>3. QED
    BY <1>2, <1>6, <2>2 DEF StartGenerate, Emit, SendToken, StopGenerate, FailGenerate, Reply
<1>7. CASE Crash
  BY <1>7 DEF Crash, channel
<1>8. QED
  BY <1>3, <1>4, <1>5, <1>6, <1>7 DEF WorkerStep

LEMMA SpawnStep ==
  ASSUME TypeOK, GateInv, Handled, SpawnInv, [Next]_vars
  PROVE  SpawnInv'
<1>1. WorkerTypeOK /\ resps \in Seq(Responses) /\ loader \in Loaders
  BY DEF TypeOK, WorkerTypeOK, Loaders, Places
<1>2. "stall" \notin Faults => \A i \in DOMAIN resps' : resps'[i] # Stall
  <2>1. SUFFICES ASSUME "stall" \notin Faults PROVE \A i \in DOMAIN resps' : resps'[i] # Stall
    OBVIOUS
  <2>2. \A i \in DOMAIN resps : resps[i] # Stall
    BY <2>1 DEF SpawnInv
  <2>3. ASSUME resps' \in {resps, <<>>} \/ (resps # <<>> /\ resps' = Tail(resps))
        PROVE  \A i \in DOMAIN resps' : resps'[i] # Stall
    BY <1>1, <2>2, <2>3, Tails, NoEntries
  <2>4. ASSUME NEW e \in Responses, resps' = Append(resps, e), e # Stall
        PROVE  \A i \in DOMAIN resps' : resps'[i] # Stall
    BY <1>1, <2>2, <2>4, Appends
  <2>5. CASE WorkerStep
    BY <2>1, <2>3, <2>4, <2>5, WorkerReplies
  <2>6. CASE UNCHANGED vars
    BY <2>3, <2>6 DEF vars, workerVars, channel
  <2>7. CASE Loads
    BY <2>2, <2>7, LoadSteps
  <2>8. CASE Cancels
    BY <1>1, <2>3, <2>8, CancelSteps, Shuts DEF workerVars, channel
  <2>9. CASE Unloads
    BY <1>1, <2>3, <2>9, UnloadSteps, Shuts
  <2>10. ASSUME NEW r \in Streams, RequestStep(r)
         PROVE  \A i \in DOMAIN resps' : resps'[i] # Stall
    BY <2>3, <2>10, RequestSteps
  <2>11. QED
    BY <2>3, <2>5, <2>6, <2>7, <2>8, <2>9, <2>10, Steps, DispatcherSteps
<1>3. ~Blind => (loader'.pc \in {"check", "spawn"} => ~alive')
  <2>1. SUFFICES ASSUME ~Blind, loader'.pc \in {"check", "spawn"} PROVE ~alive'
    OBVIOUS
  <2>2. CASE loader.pc \in {"check", "spawn"} /\ ~SpawnWorker
    BY <2>1, <2>2, NoneRises DEF SpawnInv
  <2>3. CASE SpawnWorker
    <3>1. loader'.pc = "post"
      BY <1>1, <2>3 DEF SpawnWorker, LoaderAt, Loaders
    <3>2. QED
      BY <2>1, <3>1
  <2>4. CASE loader.pc \notin {"check", "spawn"} /\ loader' = loader
    BY <2>1, <2>4
  <2>5. CASE loader.pc \notin {"check", "spawn"} /\ Loads
    <3>1. CASE KillOld
      <4>1. PICK s \in MaySurvive : ShutdownOld(s) /\ (s => LoadRaises)
        BY <3>1 DEF KillOld
      <4>2. ~s
        BY <2>1, <4>1 DEF LoadRaises, LoadReturns, IdleLoader
      <4>3. QED
        BY <1>1, <4>1, <4>2, OldShuts
    <3>2. CASE HandleStall
      <4>1. PICK s \in MaySurvive : Shutdown(s)
        BY <3>2 DEF HandleStall
      <4>2. 1 \in DOMAIN resps /\ resps[1] = Stall
        BY <1>1, <3>2, Tails DEF HandleStall
      <4>3. "stall" \in Faults
        BY <4>2 DEF SpawnInv
      <4>4. ~s
        BY <2>1, <4>3 DEF Blind, MaySurvive
      <4>5. QED
        BY <1>1, <4>1, <4>4, Shuts
    <3>3. CASE CheckAfterSpawn \/ AwaitLoaded \/ LoadFails \/ Publish \/ RefuseForRepair
      <4>1. loader' \in {loader, IdleLoader, [loader EXCEPT !.pc = "wait"],
                         [loader EXCEPT !.pc = "publish"]}
        BY <3>3 DEF CheckAfterSpawn, AwaitLoaded, LoadFails, Publish, RefuseForRepair, LoadReturns,
                    LoadRaises, LoaderAt
      <4>2. loader'.pc \notin {"check", "spawn"}
        BY <1>1, <2>5, <4>1 DEF IdleLoader, Loaders
      <4>3. QED
        BY <2>1, <4>2
    <3>4. CASE \E m \in Models : BeginLoad(m)
      BY <2>1, <3>4 DEF BeginLoad
    <3>5. CASE CheckBeforeSpawn \/ SpawnWorker
      BY <2>5, <3>5 DEF CheckBeforeSpawn, SpawnWorker
    <3>6. QED
      BY <2>5, <3>1, <3>2, <3>3, <3>4, <3>5 DEF Loads, LoadStep
  <2>6. loader' = loader \/ Loads
    <3>1. ASSUME NEW r \in Streams, RequestStep(r) PROVE loader' = loader
      BY <3>1, RequestSteps DEF loadVars
    <3>2. CASE WorkerStep
      BY <3>2, WorkerSteps, <1>1 DEF parentVars, loadVars
    <3>3. QED
      BY <3>1, <3>2, Steps, DispatcherSteps, CancelSteps, UnloadSteps
         DEF vars, parentVars, loadVars, parentButCancel, parentButUnload
  <2>7. QED
    BY <2>2, <2>3, <2>4, <2>5, <2>6
<1>4. QED
  BY <1>2, <1>3 DEF SpawnInv, Blind

-----------------------------------------------------------------------------
(* Every step preserves what the mirrors say of the worker.                *)

\* A queue gets a new kind of entry only from who appends one.
LEMMA CommandKinds ==
  ASSUME cmds \in Seq(Commands)
  PROVE  /\ cmds' \in {cmds, <<>>} => (ToUnload' => ToUnload)
         /\ cmds # <<>> /\ cmds' = Tail(cmds) => (ToUnload' => ToUnload)
         /\ \A c \in Commands \ {Unload} : cmds' = Append(cmds, c) => (ToUnload' => ToUnload)
<1>1. ASSUME cmds' \in {cmds, <<>>}, ToUnload' PROVE ToUnload
  BY <1>1, NoEntries DEF ToUnload
<1>2. ASSUME cmds # <<>>, cmds' = Tail(cmds), ToUnload' PROVE ToUnload
  BY <1>2, Tails DEF ToUnload
<1>3. ASSUME NEW c \in Commands \ {Unload}, cmds' = Append(cmds, c), ToUnload' PROVE ToUnload
  BY <1>3, Appends DEF ToUnload
<1>4. QED
  BY <1>1, <1>2, <1>3

LEMMA ResponseKinds ==
  ASSUME resps \in Seq(Responses)
  PROVE  /\ resps' \in {resps, <<>>} => (LoadedOk' => LoadedOk)
         /\ resps # <<>> /\ resps' = Tail(resps) => (LoadedOk' => LoadedOk)
         /\ \A e \in Responses \ {Loaded(TRUE)} :
              resps' = Append(resps, e) => (LoadedOk' => LoadedOk)
<1>1. ASSUME resps' \in {resps, <<>>}, LoadedOk' PROVE LoadedOk
  BY <1>1, NoEntries DEF LoadedOk
<1>2. ASSUME resps # <<>>, resps' = Tail(resps), LoadedOk' PROVE LoadedOk
  BY <1>2, Tails DEF LoadedOk
<1>3. ASSUME NEW e \in Responses \ {Loaded(TRUE)}, resps' = Append(resps, e), LoadedOk' PROVE LoadedOk
  <2>1. /\ e \in Responses /\ e # Loaded(TRUE)
        /\ \E i \in DOMAIN resps' : resps'[i] = Loaded(TRUE)
    BY <1>3 DEF LoadedOk
  <2>2. PICK n \in Nat : /\ DOMAIN resps' = DOMAIN resps \cup {n} /\ resps'[n] = e
                         /\ \A i \in DOMAIN resps : resps'[i] = resps[i]
    BY <1>3, <2>1, Appends
  <2>3. QED
    BY <2>1, <2>2 DEF LoadedOk
<1>4. QED
  BY <1>1, <1>2, <1>3

\* While the mirrors are empty and no load waits for its worker, there is
\* nothing to say.
LEMMA ForgottenIsActive ==
  ASSUME active' = NoModel, loader'.pc \notin {"post", "wait", "publish"}
  PROVE  ActiveInv'
BY DEF ActiveInv

\* The worker goes on, its queues get nothing that matters.
LEMMA ActiveKept ==
  ASSUME ActiveInv, UNCHANGED <<gate, loader, unloader>>,
         active' \in {active, NoModel},
         alive' => /\ alive /\ held' = held
                   /\ job' = job \/ job'.kind # "loading"
                   /\ ToUnload' => ToUnload
                   /\ LoadedOk' => LoadedOk
  PROVE  ActiveInv'
<1>1. SUFFICES ASSUME ~NameOfSurvivor, alive' PROVE ActiveInv'
  BY DEF ActiveInv, NameOfSurvivor, Blind
<1>2. /\ alive /\ held' = held /\ (job' = job \/ job'.kind # "loading")
      /\ (ToUnload' => ToUnload) /\ (LoadedOk' => LoadedOk)
  BY <1>1
<1>3. Settled' => Settled
  BY DEF Settled
<1>4. QED
  BY <1>1, <1>2, <1>3 DEF ActiveInv

LEMMA ShutdownKinds ==
  ASSUME TypeOK, NEW s \in MaySurvive, Shutdown(s)
  PROVE  alive' => /\ alive /\ held' = held /\ job'.kind # "loading"
                   /\ ToUnload' => ToUnload
                   /\ LoadedOk' => LoadedOk
<1>1. WorkerTypeOK /\ cmds \in Seq(Commands) /\ resps \in Seq(Responses)
  BY DEF TypeOK, WorkerTypeOK
<1>2. alive' => alive /\ held' = held /\ job' = Wedged /\ cmds' = cmds /\ resps' = <<>>
  BY <1>1, Shuts
<1>3. QED
  BY <1>1, <1>2, CommandKinds, ResponseKinds, IsJob

LEMMA ActiveWorker ==
  ASSUME TypeOK, GateInv, ActiveInv, WorkerStep
  PROVE  ActiveInv'
<1>1. /\ cmds \in Seq(Commands) /\ resps \in Seq(Responses) /\ job \in Jobs /\ WorkerTypeOK
  BY DEF TypeOK, WorkerTypeOK
<1>2. alive /\ UNCHANGED <<gate, loader, unloader, active>>
  BY <1>1, WorkerSteps DEF parentVars, loadVars
<1>3. Idling.kind # "loading"
  BY IsJob
<1>4. CASE FinishLoad
  <2>1. /\ job.kind = "loading" /\ job' = Idling /\ cmds' = cmds
        /\ \/ held' = job.model /\ resps' = Append(resps, Loaded(TRUE))
           \/ held' = NoModel /\ resps' = Append(resps, Loaded(FALSE))
    BY <1>4 DEF FinishLoad, Reply
  <2>2. SUFFICES ASSUME ~NameOfSurvivor PROVE ActiveInv'
    BY DEF ActiveInv, NameOfSurvivor, Blind
  <2>3. /\ active = NoModel \/ loader.pc \in {"post", "wait"}
        /\ loader.pc # "publish"
        /\ loader.pc \in {"post", "wait"} => ~LoadedOk /\ job.model = loader.model
        /\ ToUnload => /\ active = NoModel \/ unloader = "reply"
                       /\ loader.pc \notin {"post", "wait", "publish"}
    BY <1>2, <2>1, <2>2 DEF ActiveInv
  <2>4. loader.pc \in {"post", "wait"} => ~Settled'
    BY <1>2 DEF Settled, GateInv
  <2>5. (ToUnload' => ToUnload) /\ (held' = NoModel => (LoadedOk' => LoadedOk))
    <3>1. ASSUME resps' = Append(resps, Loaded(FALSE)) PROVE LoadedOk' => LoadedOk
      BY <1>1, <3>1, ResponseKinds, Messages, IsResponse
    <3>2. job.model \in Models /\ NoModel \notin Models
      BY <1>1, <2>1, IsJob, ModelsAssumption
    <3>3. ToUnload' => ToUnload
      BY <1>1, <2>1, CommandKinds
    <3>4. QED
      BY <2>1, <3>1, <3>2, <3>3
  <2>6. loader.pc \in {"post", "wait"} => (LoadedOk' => held' = loader.model)
    BY <2>1, <2>3, <2>5
  <2>7. QED
    BY <1>2, <1>3, <2>1, <2>3, <2>4, <2>5, <2>6 DEF ActiveInv
<1>5. CASE StallLoad
  <2>1. resps' = Append(resps, Stall) /\ UNCHANGED <<alive, cmds, held, job>>
    BY <1>5 DEF StallLoad, Reply
  <2>2. (LoadedOk' => LoadedOk) /\ (ToUnload' => ToUnload)
    BY <1>1, <2>1, CommandKinds, ResponseKinds, Messages, IsResponse
  <2>3. QED
    BY <1>2, <2>1, <2>2, ActiveKept
<1>6. CASE TakeCommand
  <2> DEFINE c == Head(cmds)
  <2>1. /\ cmds # <<>> /\ cmds' = Tail(cmds) /\ alive' = alive /\ job = Idling
        /\ \/ c.type = "generate" /\ resps' = Append(resps, GenDone(c.id)) /\ UNCHANGED <<held, job>>
           \/ c.type = "generate" /\ job' = Dequeued(c.id) /\ UNCHANGED <<resps, held>>
           \/ c = Unload /\ held' = NoModel /\ resps' = Append(resps, Unloaded) /\ UNCHANGED job
           \/ c = Reset /\ resps' = Append(resps, ResetAck) /\ UNCHANGED <<held, job>>
    BY <1>6 DEF TakeCommand, Reply
  <2>2. c \in Commands /\ c = cmds[1] /\ 1 \in DOMAIN cmds
    BY <1>1, <2>1, Tails
  <2>3. c.type = "generate" => GenDone(c.id) \in Responses \ {Loaded(TRUE)}
    BY <2>2, IsCommand, IsResponse, Messages
  <2>4. {Unloaded, ResetAck} \subseteq Responses \ {Loaded(TRUE)}
    BY IsResponse, Messages
  <2>5. ToUnload' => ToUnload
    BY <1>1, <2>1, CommandKinds
  <2> HIDE DEF c
  <2>6. LoadedOk' => LoadedOk
    BY <1>1, <2>1, <2>3, <2>4, ResponseKinds
  <2>7. job' = job \/ job'.kind # "loading"
    BY <2>1, IsJob
  <2>8. CASE held' = held
    BY <1>2, <2>1, <2>5, <2>6, <2>7, <2>8, ActiveKept
  <2>9. CASE c = Unload /\ held' = NoModel /\ job' = job
    <3>1. SUFFICES ASSUME ~NameOfSurvivor PROVE ActiveInv'
      BY DEF ActiveInv, NameOfSurvivor, Blind
    <3>2. ToUnload
      BY <2>2, <2>9 DEF ToUnload
    <3>3. (active = NoModel \/ unloader = "reply") /\ loader.pc \notin {"post", "wait", "publish"}
      BY <1>2, <3>1, <3>2 DEF ActiveInv
    <3>4. unloader = "reply" => ~Settled'
      BY <1>2 DEF Settled, GateInv
    <3>5. job'.kind # "loading"
      BY <1>3, <2>1, <2>9
    <3>6. QED
      BY <1>2, <3>3, <3>4, <3>5 DEF ActiveInv
  <2>10. QED
    BY <2>1, <2>8, <2>9
<1>7. CASE StartGenerate \/ Emit \/ StopGenerate \/ FailGenerate
  <2>1. /\ UNCHANGED <<alive, cmds, held>> /\ job' \in {job, Idling, Running(job.id)}
        /\ resps' \in {resps, Append(resps, GenDone(job.id)), Append(resps, GenError(job.id)),
                       Append(resps, Token(job.id))}
        /\ job.kind \in {"dequeued", "running"}
    BY <1>7 DEF StartGenerate, Emit, SendToken, StopGenerate, FailGenerate, Reply
  <2>2. {GenDone(job.id), GenError(job.id), Token(job.id)} \subseteq Responses \ {Loaded(TRUE)}
    <3>1. job.id \in Streams
      BY <1>1, <2>1, IsJob
    <3>2. {GenDone(job.id), GenError(job.id), Token(job.id)} \subseteq StreamEvents
      BY <3>1, IsResponse
    <3>3. Loaded(TRUE) \notin StreamEvents /\ StreamEvents \subseteq Responses
      BY IsResponse
    <3>4. QED
      BY <3>2, <3>3
  <2>3. LoadedOk' => LoadedOk
    BY <1>1, <2>1, <2>2, ResponseKinds
  <2>4. ToUnload' => ToUnload
    BY <1>1, <2>1, CommandKinds
  <2>5. job' = job \/ job'.kind # "loading"
    BY <2>1, IsJob
  <2>6. QED
    BY <1>2, <2>1, <2>3, <2>4, <2>5, ActiveKept
<1>8. CASE Crash
  BY <1>8 DEF Crash, ActiveInv
<1>9. QED
  BY <1>4, <1>5, <1>6, <1>7, <1>8 DEF WorkerStep

LEMMA ActiveLoads ==
  ASSUME TypeOK, GateInv, Handled, SpawnInv, ActiveInv, Loads
  PROVE  ActiveInv'
<1>1. /\ cmds \in Seq(Commands) /\ resps \in Seq(Responses) /\ WorkerTypeOK /\ loader \in Loaders
      /\ alive \in BOOLEAN
  BY DEF TypeOK, WorkerTypeOK, Loaders, Places
<1>2. UNCHANGED unloader
  BY LoadSteps DEF parentButLoad
<1>3. SUFFICES ASSUME ~NameOfSurvivor, alive' PROVE ActiveInv'
  BY DEF ActiveInv, NameOfSurvivor, Blind
<1>4. IdleLoader.pc = "idle"
  BY DEF IdleLoader
<1>5. ASSUME NEW m \in Models, BeginLoad(m) PROVE ActiveInv'
  <2>1. /\ UNCHANGED <<alive, held, job, cmds, resps, active>> /\ gate = "free" /\ gate' = "load"
        /\ loader.pc = "idle" /\ loader'.pc = "kill"
    BY <1>5 DEF BeginLoad, workerVars, channel
  <2>2. (ToUnload' <=> ToUnload) /\ Settled
    BY <2>1 DEF ToUnload, Settled
  <2>3. QED
    BY <1>2, <1>3, <2>1, <2>2 DEF ActiveInv
<1>6. CASE RefuseForRepair
  <2>1. /\ UNCHANGED <<alive, held, job, cmds, resps>> /\ loader.pc \in {"kill", "spawn"}
        /\ active' = IF alive THEN active ELSE NoModel
        /\ loader' = IdleLoader
    BY <1>6 DEF RefuseForRepair, workerVars, channel, LoadReturns
  <2>2. ~Blind
    BY <1>3, <1>6 DEF RefuseForRepair, NameOfSurvivor
  <2>3. alive /\ loader.pc = "kill" /\ active' = active
    BY <1>3, <2>1, <2>2 DEF SpawnInv
  <2>4. (ToUnload' <=> ToUnload) /\ Settled
    BY <2>1, <2>3 DEF ToUnload, Settled
  <2>5. QED
    BY <1>2, <1>3, <1>4, <2>1, <2>3, <2>4 DEF ActiveInv
<1>7. CASE LoadRaises \/ (LoadReturns /\ ForgetModels)
  BY <1>4, <1>7, ForgottenIsActive DEF LoadRaises, LoadReturns, ForgetModels
<1>8. CASE KillOld /\ ~LoadRaises
  <2>1. PICK s \in MaySurvive : ShutdownOld(s) /\ ~s
    BY <1>8 DEF KillOld
  <2>2. QED
    BY <1>1, <1>3, <2>1, OldShuts
<1>9. CASE CheckBeforeSpawn /\ ~(LoadReturns /\ ForgetModels)
  <2>1. /\ UNCHANGED <<alive, held, job, cmds, resps, active, gate>> /\ loader.pc = "check"
        /\ loader'.pc = "spawn"
    BY <1>1, <1>9 DEF CheckBeforeSpawn, workerVars, channel, LoaderAt, Loaders
  <2>2. (ToUnload' <=> ToUnload) /\ ~Settled'
    BY <1>2, <2>1 DEF ToUnload, Settled, GateInv
  <2>3. QED
    BY <1>2, <1>3, <2>1, <2>2 DEF ActiveInv
<1>10. CASE SpawnWorker
  <2>1. /\ job' = Loading(loader.model) /\ cmds' = <<>> /\ resps' = <<>>
        /\ loader.pc = "spawn" /\ gate' = gate
        /\ loader'.pc = "post" /\ loader'.model = loader.model
    BY <1>1, <1>10 DEF SpawnWorker, Spawn, LoaderAt, Loaders
  <2>2. ~ToUnload' /\ ~LoadedOk'
    BY <2>1, NoEntries DEF ToUnload, LoadedOk
  <2>3. ~Settled'
    BY <1>2, <2>1 DEF Settled, GateInv
  <2>4. job'.model = loader'.model
    BY <2>1, IsJob
  <2>5. QED
    BY <2>1, <2>2, <2>3, <2>4 DEF ActiveInv
<1>11. CASE CheckAfterSpawn /\ ~(LoadReturns /\ ForgetModels)
  <2>1. /\ UNCHANGED <<alive, held, job, cmds, resps, active, gate>> /\ loader.pc = "post"
        /\ loader'.pc = "wait" /\ loader'.model = loader.model
    BY <1>1, <1>11 DEF CheckAfterSpawn, workerVars, channel, LoaderAt, Loaders
  <2>2. (ToUnload' <=> ToUnload) /\ (LoadedOk' <=> LoadedOk) /\ ~Settled'
    BY <1>2, <2>1 DEF ToUnload, LoadedOk, Settled, GateInv
  <2>3. QED
    BY <1>2, <1>3, <2>1, <2>2 DEF ActiveInv
<1>12. CASE AwaitLoaded /\ ~(LoadReturns /\ ForgetModels) /\ ~LoadRaises
  <2>1. /\ UNCHANGED <<alive, held, job, cmds, active, gate>> /\ loader.pc = "wait"
        /\ resps # <<>> /\ resps' = Tail(resps)
        /\ \/ Head(resps) = Loaded(TRUE) /\ loader'.pc = "publish" /\ loader'.model = loader.model
           \/ loader' = loader
    BY <1>1, <1>12 DEF AwaitLoaded, LoaderAt, Loaders
  <2>2. (ToUnload' <=> ToUnload) /\ (LoadedOk' => LoadedOk)
    BY <1>1, <2>1, ResponseKinds DEF ToUnload
  <2>3. CASE loader' = loader
    BY <1>2, <1>3, <2>1, <2>2, <2>3, ActiveKept
  <2>4. CASE Head(resps) = Loaded(TRUE) /\ loader'.pc = "publish" /\ loader'.model = loader.model
    <3>1. LoadedOk
      BY <1>1, <2>1, <2>4, Tails DEF LoadedOk
    <3>2. held = loader.model /\ job.kind # "loading" /\ ~ToUnload
      BY <1>3, <2>1, <3>1 DEF ActiveInv
    <3>3. ~Settled'
      BY <1>2, <2>1, <2>4 DEF Settled, GateInv
    <3>4. QED
      BY <2>1, <2>2, <2>4, <3>2, <3>3 DEF ActiveInv
  <2>5. QED
    BY <2>1, <2>3, <2>4
<1>13. CASE HandleStall /\ ~LoadRaises
  <2>1. PICK s \in MaySurvive : Shutdown(s)
    BY <1>13 DEF HandleStall
  <2>2. loader.pc = "wait" /\ loader'.pc = "check" /\ UNCHANGED <<gate, active>>
    BY <1>1, <1>13 DEF HandleStall, Loaders
  <2>3. alive /\ held' = held /\ job'.kind # "loading" /\ (ToUnload' => ToUnload)
    BY <1>3, <2>1, ShutdownKinds
  <2>4. ~Settled'
    BY <1>2, <2>2 DEF Settled, GateInv
  <2>5. QED
    BY <1>2, <1>3, <2>2, <2>3, <2>4 DEF ActiveInv
<1>14. CASE LoadFails
  BY <1>7, <1>14 DEF LoadFails
<1>15. CASE Publish
  <2>1. /\ UNCHANGED <<alive, held, job, cmds, resps>> /\ loader.pc = "publish"
        /\ active' = loader.model /\ loader' = IdleLoader
    BY <1>15 DEF Publish, workerVars, channel, LoadReturns
  <2>2. ToUnload' <=> ToUnload
    BY <2>1 DEF ToUnload
  <2>3. held = loader.model /\ job.kind # "loading" /\ ~ToUnload
    BY <1>3, <2>1 DEF ActiveInv
  <2>4. QED
    BY <1>4, <2>1, <2>2, <2>3 DEF ActiveInv
<1>16. QED
  BY <1>5, <1>6, <1>7, <1>8, <1>9, <1>10, <1>11, <1>12, <1>13, <1>14, <1>15 DEF Loads, LoadStep

LEMMA ActiveCancels ==
  ASSUME TypeOK, ActiveInv, Cancels
  PROVE  ActiveInv'
<1>1. UNCHANGED <<gate, loader, unloader>>
  BY CancelSteps DEF parentButCancel
<1>2. active' \in {active, NoModel}
  BY DEF Cancels, CancelStep, BeginCancel, CancelTeardown, CancelClearsAgain, ForgetModels
<1>3. CASE UNCHANGED workerVars
  <2>1. UNCHANGED <<alive, held, job>> /\ (ToUnload' => ToUnload) /\ (LoadedOk' => LoadedOk)
    BY <1>3 DEF workerVars, channel, ToUnload, LoadedOk
  <2>2. QED
    BY <1>1, <1>2, <2>1, ActiveKept
<1>4. ASSUME NEW s \in MaySurvive, Shutdown(s) PROVE ActiveInv'
  BY <1>1, <1>2, <1>4, ActiveKept, ShutdownKinds
<1>5. QED
  BY <1>3, <1>4, CancelSteps

\* No load is under way beside an unload.
LEMMA UnloadAlone ==
  ASSUME GateInv, Unloads
  PROVE  loader.pc = "idle"
<1>1. ASSUME UnloadStep PROVE unloader # "idle"
  BY <1>1 DEF UnloadStep, SetPending, SetDrain, CancelRunning, TakeGenLock, UnloadByKill,
              UnloadSeesIdle, UnloadStopsDispatcher, SendUnload, AwaitUnloaded, UnloadFails,
              ClearPending, ClearDrain
<1>2. QED
  BY <1>1 DEF Unloads, BeginUnload, GateInv

LEMMA ActiveUnloads ==
  ASSUME TypeOK, GateInv, ActiveInv, Unloads
  PROVE  ActiveInv'
<1>1. gate \in {"free", "load", "unload"}
  BY DEF TypeOK, WorkerTypeOK
<1>2. UNCHANGED loader
  BY UnloadSteps DEF parentButUnload
<1>3. loader.pc = "idle"
  BY UnloadAlone
<1>4. CASE active' = NoModel
  BY <1>2, <1>3, <1>4, ForgottenIsActive
<1>5. SUFFICES ASSUME ~NameOfSurvivor, alive', active' # NoModel PROVE ActiveInv'
  BY <1>4 DEF ActiveInv, NameOfSurvivor, Blind
<1>6. ~UnloadByKill
  BY <1>5 DEF UnloadByKill, ForgetModels
<1>7. /\ UNCHANGED <<alive, held, job>>
      /\ cmds' = cmds \/ (SendUnload /\ cmds' = Append(cmds, Unload))
  BY <1>6, UnloadSteps
<1>8. CASE SendUnload
  <2>1. unloader' = "reply" /\ gate' = gate /\ active' = active /\ unloader = "send"
    BY <1>5, <1>8 DEF SendUnload, UnloadAt, ForgetModels
  <2>2. ~Settled'
    BY <1>2, <1>3, <2>1 DEF Settled, GateInv
  <2>3. QED
    BY <1>2, <1>3, <1>5, <1>7, <2>1, <2>2 DEF ActiveInv
<1>9. CASE ~SendUnload
  <2>1. (ToUnload' <=> ToUnload) /\ active' = active
    BY <1>5, <1>7, <1>9 DEF ToUnload, Unloads, UnloadStep, BeginUnload, SetPending, SetDrain,
       CancelRunning, TakeGenLock, UnloadByKill, UnloadSeesIdle, UnloadStopsDispatcher,
       AwaitUnloaded, UnloadFails, ClearPending, ClearDrain, ForgetModels
  <2>2. unloader = "reply" => unloader' = "reply" /\ gate' = gate
    BY <1>5, <1>9 DEF Unloads, UnloadStep, BeginUnload, SetPending, SetDrain,
       CancelRunning, TakeGenLock, UnloadByKill, UnloadSeesIdle, UnloadStopsDispatcher,
       AwaitUnloaded, UnloadFails, ClearPending, ClearDrain, ForgetModels, UnloadAt
  <2>3. Settled' => Settled
    BY <1>1, <1>2, <1>3, <2>2 DEF Settled, GateInv
  <2>4. QED
    BY <1>2, <1>3, <1>5, <1>7, <2>1, <2>2, <2>3 DEF ActiveInv
<1>10. QED
  BY <1>8, <1>9

LEMMA ActiveStep ==
  ASSUME TypeOK, GateInv, Handled, SpawnInv, ActiveInv, [Next]_vars
  PROVE  ActiveInv'
<1>1. cmds \in Seq(Commands) /\ resps \in Seq(Responses)
  BY DEF TypeOK, WorkerTypeOK
<1>2. ASSUME UNCHANGED <<alive, held, job, active, loader, gate, unloader>>,
             ToUnload' => ToUnload, LoadedOk' => LoadedOk
      PROVE  ActiveInv'
  BY <1>2, ActiveKept
<1>3. CASE UNCHANGED vars
  BY <1>1, <1>2, <1>3, CommandKinds, ResponseKinds DEF vars, workerVars, channel, parentVars, loadVars
<1>4. ASSUME NEW r \in Streams, RequestStep(r) PROVE ActiveInv'
  <2>1. {Generate(r), Reset} \subseteq Commands \ {Unload}
    BY IsCommand, Messages
  <2>2. cmds' \in {cmds, Append(cmds, Generate(r)), Append(cmds, Reset)}
    BY <1>4, RequestSteps
  <2>3. ToUnload' => ToUnload
    BY <1>1, <2>1, <2>2, CommandKinds
  <2>4. LoadedOk' => LoadedOk
    BY <1>1, <1>4, RequestSteps, ResponseKinds
  <2>5. QED
    BY <1>2, <1>4, <2>3, <2>4, RequestSteps DEF loadVars
<1>5. CASE DispatchOne \/ DispatcherEnds
  BY <1>1, <1>2, <1>5, DispatcherSteps, CommandKinds, ResponseKinds DEF loadVars
<1>6. QED
  BY <1>3, <1>4, <1>5, Steps, ActiveWorker, ActiveLoads, ActiveCancels, ActiveUnloads

-----------------------------------------------------------------------------
(* Every step preserves what a cancel leaves behind.                       *)

\* While nothing is loaded, cancelled or brought to life, it stays so.
LEMMA CancelKept ==
  ASSUME CancelInv, UNCHANGED <<loader, canceller, stopped>>, active' \in {active, NoModel},
         alive' => alive, job = Wedged => ~alive' \/ job' = Wedged,
         loader.pc \in {"post", "wait", "publish"} /\ "crash" \notin Faults /\ alive /\ job # Wedged =>
           alive' /\ job' # Wedged
  PROVE  CancelInv'
BY DEF CancelInv

LEMMA CancelWorker ==
  ASSUME TypeOK, CancelInv, WorkerStep
  PROVE  CancelInv'
<1>1. WorkerTypeOK /\ job \in Jobs
  BY DEF TypeOK, WorkerTypeOK
<1>2. alive /\ UNCHANGED <<loader, canceller, stopped, active>>
  BY <1>1, WorkerSteps DEF parentVars, loadVars
<1>3. CASE Crash
  <2>1. ~alive' /\ ("crash" \notin Faults => job = Wedged)
    <3>1. Wedged.kind = "wedged" /\ Idling # Wedged
      BY IsJob
    <3>2. ~alive' /\ job' = Idling
      BY <1>3 DEF Crash
    <3>3. "crash" \in Faults \/ job = Wedged
      BY <1>2, <1>3, <3>1, <3>2
         DEF WorkerStep, Crash, FinishLoad, TakeCommand, StartGenerate, Emit, SendToken,
             StopGenerate, FailGenerate, StallLoad
    <3>4. QED
      BY <3>2, <3>3
  <2>2. QED
    BY <1>2, <2>1, CancelKept
<1>4. CASE ~Crash
  <2>1. alive' = alive /\ job # Wedged
    BY <1>4, IsJob DEF WorkerStep, FinishLoad, TakeCommand, StartGenerate, Emit, SendToken,
                      StopGenerate, FailGenerate, StallLoad
  <2>2. job' \in {job, Idling, Running(job.id), Dequeued(Head(cmds).id)}
    BY <1>4 DEF WorkerStep, FinishLoad, TakeCommand, StartGenerate, Emit, SendToken,
                StopGenerate, FailGenerate, StallLoad
  <2>3. job' # Wedged
    BY <2>1, <2>2, IsJob
  <2>4. QED
    BY <1>2, <2>1, <2>3, CancelKept
<1>5. QED
  BY <1>3, <1>4

LEMMA ShutdownGone ==
  ASSUME TypeOK, NEW s \in MaySurvive, Shutdown(s)
  PROVE  ~alive' \/ job' = Wedged
BY Shuts DEF TypeOK

LEMMA CancelLoads ==
  ASSUME TypeOK, GateInv, Handled, CancelInv, Loads
  PROVE  CancelInv'
<1>1. /\ WorkerTypeOK /\ loader \in Loaders /\ IdleLoader.pc = "idle"
      /\ UNCHANGED canceller
  BY LoadSteps DEF TypeOK, Loaders, Places, IdleLoader, parentButLoad
<1>2. Marked => canceller.pc = "idle" /\ stopped = NoModel
  BY DEF Marked, GateInv
<1>3. CASE \E m \in Models : BeginLoad(m)
  BY <1>1, <1>3 DEF BeginLoad, CancelInv
<1>4. CASE SpawnWorker
  <2>1. /\ UNCHANGED <<active, stopped>> /\ loader.pc = "spawn" /\ loader'.pc = "post"
        /\ alive' /\ job' = Loading(loader.model)
    BY <1>1, <1>4 DEF SpawnWorker, Spawn, LoaderAt, Loaders
  <2>2. job' # Wedged
    BY <2>1, IsJob
  <2>3. QED
    BY <1>1, <2>1, <2>2 DEF CancelInv
<1>5. CASE KillOld \/ HandleStall \/ (CheckAfterSpawn /\ ~Marked)
  <2>1. PICK s \in MaySurvive : Shutdown(s) \/ ShutdownOld(s)
    BY <1>5 DEF KillOld, HandleStall, CheckAfterSpawn
  <2>2. ~alive' \/ job' = Wedged
    BY <1>1, <2>1, ShutdownGone, OldShuts
  <2>3. stopped' = stopped /\ active' \in {active, NoModel}
    BY <1>5 DEF KillOld, HandleStall, CheckAfterSpawn, LoadRaises, ForgetModels
  <2>4. loader' \in {IdleLoader, [loader EXCEPT !.pc = "check"],
                     [loader EXCEPT !.pc = "check", !.attempt = 2]}
    BY <1>5 DEF KillOld, HandleStall, CheckAfterSpawn, LoadRaises, LoadReturns, LoaderAt
  <2>5. loader'.pc \in {"idle", "check"}
    BY <1>1, <2>4 DEF Loaders
  <2>6. QED
    BY <1>1, <2>2, <2>3, <2>5 DEF CancelInv
<1>6. CASE CheckAfterSpawn /\ Marked
  <2>1. /\ UNCHANGED <<alive, job, active, stopped>> /\ loader.pc = "post" /\ loader'.pc = "wait"
    BY <1>1, <1>6 DEF CheckAfterSpawn, LoaderAt, Loaders, workerVars
  <2>2. QED
    BY <1>1, <1>2, <1>6, <2>1 DEF CancelInv
<1>7. CASE RefuseForRepair \/ CheckBeforeSpawn \/ LoadFails
  <2>1. /\ UNCHANGED <<alive, job, stopped>> /\ active' \in {active, NoModel}
        /\ loader.pc # "post"
        /\ loader' \in {IdleLoader, [loader EXCEPT !.pc = "spawn"]}
    BY <1>7 DEF RefuseForRepair, CheckBeforeSpawn, LoadFails, workerVars, LoadReturns, LoadRaises,
                LoaderAt, ForgetModels
  <2>2. loader'.pc \in {"idle", "spawn"}
    BY <1>1, <2>1 DEF Loaders
  <2>3. QED
    BY <1>1, <2>1, <2>2 DEF CancelInv
<1>8. CASE Publish
  <2>1. /\ UNCHANGED <<alive, job, stopped>> /\ loader.pc = "publish" /\ loader'.pc = "idle"
    BY <1>1, <1>8 DEF Publish, workerVars, LoadReturns
  <2>2. QED
    BY <1>1, <2>1 DEF CancelInv
<1>9. CASE AwaitLoaded
  <2>1. /\ UNCHANGED <<alive, job, stopped>> /\ active' \in {active, NoModel} /\ loader.pc = "wait"
        /\ \/ loader' \in {IdleLoader, loader}
           \/ Marked /\ loader' = [loader EXCEPT !.pc = "publish"]
    BY <1>9 DEF AwaitLoaded, LoadReturns, LoadRaises, LoaderAt, ForgetModels
  <2>2. \/ loader'.pc \in {"idle", "wait"}
        \/ Marked /\ loader'.pc = "publish"
    BY <1>1, <2>1 DEF Loaders
  <2>3. QED
    BY <1>1, <1>2, <2>1, <2>2 DEF CancelInv
<1>10. QED
  BY <1>3, <1>4, <1>5, <1>6, <1>7, <1>8, <1>9 DEF Loads, LoadStep

LEMMA CancelCancels ==
  ASSUME TypeOK, GateInv, CancelInv, Cancels
  PROVE  CancelInv'
<1>1. loader' = loader /\ canceller \in Cancellers /\ IdleCancel.pc = "idle" /\ NoModel \notin Models
  BY CancelSteps, ModelsAssumption DEF parentButCancel, TypeOK, Cancellers, IdleCancel
<1>2. CASE BeginCancel
  <2>1. /\ UNCHANGED <<alive, job, stopped>> /\ active' = NoModel /\ canceller.pc = "idle"
        /\ canceller'.pc = "teardown"
    BY <1>2 DEF BeginCancel, workerVars, ForgetModels
  <2>2. QED
    BY <1>1, <2>1 DEF CancelInv
<1>3. CASE CancelTeardown
  <2>1. PICK s \in MaySurvive : Shutdown(s)
    BY <1>3 DEF CancelTeardown
  <2>2. ~alive' \/ job' = Wedged
    BY <2>1, ShutdownGone
  <2>3. /\ UNCHANGED <<active, stopped>> /\ canceller.pc = "teardown"
        /\ canceller'.pc = "clear" /\ canceller'.settle = alive
    BY <1>1, <1>3 DEF CancelTeardown, Cancellers
  <2>4. QED
    BY <1>1, <2>2, <2>3 DEF CancelInv
<1>4. CASE CancelClearsAgain
  <2>1. /\ UNCHANGED <<alive, job>> /\ active' = NoModel /\ canceller.pc = "clear"
        /\ canceller.settle => loader.pc # "publish"
        /\ canceller'.pc = "idle" /\ stopped' = canceller.model
    BY <1>1, <1>4 DEF CancelClearsAgain, workerVars, ForgetModels
  <2>2. stopped' # NoModel
    BY <1>1, <2>1 DEF GateInv
  <2>3. QED
    BY <1>1, <2>1, <2>2 DEF CancelInv
<1>5. QED
  BY <1>2, <1>3, <1>4 DEF Cancels, CancelStep

LEMMA CancelledStep ==
  ASSUME TypeOK, GateInv, Handled, CancelInv, [Next]_vars
  PROVE  CancelInv'
<1>1. CASE UNCHANGED vars
  BY <1>1, CancelKept DEF vars, workerVars, parentVars, loadVars
<1>2. ASSUME NEW r \in Streams, RequestStep(r) PROVE CancelInv'
  BY <1>2, RequestSteps, CancelKept DEF loadVars
<1>3. CASE DispatchOne \/ DispatcherEnds
  BY <1>3, DispatcherSteps, CancelKept DEF loadVars
<1>4. CASE Unloads
  <2>1. UNCHANGED <<loader, canceller, stopped>> /\ loader.pc = "idle"
    BY <1>4, UnloadSteps, UnloadAlone DEF parentButUnload
  <2>2. active' \in {active, NoModel}
    BY <1>4 DEF Unloads, UnloadStep, BeginUnload, SetPending, SetDrain, CancelRunning, TakeGenLock,
       UnloadByKill, UnloadSeesIdle, UnloadStopsDispatcher, SendUnload, AwaitUnloaded, UnloadFails,
       ClearPending, ClearDrain, ForgetModels
  <2>3. CASE UNCHANGED <<alive, job>>
    BY <2>1, <2>2, <2>3, CancelKept
  <2>4. ASSUME NEW s \in MaySurvive, Shutdown(s) PROVE CancelInv'
    BY <2>1, <2>2, <2>4, ShutdownGone DEF CancelInv
  <2>5. QED
    BY <1>4, <2>3, <2>4, UnloadSteps
<1>5. QED
  BY <1>1, <1>2, <1>3, <1>4, Steps, CancelWorker, CancelLoads, CancelCancels

-----------------------------------------------------------------------------
(* Every step preserves whose events there are.                            *)

OwnedNext(r) == r = genLock' /\ latched'[r] = proc'

\* Entries leave a queue at its head, and nothing of a generation is added.
FewerEvents ==
  \E d \in {0, 1} : \A i \in DOMAIN resps' :
    resps'[i] \in StreamEvents =>
      i \in Nat /\ i + d \in DOMAIN resps /\ resps[i + d] = resps'[i]

FewerGenerates ==
  \E d \in {0, 1} : \A i \in DOMAIN cmds' :
    cmds'[i].type = "generate" =>
      i \in Nat /\ i + d \in DOMAIN cmds /\ cmds[i + d] = cmds'[i]

LEMMA EventsLeave ==
  ASSUME resps \in Seq(Responses)
  PROVE  /\ resps' \in {resps, <<>>} => FewerEvents
         /\ resps # <<>> /\ resps' = Tail(resps) => FewerEvents
         /\ \A e \in Responses \ StreamEvents : resps' = Append(resps, e) => FewerEvents
<1>1. \A i \in DOMAIN resps : i \in Nat /\ i + 0 = i
  BY LenProperties
<1>2. ASSUME resps' = resps PROVE FewerEvents
  BY <1>1, <1>2 DEF FewerEvents
<1>3. ASSUME resps' = <<>> PROVE FewerEvents
  BY <1>3, NoEntries DEF FewerEvents
<1>4. ASSUME resps # <<>>, resps' = Tail(resps) PROVE FewerEvents
  <2>1. \A i \in DOMAIN resps' : i \in Nat /\ i + 1 \in DOMAIN resps /\ resps[i + 1] = resps'[i]
    BY <1>4, Tails
  <2>2. QED
    BY <2>1 DEF FewerEvents
<1>5. ASSUME NEW e \in Responses \ StreamEvents, resps' = Append(resps, e) PROVE FewerEvents
  <2>1. PICK n \in Nat : /\ DOMAIN resps' = DOMAIN resps \cup {n} /\ resps'[n] = e
                         /\ \A i \in DOMAIN resps : resps'[i] = resps[i]
    BY <1>5, Appends
  <2>2. \A i \in DOMAIN resps' : resps'[i] \in StreamEvents =>
          i \in Nat /\ i + 0 \in DOMAIN resps /\ resps[i + 0] = resps'[i]
    BY <1>1, <1>5, <2>1
  <2>3. QED
    BY <2>2 DEF FewerEvents
<1>6. QED
  BY <1>2, <1>3, <1>4, <1>5

LEMMA GeneratesLeave ==
  ASSUME cmds \in Seq(Commands)
  PROVE  /\ cmds' \in {cmds, <<>>} => FewerGenerates
         /\ cmds # <<>> /\ cmds' = Tail(cmds) => FewerGenerates
         /\ \A c \in {Unload, Reset} : cmds' = Append(cmds, c) => FewerGenerates
<1>1. \A i \in DOMAIN cmds : i \in Nat /\ i + 0 = i
  BY LenProperties
<1>2. ASSUME cmds' = cmds PROVE FewerGenerates
  BY <1>1, <1>2 DEF FewerGenerates
<1>3. ASSUME cmds' = <<>> PROVE FewerGenerates
  BY <1>3, NoEntries DEF FewerGenerates
<1>4. ASSUME cmds # <<>>, cmds' = Tail(cmds) PROVE FewerGenerates
  <2>1. \A i \in DOMAIN cmds' : i \in Nat /\ i + 1 \in DOMAIN cmds /\ cmds[i + 1] = cmds'[i]
    BY <1>4, Tails
  <2>2. QED
    BY <2>1 DEF FewerGenerates
<1>5. ASSUME NEW c \in {Unload, Reset}, cmds' = Append(cmds, c) PROVE FewerGenerates
  <2>1. c \in Commands /\ c.type # "generate"
    BY IsCommand, Messages
  <2>2. PICK n \in Nat : /\ DOMAIN cmds' = DOMAIN cmds \cup {n} /\ cmds'[n] = c
                         /\ \A i \in DOMAIN cmds : cmds'[i] = cmds[i]
    BY <1>5, <2>1, Appends
  <2>3. \A i \in DOMAIN cmds' : cmds'[i].type = "generate" =>
          i \in Nat /\ i + 0 \in DOMAIN cmds /\ cmds[i + 0] = cmds'[i]
    BY <1>1, <2>1, <2>2
  <2>4. QED
    BY <2>3 DEF FewerGenerates
<1>6. QED
  BY <1>2, <1>3, <1>4, <1>5

LEMMA EndsAreEvents ==
  ASSUME NEW q \in Seq(Responses), NEW i \in DOMAIN q, EndsStream(q[i])
  PROVE  q[i] \in StreamEvents
<1>1. q[i] \in Responses
  BY LenProperties, ElementOfSeq
<1>2. QED
  BY <1>1, IsResponse DEF EndsStream

\* An entry of a queue is of the queue's kind.
LEMMA Entries ==
  ASSUME TypeOK
  PROVE  /\ \A i \in DOMAIN resps : resps[i] \in Responses
         /\ \A i \in DOMAIN resps : EndsStream(resps[i]) => resps[i] \in StreamEvents
         /\ \A i \in DOMAIN resps : resps[i] \in StreamEvents => resps[i].id \in Streams
         /\ \A i \in DOMAIN cmds : cmds[i] \in Commands
         /\ \A i \in DOMAIN cmds : ToGenerate(i) => cmds[i].id \in Streams
         /\ Generating => job.id \in Streams
<1>1. resps \in Seq(Responses) /\ cmds \in Seq(Commands) /\ job \in Jobs
  BY DEF TypeOK, WorkerTypeOK
<1>2. \A i \in DOMAIN resps : resps[i] \in Responses
  BY <1>1, LenProperties, ElementOfSeq
<1>3. \A i \in DOMAIN cmds : cmds[i] \in Commands
  BY <1>1, LenProperties, ElementOfSeq
<1>4. \A i \in DOMAIN resps : EndsStream(resps[i]) => resps[i] \in StreamEvents
  BY <1>1, EndsAreEvents
<1>5. Generating => job.id \in Streams
  BY <1>1, IsJob DEF Generating
<1>6. QED
  BY <1>2, <1>3, <1>4, <1>5, IsResponse, IsCommand DEF ToGenerate

EndsLast == \A i, k \in DOMAIN resps : i < k /\ EndsStream(resps[i]) => resps[k] \notin StreamEvents

\* Nothing of a generation is under way.
Quiet ==
  /\ proc # 0 => \A i \in DOMAIN resps : resps[i] \notin StreamEvents
  /\ alive => ~Generating /\ \A i \in DOMAIN cmds : ~ToGenerate(i)

LEMMA EndsLastKept ==
  ASSUME TypeOK, TypeOK', EndsLast, FewerEvents
  PROVE  EndsLast'
<1>1. PICK d \in {0, 1} : \A i \in DOMAIN resps' :
        resps'[i] \in StreamEvents =>
          i \in Nat /\ i + d \in DOMAIN resps /\ resps[i + d] = resps'[i]
  BY DEF FewerEvents
<1>2. SUFFICES ASSUME NEW i \in DOMAIN resps', NEW k \in DOMAIN resps', i < k,
                      EndsStream(resps'[i]), resps'[k] \in StreamEvents
               PROVE  FALSE
  BY DEF EndsLast
<1>3. resps'[i] \in StreamEvents
  BY <1>2, EndsAreEvents DEF TypeOK, WorkerTypeOK
<1>4. /\ i \in Nat /\ i + d \in DOMAIN resps /\ resps[i + d] = resps'[i]
      /\ k \in Nat /\ k + d \in DOMAIN resps /\ resps[k + d] = resps'[k]
  BY <1>1, <1>2, <1>3
<1>5. i + d < k + d
  BY <1>2, <1>4
<1>6. QED
  BY <1>2, <1>4, <1>5 DEF EndsLast

\* What is owned stays owned while queues only shrink and the worker starts
\* no generation.
LEMMA OwnKept ==
  ASSUME TypeOK, TypeOK', OwnInv, UNCHANGED <<seen, latched>> \/ OwnEvents', FewerEvents,
         proc' # 0 => proc' = proc /\ \A q \in Streams : Owned(q) => OwnedNext(q),
         alive' => alive /\ proc' # 0 /\ FewerGenerates /\ (job' = job \/ ~Generating')
  PROVE  OwnInv'
<1>1. SUFFICES ASSUME Alone PROVE OwnInv'
  BY DEF OwnInv, Alone
<1>2. OwnEvents' /\ EndsLast'
  BY <1>1, EndsLastKept DEF OwnInv, OwnEvents, EndsLast
<1>3. \A i \in DOMAIN resps' : resps'[i] \in StreamEvents => \E k \in DOMAIN resps : resps[k] = resps'[i]
  BY DEF FewerEvents
<1>4. ASSUME NEW i \in DOMAIN resps', resps'[i] \in StreamEvents, proc' # 0
      PROVE  OwnedNext(resps'[i].id)
  <2>1. PICK k \in DOMAIN resps : resps[k] = resps'[i]
    BY <1>3, <1>4
  <2>2. resps[k].id \in Streams /\ Owned(resps[k].id)
    BY <1>1, <1>4, <2>1, Entries DEF OwnInv
  <2>3. QED
    BY <1>4, <2>1, <2>2 DEF Owned, OwnedNext
<1>5. ASSUME alive'
      PROVE  /\ \A i \in DOMAIN cmds' : ToGenerate(i)' => OwnedNext(cmds'[i].id)
             /\ \A i, k \in DOMAIN cmds' : ToGenerate(i)' /\ ToGenerate(k)' => i = k
             /\ Generating' => OwnedNext(job'.id) /\ \A i \in DOMAIN cmds' : ~ToGenerate(i)'
             /\ Ended' => ~Generating' /\ \A i \in DOMAIN cmds' : ~ToGenerate(i)'
  <2>1. alive /\ proc' # 0 /\ (job' = job \/ ~Generating')
    BY <1>5
  <2>2. PICK d \in {0, 1} : \A i \in DOMAIN cmds' :
          ToGenerate(i)' => i \in Nat /\ i + d \in DOMAIN cmds /\ cmds[i + d] = cmds'[i]
    BY <1>5 DEF FewerGenerates, ToGenerate
  <2>3. \A i \in DOMAIN cmds' : ToGenerate(i)' => ToGenerate(i + d)
    BY <2>2 DEF ToGenerate
  <2>4. ASSUME NEW i \in DOMAIN cmds', ToGenerate(i)' PROVE OwnedNext(cmds'[i].id)
    <3>1. i + d \in DOMAIN cmds /\ cmds[i + d] = cmds'[i] /\ ToGenerate(i + d)
      BY <2>2, <2>3, <2>4
    <3>2. cmds[i + d].id \in Streams /\ Owned(cmds[i + d].id)
      BY <1>1, <2>1, <3>1, Entries DEF OwnInv
    <3>3. QED
      BY <2>1, <3>1, <3>2 DEF Owned, OwnedNext
  <2>5. ASSUME NEW i \in DOMAIN cmds', NEW k \in DOMAIN cmds', ToGenerate(i)', ToGenerate(k)'
        PROVE  i = k
    <3>1. /\ i \in Nat /\ k \in Nat /\ i + d \in DOMAIN cmds /\ k + d \in DOMAIN cmds
          /\ ToGenerate(i + d) /\ ToGenerate(k + d)
      BY <2>2, <2>3, <2>5
    <3>2. i + d = k + d
      BY <1>1, <2>1, <3>1 DEF OwnInv
    <3>3. QED
      BY <3>1, <3>2
  <2>6. ASSUME Generating' PROVE OwnedNext(job'.id) /\ \A i \in DOMAIN cmds' : ~ToGenerate(i)'
    <3>1. job' = job /\ Generating
      BY <2>1, <2>6 DEF Generating
    <3>2. job.id \in Streams /\ Owned(job.id) /\ \A i \in DOMAIN cmds : ~ToGenerate(i)
      BY <1>1, <2>1, <3>1, Entries DEF OwnInv
    <3>3. QED
      BY <2>1, <2>2, <2>3, <3>1, <3>2 DEF Owned, OwnedNext
  <2>7. ASSUME Ended' PROVE ~Generating' /\ \A i \in DOMAIN cmds' : ~ToGenerate(i)'
    <3>1. Ended
      <4>1. PICK i \in DOMAIN resps' : EndsStream(resps'[i])
        BY <2>7 DEF Ended
      <4>2. resps'[i] \in StreamEvents
        BY <4>1, EndsAreEvents DEF TypeOK, WorkerTypeOK
      <4>3. QED
        BY <1>3, <4>1, <4>2 DEF Ended
    <3>2. ~Generating /\ \A i \in DOMAIN cmds : ~ToGenerate(i)
      BY <1>1, <2>1, <3>1 DEF OwnInv
    <3>3. QED
      BY <2>1, <2>2, <2>3, <3>2 DEF Generating
  <2>8. QED
    BY <2>4, <2>5, <2>6, <2>7
<1>6. QED
  BY <1>2, <1>4, <1>5 DEF OwnInv, EndsLast, Owned, OwnedNext

LEMMA OwnQuiet ==
  ASSUME TypeOK', OwnEvents', EndsLast', Quiet', alive' => proc' # 0
  PROVE  OwnInv'
<1>1. ASSUME alive' PROVE ~Ended'
  <2>1. \A i \in DOMAIN resps' : resps'[i] \notin StreamEvents
    BY <1>1 DEF Quiet
  <2>2. resps' \in Seq(Responses)
    BY DEF TypeOK, WorkerTypeOK
  <2>3. QED
    BY <2>1, <2>2, EndsAreEvents DEF Ended
<1>2. \A i \in DOMAIN resps' : resps'[i] \in StreamEvents /\ proc' # 0 => FALSE
  BY DEF Quiet
<1>3. QED
  BY <1>1, <1>2 DEF OwnInv, Quiet, EndsLast

\* A process that the parent gave up has nothing left to say.
LEMMA OwnShutdown ==
  ASSUME TypeOK, TypeOK', LockInv, OwnInv, UNCHANGED <<seen, latched>>,
         proc' = proc => \A q \in Streams : Owned(q) => OwnedNext(q),
         NEW s \in MaySurvive, Shutdown(s)
  PROVE  OwnInv'
<1>1. WorkerTypeOK /\ resps \in Seq(Responses) /\ cmds \in Seq(Commands)
  BY DEF TypeOK, WorkerTypeOK
<1>2. FewerEvents
  BY <1>1, Shuts, EventsLeave
<1>3. proc' # 0 => proc' = proc /\ \A q \in Streams : Owned(q) => OwnedNext(q)
  BY <1>1, Shuts
<1>4. alive' => alive /\ proc' # 0 /\ FewerGenerates /\ ~Generating'
  <2>1. SUFFICES ASSUME alive' PROVE alive /\ proc' # 0 /\ FewerGenerates /\ ~Generating'
    OBVIOUS
  <2>2. alive /\ proc' = proc /\ job' = Wedged /\ cmds' = cmds
    BY <1>1, <2>1, Shuts
  <2>3. QED
    BY <1>1, <2>2, GeneratesLeave, IsJob DEF Generating, LockInv, Handled
<1>5. QED
  BY <1>2, <1>3, <1>4, OwnKept

LEMMA OwnWorker ==
  ASSUME TypeOK, TypeOK', LockInv, OwnInv, WorkerStep
  PROVE  OwnInv'
<1>1. /\ cmds \in Seq(Commands) /\ resps \in Seq(Responses) /\ job \in Jobs /\ WorkerTypeOK
      /\ resps' \in Seq(Responses)
  BY DEF TypeOK, WorkerTypeOK
<1>2. alive /\ UNCHANGED <<proc, seen, genLock, latched>> /\ proc # 0
  BY <1>1, WorkerSteps DEF parentVars, streamVars, LockInv, Handled
<1>3. \A q : Owned(q) <=> OwnedNext(q)
  BY <1>2 DEF Owned, OwnedNext
<1>4. SUFFICES ASSUME Alone PROVE OwnInv'
  BY DEF OwnInv, Alone
<1>5. OwnEvents'
  BY <1>2, <1>4 DEF OwnInv, OwnEvents
<1>6. ASSUME FewerEvents, FewerGenerates, job' = job \/ ~Generating' PROVE OwnInv'
  BY <1>2, <1>3, <1>6, OwnKept
<1>7. ASSUME FewerEvents, ~alive' PROVE OwnInv'
  BY <1>2, <1>3, <1>7, OwnKept
<1>8. ASSUME NEW e \in StreamEvents, resps' = Append(resps, e), Owned(e.id), ~Ended, alive',
             EndsStream(e) => ~Generating' /\ \A i \in DOMAIN cmds' : ~ToGenerate(i)',
             ~EndsStream(e) => cmds' = cmds /\ job' = job
      PROVE  OwnInv'
  <2>1. e \in Responses
    BY <1>8, IsResponse
  <2>2. PICK n \in Nat : /\ n \notin DOMAIN resps /\ DOMAIN resps' = DOMAIN resps \cup {n}
                         /\ resps'[n] = e
                         /\ \A i \in DOMAIN resps : i \in Nat /\ i < n /\ resps'[i] = resps[i]
    BY <1>1, <1>8, <2>1, Appends
  <2>3. \A i \in DOMAIN resps' : resps'[i] \in StreamEvents => OwnedNext(resps'[i].id)
    BY <1>2, <1>3, <1>4, <1>8, <2>2 DEF OwnInv
  <2>4. \A i \in DOMAIN resps : ~EndsStream(resps[i])
    BY <1>8 DEF Ended
  <2>5. EndsLast'
    <3>1. SUFFICES ASSUME NEW i \in DOMAIN resps', NEW k \in DOMAIN resps', i < k,
                          EndsStream(resps'[i])
                   PROVE  FALSE
      BY DEF EndsLast
    <3>2. i = n /\ k \in DOMAIN resps
      BY <2>2, <2>4, <3>1
    <3>3. QED
      BY <2>2, <3>1, <3>2
  <2>6. CASE EndsStream(e)
    <3>1. ~Generating' /\ \A i \in DOMAIN cmds' : ~ToGenerate(i)'
      BY <1>8, <2>6
    <3>2. QED
      BY <1>5, <2>3, <2>5, <3>1 DEF OwnInv, EndsLast, Owned, OwnedNext
  <2>7. CASE ~EndsStream(e)
    <3>1. ~Ended'
      BY <2>2, <2>4, <2>7 DEF Ended
    <3>2. cmds' = cmds /\ job' = job
      BY <1>8, <2>7
    <3>3. /\ \A i \in DOMAIN cmds : ToGenerate(i) => Owned(cmds[i].id)
          /\ \A i, k \in DOMAIN cmds : ToGenerate(i) /\ ToGenerate(k) => i = k
          /\ Generating => Owned(job.id) /\ \A i \in DOMAIN cmds : ~ToGenerate(i)
      BY <1>2, <1>4 DEF OwnInv
    <3>4. /\ \A i \in DOMAIN cmds' : ToGenerate(i)' => OwnedNext(cmds'[i].id)
          /\ \A i, k \in DOMAIN cmds' : ToGenerate(i)' /\ ToGenerate(k)' => i = k
          /\ Generating' => OwnedNext(job'.id) /\ \A i \in DOMAIN cmds' : ~ToGenerate(i)'
      BY <1>3, <3>2, <3>3 DEF ToGenerate, Generating
    <3>5. QED
      BY <1>5, <2>3, <2>5, <3>1, <3>4 DEF OwnInv, EndsLast, Owned, OwnedNext
  <2>8. QED
    BY <2>6, <2>7
<1>9. CASE FinishLoad
  <2>1. /\ resps' \in {Append(resps, Loaded(TRUE)), Append(resps, Loaded(FALSE))}
        /\ job' = Idling /\ cmds' = cmds
    BY <1>9 DEF FinishLoad, Reply
  <2>2. FewerEvents /\ FewerGenerates
    BY <1>1, <2>1, EventsLeave, GeneratesLeave, IsResponse
  <2>3. QED
    BY <1>6, <2>1, <2>2, IsJob DEF Generating
<1>10. CASE StallLoad
  <2>1. resps' = Append(resps, Stall) /\ job' = job /\ cmds' = cmds
    BY <1>10 DEF StallLoad, Reply
  <2>2. FewerEvents /\ FewerGenerates
    BY <1>1, <2>1, EventsLeave, GeneratesLeave, IsResponse
  <2>3. QED
    BY <1>6, <2>1, <2>2
<1>11. CASE TakeCommand
  <2> DEFINE c == Head(cmds)
  <2>1. /\ cmds # <<>> /\ cmds' = Tail(cmds) /\ alive' = alive /\ job = Idling
        /\ \/ c.type = "generate" /\ resps' = Append(resps, GenDone(c.id)) /\ UNCHANGED job
           \/ c.type = "generate" /\ job' = Dequeued(c.id) /\ UNCHANGED resps
           \/ c = Unload /\ resps' = Append(resps, Unloaded) /\ UNCHANGED job
           \/ c = Reset /\ resps' = Append(resps, ResetAck) /\ UNCHANGED job
    BY <1>11 DEF TakeCommand, Reply
  <2>2. /\ c \in Commands /\ c = cmds[1] /\ 1 \in DOMAIN cmds
        /\ \A i \in DOMAIN cmds' : i \in Nat /\ 1 <= i /\ i + 1 \in DOMAIN cmds
                                   /\ cmds'[i] = cmds[i + 1]
    BY <1>1, <2>1, Tails
  <2>3. FewerGenerates
    BY <1>1, <2>1, GeneratesLeave
  <2> HIDE DEF c
  <2>4. ASSUME c.type = "generate"
        PROVE  /\ ToGenerate(1) /\ Owned(c.id) /\ c.id \in Streams /\ ~Ended
               /\ \A i \in DOMAIN cmds' : ~ToGenerate(i)'
    <3>1. ToGenerate(1) /\ c.id \in Streams
      BY <2>2, <2>4, IsCommand DEF ToGenerate
    <3>2. Owned(c.id) /\ ~Ended
      BY <1>2, <1>4, <2>2, <3>1 DEF OwnInv
    <3>3. ASSUME NEW i \in DOMAIN cmds', ToGenerate(i)' PROVE FALSE
      <4>1. i \in Nat /\ 1 <= i /\ i + 1 \in DOMAIN cmds /\ ToGenerate(i + 1)
        BY <2>2, <3>3 DEF ToGenerate
      <4>2. i + 1 = 1
        BY <1>2, <1>4, <2>2, <3>1, <4>1 DEF OwnInv
      <4>3. QED
        BY <4>1, <4>2
    <3>4. QED
      BY <3>1, <3>2, <3>3
  <2>5. CASE c.type = "generate" /\ resps' = Append(resps, GenDone(c.id)) /\ UNCHANGED job
    <3>1. GenDone(c.id) \in StreamEvents /\ EndsStream(GenDone(c.id)) /\ GenDone(c.id).id = c.id
      BY <2>4, <2>5, IsResponse, Messages
    <3>2. ~Generating'
      BY <2>1, <2>5, IsJob DEF Generating
    <3>3. QED
      BY <1>2, <1>8, <2>1, <2>4, <2>5, <3>1, <3>2
  <2>6. CASE c.type = "generate" /\ job' = Dequeued(c.id) /\ UNCHANGED resps
    <3>1. ~Ended' /\ \A i \in DOMAIN cmds' : ~ToGenerate(i)'
      BY <2>4, <2>6 DEF Ended
    <3>2. OwnedNext(job'.id)
      BY <1>3, <2>4, <2>6, IsJob
    <3>3. /\ \A i \in DOMAIN resps' : resps'[i] \in StreamEvents => OwnedNext(resps'[i].id)
          /\ EndsLast'
      BY <1>2, <1>3, <1>4, <2>6 DEF OwnInv, EndsLast
    <3>4. QED
      BY <1>5, <3>1, <3>2, <3>3 DEF OwnInv, EndsLast, Owned, OwnedNext
  <2>7. CASE resps' \in {Append(resps, Unloaded), Append(resps, ResetAck)} /\ UNCHANGED job
    <3>1. FewerEvents
      BY <1>1, <2>7, EventsLeave, IsResponse
    <3>2. QED
      BY <1>6, <2>3, <2>7, <3>1
  <2>8. QED
    BY <2>1, <2>5, <2>6, <2>7
<1>12. CASE StartGenerate \/ Emit \/ StopGenerate \/ FailGenerate
  <2>1. /\ alive' = alive /\ cmds' = cmds /\ job.kind \in {"dequeued", "running"}
        /\ \/ job' = Idling /\ resps' \in {Append(resps, GenDone(job.id)), Append(resps, GenError(job.id))}
           \/ job' = Running(job.id) /\ resps' = resps
           \/ job' = job /\ resps' = Append(resps, Token(job.id))
    BY <1>12 DEF StartGenerate, Emit, SendToken, StopGenerate, FailGenerate, Reply
  <2>2. /\ Generating /\ Owned(job.id) /\ job.id \in Streams /\ ~Ended
        /\ \A i \in DOMAIN cmds : ~ToGenerate(i)
    BY <1>2, <1>4, <2>1, Entries DEF OwnInv, Generating
  <2>3. \A i \in DOMAIN cmds' : ~ToGenerate(i)'
    BY <2>1, <2>2 DEF ToGenerate
  <2>4. CASE job' = Idling /\ resps' \in {Append(resps, GenDone(job.id)), Append(resps, GenError(job.id))}
    <3>1. PICK e \in {GenDone(job.id), GenError(job.id)} : resps' = Append(resps, e)
      BY <2>4
    <3>2. e \in StreamEvents /\ EndsStream(e) /\ e.id = job.id
      BY <2>2, <3>1, IsResponse, Messages
    <3>3. ~Generating'
      BY <2>4, IsJob DEF Generating
    <3>4. QED
      BY <1>2, <1>8, <2>1, <2>2, <2>3, <3>1, <3>2, <3>3
  <2>5. CASE job' = Running(job.id) /\ resps' = resps
    <3>1. ~Ended'
      BY <2>2, <2>5 DEF Ended
    <3>2. OwnedNext(job'.id)
      BY <1>3, <2>2, <2>5, IsJob
    <3>3. /\ \A i \in DOMAIN resps' : resps'[i] \in StreamEvents => OwnedNext(resps'[i].id)
          /\ EndsLast'
      BY <1>2, <1>3, <1>4, <2>5 DEF OwnInv, EndsLast
    <3>4. QED
      BY <1>5, <2>3, <3>1, <3>2, <3>3 DEF OwnInv, EndsLast, Owned, OwnedNext
  <2>6. CASE job' = job /\ resps' = Append(resps, Token(job.id))
    <3>1. Token(job.id) \in StreamEvents /\ ~EndsStream(Token(job.id)) /\ Token(job.id).id = job.id
      BY <2>2, IsResponse, Messages
    <3>2. QED
      BY <1>2, <1>8, <2>1, <2>2, <2>6, <3>1
  <2>7. QED
    BY <2>1, <2>4, <2>5, <2>6
<1>13. CASE Crash
  <2>1. ~alive' /\ resps' = resps
    BY <1>13 DEF Crash, channel
  <2>2. QED
    BY <1>1, <1>7, <2>1, EventsLeave
<1>14. QED
  BY <1>9, <1>10, <1>11, <1>12, <1>13 DEF WorkerStep

\* While no request holds the lock, nothing of a generation is under way.
LEMMA NobodyOwns ==
  ASSUME TypeOK, OwnInv, Alone, alive => proc # 0, \A q \in Streams : ~Owned(q)
  PROVE  Quiet
BY Entries DEF OwnInv, Quiet

\* A reader that goes leaves nothing behind: it saw the end of its generation,
\* or the process is dead or another one.
LEMMA OwnFinish ==
  ASSUME TypeOK, TypeOK', LockInv, OwnInv, Alone, NEW r \in Locked,
         UNCHANGED <<proc, alive, cmds, job>>, OwnEvents', genLock = r,
         \/ resps # <<>> /\ EndsStream(Head(resps)) /\ resps' = Tail(resps)
         \/ (~Current(r) \/ (resps = <<>> /\ ~alive)) /\ resps' = resps
  PROVE  OwnInv'
<1>1. resps \in Seq(Responses) /\ (alive => proc # 0) /\ EndsLast /\ r \in Streams
  BY DEF TypeOK, WorkerTypeOK, LockInv, Handled, OwnInv, EndsLast, Streams
<1>2. FewerEvents
  BY <1>1, EventsLeave
<1>3. EndsLast'
  BY <1>1, <1>2, EndsLastKept
<1>4. ASSUME resps # <<>>, EndsStream(Head(resps)), resps' = Tail(resps) PROVE Quiet'
  <2>1. /\ 1 \in DOMAIN resps /\ EndsStream(resps[1])
        /\ \A i \in DOMAIN resps' : i \in Nat /\ 1 <= i /\ i + 1 \in DOMAIN resps
                                    /\ resps'[i] = resps[i + 1]
    BY <1>1, <1>4, Tails
  <2>2. Ended
    BY <2>1 DEF Ended
  <2>3. ASSUME NEW i \in DOMAIN resps' PROVE resps'[i] \notin StreamEvents
    <3>1. 1 < i + 1 /\ i + 1 \in DOMAIN resps /\ resps'[i] = resps[i + 1]
      BY <2>1
    <3>2. QED
      BY <1>1, <2>1, <3>1 DEF EndsLast
  <2>4. alive => ~Generating /\ \A i \in DOMAIN cmds : ~ToGenerate(i)
    BY <2>2 DEF OwnInv
  <2>5. QED
    BY <2>3, <2>4 DEF Quiet, Generating, ToGenerate
<1>5. ASSUME ~Current(r) \/ (resps = <<>> /\ ~alive), resps' = resps PROVE Quiet'
  <2>1. CASE ~Current(r) /\ proc # 0
    <3>1. \A q \in Streams : ~Owned(q)
      BY <1>1, <2>1 DEF Owned, Current, LockInv, Handled
    <3>2. Quiet
      BY <1>1, <3>1, NobodyOwns
    <3>3. QED
      BY <1>5, <3>2 DEF Quiet, Generating, ToGenerate
  <2>2. CASE proc = 0 \/ (resps = <<>> /\ ~alive)
    BY <1>1, <1>5, <2>2, NoEntries DEF Quiet
  <2>3. QED
    BY <1>5, <2>1, <2>2
<1>6. QED
  BY <1>1, <1>3, <1>4, <1>5, OwnQuiet

LEMMA PhaseStep ==
  ASSUME TypeOK, GateInv, PhaseInv, [Next]_vars
  PROVE  PhaseInv'
<1>1. CASE UNCHANGED <<phase, seen>>
  BY <1>1 DEF PhaseInv
<1>2. ASSUME NEW r \in Streams, RequestStep(r) PROVE PhaseInv'
  <2>1. /\ phase \in [Streams -> Phases] /\ seen \in [Streams -> SUBSET Streams]
        /\ Locked \subseteq Streams
    BY DEF TypeOK, Streams
  <2>2. CASE BeginLocked(r) \/ LockedStep(r) \/ BeginCompare(r) \/ CompareStep(r)
    <3>1. /\ phase[r] \notin Reading \cup {"done"} /\ seen' = seen
          /\ \E p \in {"idle", "done", "lock", "stop", "start", "register", "registerOwn", "stopOwn",
                       "send", "stream"} : Goto(r, p)
      BY <2>2 DEF LockedStep, CompareStep, BeginLocked, SeeIdle, StopIdle, LockAndSend, BeginCompare,
                  StartDispatcher, Register, StopOwn, SendCompare, Reading
    <3>2. phase'[r] # "drain" /\ \A q \in Streams \ {r} : phase'[q] = phase[q]
      BY <2>1, <3>1 DEF Goto
    <3>3. QED
      BY <2>1, <3>1, <3>2 DEF PhaseInv
  <2>3. CASE ReadEvent(r) \/ LoseWorker(r) \/ DrainEvent(r) \/ CloseStream(r)
    <3>1. /\ phase[r] \in Reading
          /\ Goto(r, "done") \/ UNCHANGED phase \/ ("cancel" \in Faults /\ Goto(r, "drain"))
      BY <2>3 DEF ReadEvent, LoseWorker, DrainEvent, CloseStream, Finish, Stay, Reading
    <3>2. \A q \in Streams \ {r} : seen'[q] = seen[q]
      BY <2>1, <2>3 DEF ReadEvent, LoseWorker, DrainEvent, CloseStream
    <3>3. /\ phase'[r] \in Reading \cup {"done"} /\ \A q \in Streams \ {r} : phase'[q] = phase[q]
          /\ phase'[r] = "drain" => phase[r] = "drain" \/ "cancel" \in Faults
      BY <2>1, <3>1 DEF Goto, Reading
    <3>4. QED
      BY <2>1, <3>2, <3>3 DEF PhaseInv
  <2>4. QED
    BY <1>2, <2>2, <2>3 DEF RequestStep, StreamStep
<1>3. CASE UNCHANGED streamVars
  BY <1>1, <1>3 DEF streamVars
<1>4. CASE UNCHANGED vars \/ WorkerStep
  BY <1>3, <1>4, WorkerSteps DEF TypeOK, vars, parentVars
<1>5. CASE Loads \/ Cancels \/ Unloads
  BY <1>3, <1>5, LoadSteps, CancelSteps, UnloadSteps
     DEF parentButLoad, parentButCancel, parentButUnload
<1>6. QED
  BY <1>2, <1>3, <1>4, <1>5, Steps, DispatcherSteps

LEMMA OwnRequests ==
  ASSUME TypeOK, TypeOK', LockInv, PhaseInv, OwnInv, NEW r \in Streams, RequestStep(r)
  PROVE  OwnInv'
<1>1. SUFFICES ASSUME Alone PROVE OwnInv'
  BY DEF OwnInv, Alone
<1>2. /\ r \in Locked /\ r \notin Compare /\ Source(r) = resps /\ "close" \notin Faults
      /\ phase[r] = "drain" => ~Expires
      /\ Unloader \notin Streams /\ Nobody \notin Streams
  BY <1>1, OwnersAssumption DEF Alone, PhaseInv, Streams, Source, Expires
<1>3. /\ UNCHANGED <<proc, alive, job>> /\ (alive => proc # 0)
      /\ resps' = resps \/ (resps # <<>> /\ resps' = Tail(resps))
  BY RequestSteps DEF LockInv, Handled
<1>4. /\ resps \in Seq(Responses) /\ cmds \in Seq(Commands) /\ seen \in [Streams -> SUBSET Streams]
      /\ cmds' \in Seq(Commands) /\ phase \in [Streams -> Phases] /\ latched \in [Streams -> Nat]
  BY DEF TypeOK, WorkerTypeOK
<1>5. FewerEvents
  BY <1>3, <1>4, EventsLeave
<1>6. ASSUME UNCHANGED <<seen, genLock, latched, cmds>> PROVE OwnInv'
  <2>1. FewerGenerates
    BY <1>4, <1>6, GeneratesLeave
  <2>2. \A q \in Streams : Owned(q) => OwnedNext(q)
    BY <1>3, <1>6 DEF Owned, OwnedNext
  <2>3. QED
    BY <1>3, <1>5, <1>6, <2>1, <2>2, OwnKept
<1>7. OwnEvents
  BY <1>1 DEF OwnInv
<1>8. CASE BeginLocked(r) \/ SeeIdle(r) \/ StopIdle(r)
  BY <1>6, <1>8 DEF BeginLocked, SeeIdle, StopIdle, workerVars, channel, streamVars
<1>9. CASE LockAndSend(r)
  <2>1. \/ UNCHANGED <<seen, genLock, latched, cmds>>
        \/ /\ genLock = Nobody /\ genLock' = r /\ latched' = [latched EXCEPT ![r] = proc]
           /\ phase[r] = "lock" /\ cmds' = Append(cmds, Generate(r)) /\ UNCHANGED <<seen, resps>>
    BY <1>9 DEF LockAndSend, Send, Latch
  <2>2. CASE /\ genLock = Nobody /\ genLock' = r /\ latched' = [latched EXCEPT ![r] = proc]
             /\ phase[r] = "lock" /\ cmds' = Append(cmds, Generate(r)) /\ UNCHANGED <<seen, resps>>
    <3>1. OwnedNext(r)
      BY <1>2, <1>3, <1>4, <2>2 DEF OwnedNext
    <3>2. \A q \in Streams : ~Owned(q)
      BY <1>2, <2>2 DEF Owned
    <3>3. Quiet
      BY <1>1, <1>3, <3>2, NobodyOwns
    <3>4. proc' # 0 => \A i \in DOMAIN resps' : resps'[i] \notin StreamEvents
      BY <1>3, <2>2, <3>3 DEF Quiet
    <3>5. alive' => ~Ended'
      BY <1>3, <1>4, <2>2, <3>4, EndsAreEvents DEF Ended
    <3>6. Generate(r) \in Commands /\ Generate(r).type = "generate" /\ Generate(r).id = r
      BY IsCommand, Messages
    <3>7. PICK n \in Nat : /\ DOMAIN cmds' = DOMAIN cmds \cup {n} /\ cmds'[n] = Generate(r)
                           /\ \A i \in DOMAIN cmds : cmds'[i] = cmds[i]
      BY <1>4, <2>2, <3>6, Appends
    <3>8. alive' => \A i \in DOMAIN cmds' : ToGenerate(i)' => i = n
      BY <1>3, <3>3, <3>7 DEF Quiet, ToGenerate
    <3>9. alive' => \A i \in DOMAIN cmds' : ToGenerate(i)' => OwnedNext(cmds'[i].id)
      BY <3>1, <3>6, <3>7, <3>8
    <3>10. alive' => ~Generating'
      BY <1>3, <3>3 DEF Quiet, Generating
    <3>11. OwnEvents'
      <4>1. seen[r] = {}
        BY <2>2 DEF PhaseInv, Reading
      <4>2. \A q \in Streams \ {r} : latched'[q] = latched[q]
        BY <1>4, <2>2
      <4>3. QED
        BY <1>7, <2>2, <4>1, <4>2 DEF OwnEvents
    <3>12. EndsLast'
      BY <1>1, <2>2 DEF EndsLast, OwnInv
    <3>13. alive' => \A i, k \in DOMAIN cmds' : ToGenerate(i)' /\ ToGenerate(k)' => i = k
      BY <3>8
    <3>14. QED
      BY <3>4, <3>5, <3>9, <3>10, <3>11, <3>12, <3>13 DEF OwnInv, EndsLast, Owned, OwnedNext
  <2>3. QED
    BY <1>6, <2>1, <2>2
<1>10. CASE ReadEvent(r)
  <2> DEFINE e == Head(resps)
  <2>1. /\ phase[r] = "stream" /\ latched[r] = proc /\ resps # <<>> /\ resps' = Tail(resps)
        /\ UNCHANGED <<cmds, latched>>
        /\ \/ /\ e.type = "token" \/ EndsStream(e)
              /\ seen' = [seen EXCEPT ![r] = seen[r] \cup {e.id}]
           \/ seen' = seen
        /\ genLock' = genLock \/ EndsStream(e)
    BY <1>2, <1>10 DEF ReadEvent, Current, Pop, Stay, Source
  <2>2. genLock = r /\ latched[r] = proc
    BY <1>2, <2>1 DEF LockInv, Reading
  <2>3. e = resps[1] /\ 1 \in DOMAIN resps /\ e \in Responses
    BY <1>4, <2>1, Tails
  <2> HIDE DEF e
  <2>4. ASSUME e.type = "token" \/ EndsStream(e), proc # 0 PROVE e.id = r
    <3>1. e \in StreamEvents
      BY <2>3, <2>4, IsResponse DEF EndsStream
    <3>2. Owned(e.id)
      BY <1>1, <2>2, <2>3, <2>4, <3>1 DEF OwnInv
    <3>3. QED
      BY <2>2, <3>2 DEF Owned
  <2>5. \/ seen' = seen \/ seen' = [seen EXCEPT ![r] = seen[r] \cup {r}]
        \/ proc = 0 /\ seen' = [seen EXCEPT ![r] = seen[r] \cup {e.id}]
    BY <2>1, <2>4
  <2>6. OwnEvents'
    <3>1. \A q \in Streams : latched[q] # 0 => seen'[q] \in {seen[q], seen[q] \cup {q}}
      BY <1>4, <2>2, <2>5
    <3>2. QED
      BY <1>7, <2>1, <3>1 DEF OwnEvents
  <2>7. CASE EndsStream(e)
    BY <1>1, <1>2, <1>3, <2>1, <2>2, <2>6, <2>7, OwnFinish DEF e
  <2>8. CASE ~EndsStream(e)
    <3>1. \A q \in Streams : Owned(q) => OwnedNext(q)
      BY <1>3, <2>1, <2>8 DEF Owned, OwnedNext
    <3>2. FewerGenerates
      BY <1>4, <2>1, GeneratesLeave
    <3>3. QED
      BY <1>3, <1>5, <2>6, <3>1, <3>2, OwnKept
  <2>9. QED
    BY <2>7, <2>8
<1>11. CASE LoseWorker(r)
  <2>1. /\ phase[r] = "stream" /\ (~Current(r) \/ (resps = <<>> /\ ~alive))
        /\ UNCHANGED <<cmds, resps, seen, latched>>
    BY <1>2, <1>11 DEF LoseWorker, workerVars, channel
  <2>2. genLock = r
    BY <1>2, <2>1 DEF LockInv, Reading
  <2>3. OwnEvents'
    BY <1>7, <2>1 DEF OwnEvents
  <2>4. QED
    BY <1>1, <1>2, <1>3, <2>1, <2>2, <2>3, OwnFinish
<1>12. CASE DrainEvent(r)
  <2>1. /\ phase[r] = "drain" /\ UNCHANGED <<cmds, seen, latched>>
        /\ \/ /\ resps # <<>> /\ resps' = Tail(resps)
              /\ EndsStream(Head(resps)) \/ genLock' = genLock
           \/ /\ resps = <<>> /\ (~alive \/ ~Current(r)) /\ resps' = resps
    BY <1>2, <1>12 DEF DrainEvent, Pop, Stay
  <2>2. genLock = r
    BY <1>2, <2>1 DEF LockInv, Reading
  <2>3. OwnEvents'
    BY <1>7, <2>1 DEF OwnEvents
  <2>4. CASE genLock' = genLock
    BY <1>6, <2>1, <2>4
  <2>5. CASE genLock' # genLock
    BY <1>1, <1>2, <1>3, <2>1, <2>2, <2>3, <2>5, OwnFinish
  <2>6. QED
    BY <2>4, <2>5
<1>13. QED
  BY <1>2, <1>8, <1>9, <1>10, <1>11, <1>12 DEF RequestStep, LockedStep, StreamStep, CloseStream

LEMMA OwnUnloads ==
  ASSUME TypeOK, TypeOK', LockInv, OwnInv, Unloads
  PROVE  OwnInv'
<1>1. /\ UNCHANGED <<seen, latched>>
      /\ resps \in Seq(Responses) /\ cmds \in Seq(Commands)
      /\ Unloader \notin Streams /\ Nobody \notin Streams
  BY UnloadSteps, OwnersAssumption DEF parentButUnload, streamVars, TypeOK, WorkerTypeOK
<1>2. genLock' = genLock \/ genLock \in {Unloader, Nobody}
  BY DEF LockInv, Unloads, UnloadStep, BeginUnload, SetPending, SetDrain, CancelRunning,
     TakeGenLock, UnloadByKill, UnloadSeesIdle, UnloadStopsDispatcher, SendUnload, AwaitUnloaded,
     UnloadFails, ClearPending, ClearDrain
<1>3. proc' = proc => \A q \in Streams : Owned(q) => OwnedNext(q)
  BY <1>1, <1>2 DEF Owned, OwnedNext
<1>4. ASSUME NEW s \in MaySurvive, Shutdown(s) PROVE OwnInv'
  BY <1>1, <1>3, <1>4, OwnShutdown
<1>5. ASSUME UNCHANGED <<proc, alive, job>>,
             resps' \in {resps, <<>>} \/ (resps # <<>> /\ resps' = Tail(resps)),
             cmds' = cmds \/ cmds' = Append(cmds, Unload)
      PROVE  OwnInv'
  <2>1. FewerEvents /\ FewerGenerates
    BY <1>1, <1>5, EventsLeave, GeneratesLeave
  <2>2. alive => proc # 0
    BY DEF LockInv, Handled
  <2>3. QED
    BY <1>1, <1>3, <1>5, <2>1, <2>2, OwnKept
<1>6. QED
  BY <1>4, <1>5, UnloadSteps

LEMMA OwnLoads ==
  ASSUME TypeOK, TypeOK', GateInv, LockInv, OwnInv, Loads
  PROVE  OwnInv'
<1>1. /\ UNCHANGED <<seen, latched, genLock>> /\ (alive => proc # 0)
      /\ resps \in Seq(Responses) /\ cmds \in Seq(Commands)
  BY LoadSteps DEF parentButLoad, streamVars, LockInv, Handled, TypeOK, WorkerTypeOK
<1>2. ASSUME UNCHANGED <<proc, alive, job, cmds>>,
             resps' = resps \/ (resps # <<>> /\ resps' = Tail(resps))
      PROVE  OwnInv'
  <2>1. FewerEvents /\ FewerGenerates
    BY <1>1, <1>2, EventsLeave, GeneratesLeave
  <2>2. \A q \in Streams : Owned(q) => OwnedNext(q)
    BY <1>1, <1>2 DEF Owned, OwnedNext
  <2>3. QED
    BY <1>1, <1>2, <2>1, <2>2, OwnKept
<1>3. CASE UNCHANGED workerVars
  BY <1>2, <1>3 DEF workerVars, channel
<1>4. CASE AwaitLoaded
  <2>1. UNCHANGED <<proc, alive, job, cmds>> /\ resps # <<>> /\ resps' = Tail(resps)
    BY <1>4 DEF AwaitLoaded
  <2>2. QED
    BY <1>2, <2>1
<1>5. CASE SpawnWorker
  <2>1. Spawn(loader.model)
    BY <1>5 DEF SpawnWorker
  <2>2. cmds' = <<>> /\ resps' = <<>> /\ job' = Loading(loader.model) /\ proc' = spawned + 1
    BY <2>1 DEF Spawn
  <2>3. ~Generating' /\ proc' # 0
    BY <2>2, IsJob DEF Generating, TypeOK, WorkerTypeOK
  <2>4. Quiet' /\ EndsLast'
    BY <2>2, <2>3, NoEntries DEF Quiet, EndsLast
  <2>5. SUFFICES ASSUME Alone PROVE OwnInv'
    BY DEF OwnInv, Alone
  <2>6. OwnEvents'
    BY <1>1, <2>5 DEF OwnInv, OwnEvents
  <2>7. QED
    BY <2>3, <2>4, <2>6, OwnQuiet
<1>6. ASSUME NEW s \in MaySurvive, Shutdown(s) PROVE OwnInv'
  BY <1>1, <1>6, OwnShutdown DEF Owned, OwnedNext
<1>7. QED
  BY <1>3, <1>4, <1>5, <1>6, LoadKinds

LEMMA OwnStep ==
  ASSUME TypeOK, GateInv, LockInv, PhaseInv, OwnInv, [Next]_vars
  PROVE  OwnInv'
<1>1. /\ TypeOK' /\ resps \in Seq(Responses) /\ cmds \in Seq(Commands) /\ (alive => proc # 0)
  BY TypeStep DEF TypeOK, WorkerTypeOK, LockInv, Handled
<1>2. ASSUME UNCHANGED <<seen, latched, genLock, proc, alive, job, cmds>>,
             resps' = resps \/ (resps # <<>> /\ resps' = Tail(resps))
      PROVE  OwnInv'
  <2>1. FewerEvents /\ FewerGenerates
    BY <1>1, <1>2, EventsLeave, GeneratesLeave
  <2>2. \A q \in Streams : Owned(q) => OwnedNext(q)
    BY <1>2 DEF Owned, OwnedNext
  <2>3. QED
    BY <1>1, <1>2, <2>1, <2>2, OwnKept
<1>3. CASE UNCHANGED vars
  BY <1>2, <1>3 DEF vars, workerVars, channel, parentVars, streamVars
<1>4. CASE DispatchOne \/ DispatcherEnds
  BY <1>2, <1>4, DispatcherSteps DEF streamVars
<1>5. CASE Cancels
  <2>1. UNCHANGED <<seen, latched, genLock>>
    BY <1>5, CancelSteps DEF parentButCancel, streamVars
  <2>2. CASE UNCHANGED workerVars
    BY <1>2, <2>1, <2>2 DEF workerVars, channel
  <2>3. ASSUME NEW s \in MaySurvive, Shutdown(s) PROVE OwnInv'
    BY <1>1, <2>1, <2>3, OwnShutdown DEF Owned, OwnedNext
  <2>4. QED
    BY <1>5, <2>2, <2>3, CancelSteps
<1>6. QED
  BY <1>1, <1>3, <1>4, <1>5, Steps, OwnWorker, OwnRequests, OwnUnloads, OwnLoads

-----------------------------------------------------------------------------
(* The theorems.                                                           *)

LEMMA InitInv ==
  ASSUME Init
  PROVE  IInv
<1>1. /\ proc = 0 /\ queue = 0 /\ spawned = 0 /\ alive = FALSE /\ cmds = <<>> /\ resps = <<>>
      /\ cancelEvent = FALSE /\ drainEvent = FALSE /\ held = NoModel /\ job = Idling
      /\ active = NoModel /\ loading = {} /\ unloadPending = FALSE
      /\ genLock = Nobody /\ dispatcher = FALSE /\ registered = {}
      /\ gate = "free" /\ unloader = "idle" /\ stopped = NoModel
  BY DEF Init, WorkerInit
<1>2. /\ mailbox = [c \in Compare |-> <<>>]
      /\ phase = [r \in Streams |-> "new"] /\ expected = [r \in Streams |-> NoModel]
      /\ latched = [r \in Streams |-> 0] /\ latchedQueue = [r \in Streams |-> 0]
      /\ seen = [r \in Streams |-> {}]
      /\ loader = IdleLoader /\ canceller = IdleCancel
  BY DEF Init
<1>3. WorkerTypeOK
  <2>1. cmds \in Seq(Commands) /\ resps \in Seq(Responses) /\ job \in Jobs
    BY <1>1, NoEntries, IsJob
  <2>2. proc \in Nat /\ spawned \in Nat /\ proc <= spawned /\ queue \in Nat /\ queue <= spawned
    BY <1>1
  <2>3. QED
    BY <1>1, <2>1, <2>2 DEF WorkerTypeOK
<1>4. /\ mailbox \in [Compare -> Seq(StreamEvents)] /\ phase \in [Streams -> Phases]
      /\ expected \in [Streams -> Models \cup {NoModel}] /\ latched \in [Streams -> Nat]
      /\ latchedQueue \in [Streams -> Nat] /\ seen \in [Streams -> SUBSET Streams]
  BY <1>2, EmptySeq DEF Phases
<1>5. /\ loader \in [pc : {"idle", "kill", "check", "spawn", "post", "wait", "publish"},
                     model : Models \cup {NoModel}, attempt : 0..2]
      /\ canceller \in [pc : {"idle", "teardown", "clear"}, model : Models \cup {NoModel},
                        settle : BOOLEAN]
      /\ loader.pc = "idle" /\ canceller.pc = "idle"
  BY <1>2 DEF IdleLoader, IdleCancel
<1>6. TypeOK
  BY <1>1, <1>3, <1>4, <1>5 DEF TypeOK
<1>7. LockInv
  BY <1>1, <1>2, OwnersAssumption DEF LockInv, Handled, Reading, Streams
<1>8. GateInv /\ SpawnInv /\ CancelInv
  BY <1>1, <1>5, NoEntries DEF GateInv, SpawnInv, CancelInv
<1>9. ActiveInv
  BY <1>1 DEF ActiveInv
<1>10. OwnInv
  BY <1>1, <1>2, NoEntries DEF OwnInv, OwnEvents
<1>11. PhaseInv
  BY <1>2 DEF PhaseInv, Streams
<1>12. QED
  BY <1>6, <1>7, <1>8, <1>9, <1>10, <1>11 DEF IInv

LEMMA NextInv ==
  ASSUME IInv, [Next]_vars
  PROVE  IInv'
<1>1. Handled
  BY DEF IInv, LockInv
<1>2. QED
  BY <1>1, TypeStep, LockStep, GateStep, SpawnStep, ActiveStep, CancelledStep, PhaseStep, OwnStep
     DEF IInv

\* The inductive invariant holds in every reachable state.
THEOREM InvariantHolds == Spec => []IInv
<1>1. Init => IInv
  BY InitInv
<1>2. IInv /\ [Next]_vars => IInv'
  BY NextInv
<1>3. QED
  BY <1>1, <1>2, PTL DEF Spec

\* What the threads and the worker hold is in range, and a stalled load is
\* tried twice at most.
THEOREM TypesAreRight == Spec => []TypeOK
<1>1. IInv => TypeOK
  BY DEF IInv
<1>2. QED
  BY <1>1, InvariantHolds, PTL

\* The reply to an unload has one reader: no dispatcher and no locked stream
\* is there to eat it, whatever times out, dies or disconnects.
THEOREM UnloadReadsAlone == Spec => []UnloadSoleReader
<1>1. IInv => UnloadSoleReader
  <2>1. SUFFICES ASSUME LockInv, unloader = "reply"
                 PROVE  ~dispatcher /\ \A r \in Locked : phase[r] \notin {"stream", "drain"}
    BY DEF IInv, UnloadSoleReader
  <2>2. genLock = Unloader /\ ~dispatcher
    BY <2>1 DEF LockInv
  <2>3. \A r \in Locked : genLock # r
    BY <2>2, OwnersAssumption DEF Streams
  <2>4. QED
    BY <2>1, <2>2, <2>3 DEF LockInv, Reading
<1>2. QED
  BY <1>1, InvariantHolds, PTL

\* A load starts its worker over no living one, unless downloads stall and
\* workers survive a kill: only then the retry goes past a survivor.
THEOREM WorkersAreAlone ==
  ASSUME ~Blind
  PROVE  Spec => NoSecondWorker
<1>1. IInv /\ [Next]_vars => [spawned' # spawned => ~alive]_vars
  <2>1. SUFFICES ASSUME IInv, [Next]_vars, spawned' # spawned PROVE ~alive
    OBVIOUS
  <2>2. TypeOK /\ GateInv /\ SpawnInv /\ WorkerTypeOK
    BY <2>1 DEF IInv, TypeOK
  <2>3. ASSUME NEW s \in MaySurvive, Shutdown(s) PROVE FALSE
    BY <2>1, <2>2, <2>3, Shuts
  <2>4. ~Unloads /\ ~Cancels
    BY <2>1, <2>2, <2>3, UnloadSteps, CancelSteps DEF workerVars
  <2>5. ~WorkerStep /\ ~DispatchOne /\ ~DispatcherEnds /\ ~UNCHANGED vars
    BY <2>1, <2>2, WorkerSteps, DispatcherSteps DEF vars, workerVars
  <2>6. \A r \in Streams : ~RequestStep(r)
    BY <2>1, <2>2, RequestSteps
  <2>7. Loads
    BY <2>1, <2>4, <2>5, <2>6, Steps
  <2>8. SpawnWorker
    BY <2>1, <2>2, <2>3, <2>7, LoadKinds DEF workerVars, AwaitLoaded
  <2>9. QED
    BY <2>2, <2>8 DEF SpawnInv, SpawnWorker
<1>2. QED
  BY <1>1, InvariantHolds, PTL DEF Spec, NoSecondWorker

\* Between loads and unloads the advertised model is the one in the worker,
\* however loads, cancels, unloads and crashes overlap, unless a repair turns
\* away the retry of a stalled load whose worker outlived the kill.
THEOREM AdvertisedIsHeld ==
  ASSUME ~NameOfSurvivor
  PROVE  Spec => []ActiveIsHeld
<1>1. IInv => ActiveIsHeld
  BY DEF IInv, ActiveInv, ActiveIsHeld, Settled
<1>2. QED
  BY <1>1, InvariantHolds, PTL

\* Once a cancelled load was reported unloaded and has returned itself, its
\* worker is dead or wedged.
THEOREM CancelLeavesNoWorker == Spec => []CancelledLeavesNoWorker
<1>1. IInv => CancelledLeavesNoWorker
  BY DEF IInv, CancelInv, CancelledLeavesNoWorker
<1>2. QED
  BY <1>1, InvariantHolds, PTL

\* A cancelled load leaves neither a name nor a worker, unless workers die by
\* themselves: only then a cancel waits for less than the load's publication.
THEOREM CancelledLoadsAreGone ==
  ASSUME "crash" \notin Faults
  PROVE  Spec => []CancelledIsGone
<1>1. IInv => CancelledIsGone
  <2>1. SUFFICES ASSUME IInv PROVE CancelledStaysUnpublished /\ CancelledLeavesNoWorker
    BY DEF CancelledIsGone
  <2>2. CancelInv
    BY <2>1 DEF IInv
  <2>3. QED
    BY <2>2 DEF CancelInv, CancelledStaysUnpublished, CancelledLeavesNoWorker
<1>2. QED
  BY <1>1, InvariantHolds, PTL

\* No locked stream that was sent to a process takes another's events, cancelled
\* or crashed, whatever loads and unloads do beside it, while no client disconnects,
\* the drain of a cancelled one does not expire and no compare request shares the
\* queue.
THEOREM EventsAreOwn ==
  ASSUME Alone
  PROVE  Spec => []OwnEvents
<1>1. IInv => OwnEvents
  BY DEF IInv, OwnInv
<1>2. QED
  BY <1>1, InvariantHolds, PTL
=============================================================================
