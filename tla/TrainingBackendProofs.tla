------------------------ MODULE TrainingBackendProofs ------------------------
(***************************************************************************)
(* Proofs about the parent of the training worker, for any number of runs  *)
(* and stops, and any number and choice of the disturbances.               *)
(***************************************************************************)
EXTENDS TrainingBackend, FiniteSetTheorems, SequenceTheorems, TLAPS

-----------------------------------------------------------------------------
(* The inductive invariant.                                                *)

Trainers == [run : Runs, phase : WorkerPhases, told : BOOLEAN, out : Seq(Events),
             watch : WatchPhases, fin : Finals]
Fields   == [job : 0..MaxRuns, stop : BOOLEAN, cancel : BOOLEAN, training : BOOLEAN,
             created : BOOLEAN, finalized : BOOLEAN, dir : BOOLEAN, inLoad : BOOLEAN,
             xetUsed : BOOLEAN, respawn : BOOLEAN]
Pumps    == [pc : PumpPhases, back : {"read", "exit", "end", "gone"}, fin : Finals]
Rows     == [status : {"none", "running"} \cup Endings, dir : BOOLEAN, cancelled : BOOLEAN]
Records  == [asked : SUBSET Runs, broken : SUBSET Runs, replaced : SUBSET Runs,
             lost : SUBSET Runs, stops : 0..MaxStops, faults : 0..MaxFaults]
LoopPlaces == {"idle", "spawn", "reset", "row", "install", "mark", "cancel", "put", "watch",
               "clear"}

\* The types of the variables; an ending that is written is some run's.
ShapeInv ==
  /\ worker \in Seq(Trainers)
  /\ proc \in 0 .. Len(worker) /\ chan \in 0 .. Len(worker)
  /\ flags \in Fields /\ payload \in Finals
  /\ spawning \in BOOLEAN /\ pumping \in BOOLEAN
  /\ pump \in Pumps /\ loop \in LoopPlaces
  /\ row \in [Runs -> Rows] /\ history \in Records
  /\ pump.pc = "finish" => pump.fin.run # 0
  /\ \A i \in DOMAIN worker : worker[i].watch = "finish" => worker[i].fin.run # 0

\* start_training is under way; it has spawned a worker it has not installed.
Startings == {"spawn", "reset", "row", "install"}
Spawned   == {"reset", "row", "install"}

Newest == Len(worker)
Asked  == history.asked
Blamed == history.asked \cup history.broken

\* A finalization says what happened to its run.
Truth(f) == f.run # 0 => /\ f.status = "stopped" => f.run \in Asked
                         /\ f.status = "error" => f.run \in Blamed

\* A start has the parent to itself: no pump, no living worker but its own.
StartInv ==
  /\ loop \in Startings => pump.pc = "none" /\ spawning /\ ~Alive(proc)
  /\ loop \notin Startings /\ spawning => pump.pc = "respawn"
  /\ loop \in {"spawn", "reset"} => flags.job < MaxRuns
  /\ loop \in Spawned =>
       /\ chan < Newest /\ worker[Newest].watch = "none"
       /\ worker[Newest].run = IF loop = "reset" THEN flags.job + 1 ELSE flags.job

\* The handles are those of one worker, and it is the current run's unless a
\* start is between its assignments.
HandleInv ==
  /\ proc \in {0, chan}
  /\ pump.pc # "none" => chan # 0
  /\ loop \notin {"row", "install"} =>
       /\ chan # 0 <=> flags.job # 0
       /\ chan # 0 => worker[chan].run = flags.job
  /\ loop \in {"mark", "cancel", "put", "watch", "row", "install"} \/ flags.training =>
       flags.job # 0

Gone(i) == worker[i].phase \in {"dead", "wedged"}

\* A worker out of the parent's hands is dead, or wedged.
AliveInv ==
  /\ \A i \in DOMAIN worker :
       /\ Gone(i) \/ i = proc \/ (loop \in Spawned /\ i = Newest)
       /\ worker[i].watch \in {"none", "watch"} \/ Gone(i)
  /\ pump.pc = "respawn" /\ proc # 0 => Gone(proc)

\* What worker i holds of a stop or a failure, a flag, a watchdog, an ending or
\* an event, is deserved: its run was stopped, or broke.
Deserved(i) ==
  /\ worker[i].told \/ worker[i].watch # "none" => worker[i].run \in Asked
  /\ Truth(worker[i].fin)
  /\ \A k \in DOMAIN worker[i].out :
       /\ worker[i].out[k] \in {"cut", "stopped"} => worker[i].run \in Asked
       /\ worker[i].out[k] \in {"error", "stall"} => worker[i].run \in history.broken

\* So is what the fields of the parent and its pump say.
BlameInv ==
  /\ flags.stop \/ flags.cancel \/ loop = "watch" => flags.job \in Asked
  /\ flags.respawn \/ pump.pc \in {"reap", "respawn"} =>
       flags.job \in history.broken /\ flags.xetUsed
  /\ \A i \in DOMAIN worker : Deserved(i)
  /\ Truth(payload)
  /\ pump.pc \in {"create", "claim", "finish"} => Truth(pump.fin)

\* A worker that trains no more was stopped, or broke, or its queue says that
\* it completed.
Accounted(i) ==
  worker[i].phase \in {"ended", "dead", "wedged"} =>
    worker[i].run \in Blamed \/ \E k \in DOMAIN worker[i].out : worker[i].out[k] = "complete"

\* The current worker's end is accounted for, in its queue or by the payload;
\* a pump that saw the exit has a dead worker, and then an empty queue.
EndInv ==
  /\ loop \in Spawned => Accounted(Newest)
  /\ loop \notin Spawned /\ chan # 0 => Accounted(chan) \/ payload.run = flags.job
  /\ pump.pc \in {"exit", "last", "payload"} \/ pump.back = "exit" =>
       chan # 0 /\ worker[chan].phase = "dead"
  /\ pump.pc \in {"last", "payload"} => Queue = <<>>
  /\ pump.pc = "persist" => pump.back \in {"read", "exit"}

\* A run to come has no worker, but for the one that a start has just spawned;
\* a run gets its second one once, by the respawn.
Of(r) == {i \in DOMAIN worker : worker[i].run = r}

CountInv ==
  /\ \A r \in Runs :
       /\ r > flags.job => Of(r) \subseteq {Newest}
       /\ r > flags.job /\ ~(loop = "reset" /\ r = flags.job + 1) => Of(r) = {}
       /\ r = flags.job /\ (~flags.xetUsed \/ flags.respawn \/ pump.pc \in {"reap", "respawn"}) =>
            Cardinality(Of(r)) <= 1
       /\ Cardinality(Of(r)) <= 2
  /\ pump.pc \in {"reap", "respawn"} => ~flags.respawn

\* The inductive invariant.
IInv ==
  /\ ShapeInv /\ StartInv /\ HandleInv /\ AliveInv /\ BlameInv /\ EndInv /\ CountInv /\ RowIsTrue

-----------------------------------------------------------------------------
(* What the constants and the helpers of the actions stand for.            *)

\* Records that the actions build have the types they should.
LEMMA Basics ==
  /\ MaxRuns \in Nat /\ MaxStops \in Nat /\ MaxFaults \in Nat
  /\ Runs \subseteq Nat \ {0} /\ 0 \notin Runs
  /\ \A r \in 0 .. MaxRuns : r # 0 <=> r \in Runs
  /\ \A r : r \in Runs => r \in 0 .. MaxRuns
  /\ NoFinal \in Finals /\ NoFinal.run = 0 /\ NoFinal.status = "error"
  /\ \A r \in 0 .. MaxRuns : [NoFinal EXCEPT !.run = r] \in Finals
  /\ NoPump \in Pumps /\ Pump \in Pumps
  /\ NoPump.pc = "none" /\ NoPump.back = "end" /\ NoPump.fin = NoFinal
  /\ Pump.pc = "read" /\ Pump.back = "end"
  /\ \A r \in 0 .. MaxRuns : Fresh(r) \in Fields
  /\ \A r \in Runs : NewWorker(r) \in Trainers
<1>1. /\ MaxRuns \in Nat /\ MaxStops \in Nat /\ MaxFaults \in Nat
      /\ Runs \subseteq Nat \ {0} /\ 0 \notin Runs
      /\ \A r \in 0 .. MaxRuns : r # 0 <=> r \in Runs
      /\ \A r : r \in Runs => r \in 0 .. MaxRuns
  <2>1. MaxRuns \in Nat
    BY MaxRunsAssumption
  <2>2. MaxStops \in Nat /\ MaxFaults \in Nat
    BY MaxStopsAssumption, FaultsAssumption
  <2>3. QED
    BY <2>1, <2>2 DEF Runs
<1>2. /\ NoFinal \in Finals /\ NoFinal.run = 0 /\ NoFinal.status = "error"
      /\ \A r \in 0 .. MaxRuns : [NoFinal EXCEPT !.run = r] \in Finals
  <2>1. 0 \in 0 .. MaxRuns
    BY <1>1
  <2>2. NoFinal \in Finals /\ NoFinal.run = 0 /\ NoFinal.status = "error"
    BY <2>1 DEF NoFinal, Finals, Endings
  <2>3. \A r \in 0 .. MaxRuns : [NoFinal EXCEPT !.run = r] \in Finals
    BY <2>2 DEF Finals
  <2>4. QED
    BY <2>2, <2>3
<1>3. /\ NoPump \in Pumps /\ Pump \in Pumps
      /\ NoPump.pc = "none" /\ NoPump.back = "end" /\ NoPump.fin = NoFinal
      /\ Pump.pc = "read" /\ Pump.back = "end"
  BY <1>2 DEF NoPump, Pump, Pumps, PumpPhases
<1>4. \A r \in 0 .. MaxRuns : Fresh(r) \in Fields
  BY DEF Fresh, Fields
<1>5. \A r \in Runs : NewWorker(r) \in Trainers
  BY <1>2, EmptySeq DEF NewWorker, Trainers, WorkerPhases, WatchPhases
<1>6. QED
  BY <1>1, <1>2, <1>3, <1>4, <1>5

\* The workers are numbered from one.
LEMMA Workers ==
  ASSUME ShapeInv
  PROVE  /\ Len(worker) \in Nat /\ DOMAIN worker = 1 .. Len(worker) /\ 0 \notin DOMAIN worker
         /\ \A i \in DOMAIN worker : i \in Nat /\ i # 0 /\ worker[i] \in Trainers
         /\ \A i : i \in 0 .. Len(worker) /\ i # 0 => i \in DOMAIN worker
         /\ proc # 0 => proc \in DOMAIN worker
         /\ chan # 0 => chan \in DOMAIN worker
         /\ worker # <<>> => Len(worker) \in DOMAIN worker
<1>1. Len(worker) \in Nat /\ DOMAIN worker = 1 .. Len(worker)
      /\ \A i \in DOMAIN worker : worker[i] \in Trainers
  BY LenProperties, ElementOfSeq DEF ShapeInv
<1>2. worker # <<>> => Len(worker) # 0
  BY EmptySeq DEF ShapeInv
<1>3. QED
  BY <1>1, <1>2 DEF ShapeInv

\* Worker i becomes w, and nothing is spawned.
Becomes(i, w) ==
  /\ worker' \in Seq(Trainers) /\ Len(worker') = Len(worker) /\ DOMAIN worker' = DOMAIN worker
  /\ worker'[i] = w /\ w.run = worker[i].run
  /\ \A j \in DOMAIN worker \ {i} : worker'[j] = worker[j]

LEMMA Updated ==
  ASSUME ShapeInv, NEW i \in DOMAIN worker, NEW w \in Trainers, w.run = worker[i].run,
         worker' = [worker EXCEPT ![i] = w]
  PROVE  Becomes(i, w)
<1>1. worker \in Seq(Trainers) /\ i \in 1 .. Len(worker)
  BY Workers DEF ShapeInv
<1>2. worker' \in Seq(Trainers) /\ Len(worker') = Len(worker)
      /\ \A j \in 1 .. Len(worker) : worker'[j] = IF j = i THEN w ELSE worker[j]
  BY <1>1, ExceptSeq
<1>3. DOMAIN worker' = DOMAIN worker
  OBVIOUS
<1>4. QED
  BY <1>1, <1>2, <1>3, Workers DEF Becomes

\* A signal ends a worker that is not wedged.
LEMMA SignalEnds ==
  ASSUME ShapeInv, NEW i \in 0 .. Len(worker)
  PROVE  /\ i = 0 => Signalled(i) = worker
         /\ i # 0 => \E p \in {worker[i].phase, "dead"} :
              /\ Signalled(i) = [worker EXCEPT ![i] = [worker[i] EXCEPT !.phase = p]]
              /\ [worker[i] EXCEPT !.phase = p] \in Trainers
              /\ p \in {"dead", "wedged"} /\ (worker[i].phase = "dead" => p = "dead")
<1>1. CASE i = 0
  BY <1>1 DEF Signalled
<1>2. CASE i # 0 /\ worker[i].phase # "wedged"
  <2>1. i \in DOMAIN worker /\ worker[i] \in Trainers
    BY <1>2, Workers
  <2>2. Signalled(i) = [worker EXCEPT ![i] = [worker[i] EXCEPT !.phase = "dead"]]
    BY <1>2, <2>1 DEF Signalled
  <2>3. [worker[i] EXCEPT !.phase = "dead"] \in Trainers
    BY <2>1 DEF Trainers, WorkerPhases
  <2>4. QED
    BY <1>2, <2>2, <2>3
<1>3. CASE i # 0 /\ worker[i].phase = "wedged"
  <2>1. i \in DOMAIN worker /\ worker[i] \in Trainers /\ worker \in Seq(Trainers)
    BY <1>3, Workers DEF ShapeInv
  <2>2. [worker[i] EXCEPT !.phase = "wedged"] = worker[i]
    BY <1>3, <2>1 DEF Trainers
  <2>3. [worker EXCEPT ![i] = worker[i]] = worker
    BY <2>1
  <2>4. QED
    BY <1>3, <2>1, <2>2, <2>3 DEF Signalled
<1>4. QED
  BY <1>1, <1>2, <1>3

\* A signal changes nothing but the phase.
LEMMA Signals ==
  ASSUME ShapeInv, NEW i \in 0 .. Len(worker), worker' = Signalled(i)
  PROVE  /\ worker' \in Seq(Trainers) /\ Len(worker') = Len(worker) /\ DOMAIN worker' = DOMAIN worker
         /\ \A j \in DOMAIN worker :
              /\ worker'[j].run = worker[j].run /\ worker'[j].told = worker[j].told
              /\ worker'[j].out = worker[j].out /\ worker'[j].watch = worker[j].watch
              /\ worker'[j].fin = worker[j].fin
              /\ j # i => worker'[j] = worker[j]
              /\ worker[j].phase \in {"dead", "wedged"} \/ j = i => worker'[j].phase \in {"dead", "wedged"}
              /\ worker[j].phase = "dead" => worker'[j].phase = "dead"
              /\ worker'[j].phase \in {worker[j].phase, "dead"}
<1>1. CASE i = 0
  BY <1>1, SignalEnds, Workers DEF ShapeInv
<1>2. CASE i # 0
  <2>1. i \in DOMAIN worker
    BY <1>2, Workers
  <2>2. PICK p \in {worker[i].phase, "dead"} :
          /\ worker' = [worker EXCEPT ![i] = [worker[i] EXCEPT !.phase = p]]
          /\ [worker[i] EXCEPT !.phase = p] \in Trainers
          /\ p \in {"dead", "wedged"} /\ (worker[i].phase = "dead" => p = "dead")
    BY <1>2, SignalEnds
  <2> DEFINE w == [worker[i] EXCEPT !.phase = p]
  <2>3. /\ w \in Trainers /\ w.run = worker[i].run /\ w.told = worker[i].told /\ w.phase = p
        /\ w.out = worker[i].out /\ w.watch = worker[i].watch /\ w.fin = worker[i].fin
    BY <2>1, <2>2, Workers DEF Trainers
  <2> HIDE DEF w
  <2>4. Becomes(i, w)
    BY <2>1, <2>2, <2>3, Updated DEF w
  <2>5. QED
    BY <2>1, <2>2, <2>3, <2>4 DEF Becomes
<1>3. QED
  BY <1>1, <1>2

\* Dropping the queues of the installed worker changes nothing else.
LEMMA Forgets ==
  ASSUME ShapeInv
  PROVE  /\ Forgotten \in Seq(Trainers) /\ Len(Forgotten) = Len(worker)
         /\ DOMAIN Forgotten = DOMAIN worker
         /\ \A j \in DOMAIN worker :
              /\ j # chan => Forgotten[j] = worker[j]
              /\ Forgotten[j].run = worker[j].run /\ Forgotten[j].phase = worker[j].phase
              /\ Forgotten[j].watch = worker[j].watch /\ Forgotten[j].fin = worker[j].fin
              /\ Forgotten[j].out \in {worker[j].out, <<>>}
              /\ Forgotten[j].told \in {worker[j].told, FALSE}
<1>1. worker \in Seq(Trainers)
  BY DEF ShapeInv
<1>2. CASE chan = 0
  BY <1>1, <1>2 DEF Forgotten
<1>3. CASE chan # 0
  <2> DEFINE w == [worker[chan] EXCEPT !.out = <<>>, !.told = FALSE]
  <2>1. chan \in DOMAIN worker /\ worker[chan] \in Trainers /\ chan \in 1 .. Len(worker)
    BY <1>3, Workers
  <2>2. w \in Trainers /\ w.run = worker[chan].run /\ w.phase = worker[chan].phase
        /\ w.watch = worker[chan].watch /\ w.fin = worker[chan].fin /\ w.out = <<>> /\ w.told = FALSE
    BY <2>1, EmptySeq DEF Trainers
  <2>3. Forgotten = [worker EXCEPT ![chan] = w]
    BY <1>3, <2>1 DEF Forgotten
  <2> HIDE DEF w
  <2>4. Forgotten \in Seq(Trainers) /\ Len(Forgotten) = Len(worker)
        /\ \A j \in 1 .. Len(worker) : Forgotten[j] = IF j = chan THEN w ELSE worker[j]
    BY <1>1, <2>1, <2>2, <2>3, ExceptSeq
  <2>5. DOMAIN Forgotten = DOMAIN worker /\ DOMAIN worker = 1 .. Len(worker)
    BY <2>3, Workers
  <2>6. QED
    BY <2>2, <2>4, <2>5
<1>4. QED
  BY <1>2, <1>3

\* A spawned worker is the newest.
LEMMA Spawns ==
  ASSUME ShapeInv, NEW q \in Seq(Trainers), Len(q) = Len(worker), DOMAIN q = DOMAIN worker,
         NEW r \in Runs, worker' = Append(q, NewWorker(r))
  PROVE  /\ worker' \in Seq(Trainers) /\ Len(worker') = Len(worker) + 1
         /\ DOMAIN worker' = DOMAIN worker \cup {Len(worker')} /\ Len(worker') \notin DOMAIN worker
         /\ worker'[Len(worker')] = NewWorker(r) /\ worker' # <<>>
         /\ \A i \in DOMAIN worker : worker'[i] = q[i]
<1>1. NewWorker(r) \in Trainers
  BY Basics
<1>2. /\ worker' \in Seq(Trainers) /\ Len(worker') = Len(q) + 1
      /\ \A i \in 1 .. Len(q) : worker'[i] = q[i]
      /\ worker'[Len(q) + 1] = NewWorker(r)
  BY <1>1, AppendProperties
<1>3. DOMAIN worker' = 1 .. Len(worker')
  BY <1>2, LenProperties
<1> DEFINE n == Len(worker)
           m == Len(worker')
<1>4. n \in Nat /\ m = n + 1 /\ DOMAIN worker = 1 .. n /\ DOMAIN worker' = 1 .. m
      /\ worker' \in Seq(Trainers)
      /\ (\A i \in DOMAIN worker : worker'[i] = q[i]) /\ worker'[m] = NewWorker(r)
  BY <1>2, <1>3, Workers
<1>5. m # 0 => worker' # <<>>
  BY <1>4, EmptySeq
<1> HIDE DEF n, m
<1>6. QED
  BY <1>4, <1>5 DEF n, m

\* The worker sends, dies, or is signalled: its queue only grows, and what it
\* says of a stop or a failure is so.
LEMMA WorkerSteps ==
  ASSUME ShapeInv, NEW i \in DOMAIN worker, WorkerStep(i)
  PROVE  /\ UNCHANGED <<proc, chan, flags, payload, spawning, pumping, pump, loop, row>>
         /\ Len(worker') = Len(worker) /\ DOMAIN worker' = DOMAIN worker
         /\ worker' \in Seq(Trainers)
         /\ \A j \in DOMAIN worker \ {i} : worker'[j] = worker[j]
         /\ worker'[i].run = worker[i].run /\ worker'[i].told = worker[i].told
         /\ worker'[i].watch = worker[i].watch /\ worker'[i].fin = worker[i].fin
         /\ worker[i].phase \notin {"dead", "wedged"}
         /\ history' \in Records /\ history'.asked = history.asked
         /\ history.broken \subseteq history'.broken
         /\ \/ worker'[i].out = worker[i].out
            \/ \E e \in Events :
                 /\ worker'[i].out = Append(worker[i].out, e)
                 /\ e \in {"cut", "stopped"} => worker[i].told
                 /\ e \in {"error", "stall"} => worker[i].run \in history'.broken
         /\ worker'[i].phase \in {"ended", "dead", "wedged"} =>
              \/ worker[i].phase = "ended" /\ worker'[i].out = worker[i].out
              \/ worker[i].run \in history'.broken
              \/ worker[i].told
              \/ worker'[i].out = Append(worker[i].out, "complete")
<1> USE DEF parent
<1> DEFINE w == worker[i]
<1>1. w \in Trainers /\ history \in Records /\ w.run \in Runs /\ w.out \in Seq(Events)
  BY Workers DEF ShapeInv, Trainers
<1>2. /\ Broken(i) \in Records /\ Broken(i).asked = history.asked
      /\ history.broken \subseteq Broken(i).broken /\ w.run \in Broken(i).broken
  BY <1>1 DEF Broken, Records
<1>3. ASSUME NEW kind, NEW h \in {history, Broken(i)}, Fault(kind, h)
      PROVE  /\ history' \in Records /\ history'.asked = history.asked
             /\ history.broken \subseteq history'.broken /\ history'.broken = h.broken
  BY <1>1, <1>2, <1>3, Basics DEF Fault, Records, Broken
<1>4. ASSUME NEW e \in Events, NEW p \in WorkerPhases, Emit(i, e, p)
      PROVE  /\ Len(worker') = Len(worker) /\ DOMAIN worker' = DOMAIN worker
             /\ worker' \in Seq(Trainers)
             /\ \A j \in DOMAIN worker \ {i} : worker'[j] = worker[j]
             /\ worker'[i].run = w.run /\ worker'[i].told = w.told
             /\ worker'[i].watch = w.watch /\ worker'[i].fin = w.fin
             /\ worker'[i].out = Append(w.out, e) /\ worker'[i].phase = p
  <2> DEFINE v == [w EXCEPT !.out = Append(w.out, e), !.phase = p]
  <2>1. Append(w.out, e) \in Seq(Events)
    BY <1>1, AppendProperties
  <2>2. /\ v \in Trainers /\ v.run = w.run /\ v.told = w.told /\ v.watch = w.watch /\ v.fin = w.fin
        /\ v.out = Append(w.out, e) /\ v.phase = p
    BY <1>1, <2>1 DEF Trainers
  <2>3. worker' = [worker EXCEPT ![i] = v]
    BY <1>1, <1>4 DEF Emit
  <2> HIDE DEF v
  <2>4. Becomes(i, v)
    BY <2>2, <2>3, Updated
  <2>5. QED
    BY <2>2, <2>4 DEF Becomes
<1>5. ASSUME NEW p \in WorkerPhases, worker' = [worker EXCEPT ![i].phase = p]
      PROVE  /\ Len(worker') = Len(worker) /\ DOMAIN worker' = DOMAIN worker
             /\ worker' \in Seq(Trainers)
             /\ \A j \in DOMAIN worker \ {i} : worker'[j] = worker[j]
             /\ worker'[i].run = w.run /\ worker'[i].told = w.told
             /\ worker'[i].watch = w.watch /\ worker'[i].fin = w.fin
             /\ worker'[i].out = w.out /\ worker'[i].phase = p
  <2> DEFINE v == [w EXCEPT !.phase = p]
  <2>1. /\ v \in Trainers /\ v.run = w.run /\ v.told = w.told /\ v.watch = w.watch /\ v.fin = w.fin
        /\ v.out = w.out /\ v.phase = p
    BY <1>1 DEF Trainers
  <2>2. worker' = [worker EXCEPT ![i] = v]
    BY <1>1, <1>5
  <2> HIDE DEF v
  <2>3. Becomes(i, v)
    BY <2>1, <2>2, Updated
  <2>4. QED
    BY <2>1, <2>3 DEF Becomes
<1>6. UNCHANGED <<proc, chan, flags, payload, spawning, pumping, pump, loop, row>>
  BY DEF WorkerStep
<1>7. /\ {"load", "stall", "loaded", "dir", "complete", "cut", "stopped", "error"} \subseteq Events
      /\ {"spawned", "loading", "stalled", "loaded", "training", "ended", "wedged", "dead"}
           \subseteq WorkerPhases
  BY DEF Events, WorkerPhases
<1>8. CASE BeginModelLoad(i) \/ EndModelLoad(i) \/ BeginTraining(i)
  <2>1. PICK e \in {"load", "loaded", "dir"}, p \in {"loading", "loaded", "training"} :
          Emit(i, e, p) /\ w.phase \notin {"dead", "wedged"} /\ UNCHANGED history
    BY <1>8 DEF BeginModelLoad, EndModelLoad, BeginTraining
  <2>2. QED
    BY <1>1, <1>4, <1>6, <1>7, <2>1
<1>9. CASE StallDownload(i)
  <2>1. Emit(i, "stall", "stalled") /\ w.phase = "loading" /\ Fault("stall", Broken(i))
    BY <1>9 DEF StallDownload
  <2>2. QED
    BY <1>2, <1>3, <1>4, <1>6, <1>7, <2>1
<1>10. CASE Finish(i)
  <2>1. PICK e \in {"complete", "cut", "stopped"} :
          /\ Emit(i, e, "ended") /\ (e # "complete" => w.told)
          /\ w.phase \in {"spawned", "loaded", "training"} /\ UNCHANGED history
    BY <1>10 DEF Finish, Between
  <2>2. QED
    BY <1>1, <1>4, <1>6, <1>7, <2>1
<1>11. CASE Fail(i)
  <2>1. /\ Emit(i, "error", "ended") /\ history' = Broken(i)
        /\ w.phase \in {"spawned", "loaded", "training"}
    BY <1>11 DEF Fail, Between
  <2>2. QED
    BY <1>2, <1>4, <1>6, <1>7, <2>1
<1>12. CASE Exit(i)
  <2>1. worker' = [worker EXCEPT ![i].phase = "dead"] /\ w.phase = "ended" /\ UNCHANGED history
    BY <1>12 DEF Exit
  <2>2. QED
    BY <1>1, <1>5, <1>6, <1>7, <2>1
<1>13. CASE Wedge(i)
  <2>1. /\ worker' = [worker EXCEPT ![i].phase = "wedged"] /\ w.phase \in {"training", "ended"}
        /\ Fault("wedge", IF w.phase = "ended" THEN history ELSE Broken(i))
    BY <1>13 DEF Wedge
  <2>2. QED
    BY <1>2, <1>3, <1>5, <1>6, <1>7, <2>1
<1>14. CASE Crash(i)
  <2>1. /\ worker' = [worker EXCEPT ![i].phase = "dead"] /\ w.phase \notin {"dead", "wedged"}
        /\ Fault("crash", Broken(i))
    BY <1>14 DEF Crash
  <2>2. QED
    BY <1>2, <1>3, <1>5, <1>6, <1>7, <2>1
<1>15. QED
  BY <1>8, <1>9, <1>10, <1>11, <1>12, <1>13, <1>14 DEF WorkerStep

\* An event that the pump takes leaves the queue, and a stall ends the worker.
LEMMA Takes ==
  ASSUME ShapeInv, HandleInv, HandleEvent
  PROVE  LET e == Head(Queue) IN
         /\ chan \in DOMAIN worker /\ pump.pc \in {"read", "exit"}
         /\ e \in Events /\ 1 \in DOMAIN Queue /\ Queue[1] = e /\ Queue # <<>>
         /\ worker' \in Seq(Trainers) /\ Len(worker') = Len(worker) /\ DOMAIN worker' = DOMAIN worker
         /\ \A j \in DOMAIN worker \ {chan} : worker'[j] = worker[j]
         /\ worker'[chan].run = worker[chan].run /\ worker'[chan].told = worker[chan].told
         /\ worker'[chan].watch = worker[chan].watch /\ worker'[chan].fin = worker[chan].fin
         /\ worker'[chan].phase \in {worker[chan].phase, "dead"}
         /\ worker[chan].phase = "wedged" => worker'[chan].phase = "wedged"
         /\ worker'[chan].phase # worker[chan].phase => e = "stall"
         /\ \A k \in DOMAIN worker'[chan].out :
              k + 1 \in DOMAIN Queue /\ worker'[chan].out[k] = Queue[k + 1]
         /\ \A k \in DOMAIN Queue : k # 1 =>
              k - 1 \in DOMAIN worker'[chan].out /\ worker'[chan].out[k - 1] = Queue[k]
<1> DEFINE e == Head(Queue)
           c == worker[chan]
           w == IF e = "stall" THEN Signalled(proc) ELSE worker
<1>1. /\ pump.pc \in {"read", "exit"} /\ Queue # <<>>
      /\ worker' = [w EXCEPT ![chan].out = Tail(@)]
  BY DEF HandleEvent
<1>2. chan \in DOMAIN worker /\ c \in Trainers /\ Queue = c.out /\ Queue \in Seq(Events)
      /\ proc \in {0, chan} /\ worker \in Seq(Trainers)
  BY <1>1, Workers DEF HandleInv, Queue, Trainers, ShapeInv
<1>3. /\ e \in Events /\ e = Queue[1] /\ 1 \in DOMAIN Queue
      /\ Tail(Queue) \in Seq(Events)
      /\ \A k \in DOMAIN Tail(Queue) : k + 1 \in DOMAIN Queue /\ Tail(Queue)[k] = Queue[k + 1]
      /\ \A k \in DOMAIN Queue : k # 1 => k - 1 \in DOMAIN Tail(Queue) /\ Tail(Queue)[k - 1] = Queue[k]
  <2> DEFINE q == Queue
             t == Tail(Queue)
             n == Len(Queue)
             m == Len(Tail(Queue))
  <2>1. q \in Seq(Events) /\ q # <<>> /\ n \in Nat /\ n # 0 /\ DOMAIN q = 1 .. n
    BY <1>1, <1>2, LenProperties, EmptySeq
  <2>2. Head(q) \in Events /\ t \in Seq(Events) /\ m = n - 1 /\ \A k \in 1 .. m : t[k] = q[k + 1]
    BY <2>1, HeadTailProperties
  <2>3. DOMAIN t = 1 .. m /\ Head(q) = q[1]
    BY <2>1, <2>2, LenProperties
  <2> HIDE DEF q, t, n, m
  <2>4. /\ 1 \in DOMAIN q
        /\ \A k \in DOMAIN t : k + 1 \in DOMAIN q /\ t[k] = q[k + 1]
        /\ \A k \in DOMAIN q : k # 1 => k - 1 \in DOMAIN t /\ t[k - 1] = q[k]
    BY <2>1, <2>2, <2>3
  <2>5. QED
    BY <2>2, <2>3, <2>4 DEF q, t
<1>4. \E p \in {c.phase, "dead"} :
        /\ w = [worker EXCEPT ![chan] = [c EXCEPT !.phase = p]]
        /\ [c EXCEPT !.phase = p] \in Trainers
        /\ p # c.phase => e = "stall"
        /\ c.phase = "wedged" => p = "wedged"
  <2>1. [c EXCEPT !.phase = c.phase] = c /\ [worker EXCEPT ![chan] = c] = worker
    BY <1>2 DEF Trainers
  <2>2. CASE w = worker
    BY <1>2, <2>1, <2>2
  <2>3. CASE w # worker
    <3>1. e = "stall" /\ w = Signalled(proc) /\ proc = chan /\ proc # 0 /\ c.phase # "wedged"
      BY <1>2, <2>3 DEF Signalled
    <3>2. Signalled(chan) = [worker EXCEPT ![chan] = [c EXCEPT !.phase = "dead"]]
      BY <1>2, <3>1 DEF Signalled
    <3>3. [c EXCEPT !.phase = "dead"] \in Trainers
      BY <1>2 DEF Trainers, WorkerPhases
    <3>4. QED
      BY <3>1, <3>2, <3>3
  <2>4. QED
    BY <2>2, <2>3
<1>5. PICK p \in {c.phase, "dead"} :
        /\ w = [worker EXCEPT ![chan] = [c EXCEPT !.phase = p]]
        /\ [c EXCEPT !.phase = p] \in Trainers
        /\ p # c.phase => e = "stall"
        /\ c.phase = "wedged" => p = "wedged"
  BY <1>4
<1> DEFINE v == [c EXCEPT !.phase = p, !.out = Tail(Queue)]
<1>6. /\ v \in Trainers /\ v.run = c.run /\ v.told = c.told /\ v.watch = c.watch /\ v.fin = c.fin
      /\ v.phase = p /\ v.out = Tail(Queue)
  BY <1>2, <1>3, <1>5 DEF Trainers
<1>7. worker' = [worker EXCEPT ![chan] = v]
  <2> HIDE DEF w
  <2>1. w[chan] = [c EXCEPT !.phase = p] /\ w[chan].out = Queue
    BY <1>2, <1>5 DEF Trainers
  <2>2. [w[chan] EXCEPT !.out = Tail(Queue)] = v
    BY <1>2, <2>1 DEF Trainers
  <2>3. worker' = [w EXCEPT ![chan] = [w[chan] EXCEPT !.out = Tail(Queue)]]
    BY <1>1, <2>1
  <2> HIDE DEF v
  <2>4. QED
    BY <1>2, <1>5, <2>2, <2>3
<1> HIDE DEF v
<1>8. Becomes(chan, v)
  BY <1>2, <1>6, <1>7, Updated
<1>9. /\ worker' \in Seq(Trainers) /\ Len(worker') = Len(worker) /\ DOMAIN worker' = DOMAIN worker
      /\ \A j \in DOMAIN worker \ {chan} : worker'[j] = worker[j]
      /\ worker'[chan].run = c.run /\ worker'[chan].told = c.told
      /\ worker'[chan].watch = c.watch /\ worker'[chan].fin = c.fin
      /\ worker'[chan].phase = p /\ worker'[chan].out = Tail(Queue)
  BY <1>6, <1>8 DEF Becomes
<1>10. /\ \A k \in DOMAIN worker'[chan].out :
            k + 1 \in DOMAIN Queue /\ worker'[chan].out[k] = Queue[k + 1]
       /\ \A k \in DOMAIN Queue : k # 1 =>
            k - 1 \in DOMAIN worker'[chan].out /\ worker'[chan].out[k - 1] = Queue[k]
  BY <1>3, <1>9
<1> HIDE DEF w, e, c
<1>11. /\ worker'[chan].phase \in {c.phase, "dead"}
       /\ c.phase = "wedged" => worker'[chan].phase = "wedged"
       /\ worker'[chan].phase # c.phase => e = "stall"
  BY <1>5, <1>9
<1>12. QED
  BY <1>1, <1>2, <1>3, <1>9, <1>10, <1>11 DEF e, c

\* Creating a run's row touches no other row, and no field but one.
LEMMA Creates ==
  ASSUME ShapeInv, EnsureCreated
  PROVE  /\ \E c \in BOOLEAN : flags' = [flags EXCEPT !.created = c]
         /\ flags' \in Fields /\ flags'.job = flags.job /\ flags'.stop = flags.stop
         /\ flags'.cancel = flags.cancel /\ flags'.training = flags.training
         /\ flags'.xetUsed = flags.xetUsed /\ flags'.respawn = flags.respawn
         /\ row' \in [Runs -> Rows]
         /\ history' \in Records /\ history'.asked = history.asked
         /\ history'.broken = history.broken
         /\ \A r \in Runs : \/ row'[r] = row[r]
                            \/ row'[r].status = "running" /\ ~(row'[r].cancelled /\ row'[r].dir)
<1>1. flags \in Fields /\ history \in Records /\ row \in [Runs -> Rows]
  BY DEF ShapeInv
<1>2. flags = [flags EXCEPT !.created = flags.created] /\ flags.created \in BOOLEAN
  BY <1>1 DEF Fields
<1>3. CASE UNCHANGED <<flags, row, history>>
  BY <1>1, <1>2, <1>3
<1>4. CASE /\ flags' = [flags EXCEPT !.created = TRUE] /\ UNCHANGED history
           /\ row' = [row EXCEPT ![flags.job] =
                        [status |-> "running", dir |-> flags.dir /\ ~flags.cancel,
                         cancelled |-> flags.cancel]]
  <2> DEFINE v == [status |-> "running", dir |-> flags.dir /\ ~flags.cancel,
                   cancelled |-> flags.cancel]
  <2>1. v \in Rows /\ v.status = "running" /\ ~(v.cancelled /\ v.dir)
    BY <1>1 DEF Rows, Fields
  <2>2. row' = [row EXCEPT ![flags.job] = v]
    BY <1>4
  <2> HIDE DEF v
  <2>3. /\ row' \in [Runs -> Rows]
        /\ \A r \in Runs : row'[r] = row[r] \/ row'[r] = v
    BY <1>1, <2>1, <2>2
  <2>4. flags' \in Fields /\ flags' = [flags EXCEPT !.created = TRUE]
    BY <1>1, <1>4 DEF Fields
  <2>5. flags'.job = flags.job /\ flags'.stop = flags.stop
        /\ flags'.cancel = flags.cancel /\ flags'.training = flags.training
        /\ flags'.xetUsed = flags.xetUsed /\ flags'.respawn = flags.respawn
    BY <1>1, <2>4 DEF Fields
  <2>6. QED
    BY <1>1, <1>4, <2>1, <2>3, <2>4, <2>5
<1>5. CASE Fault("db", history) /\ UNCHANGED <<flags, row>>
  <2>1. history' \in Records /\ history'.asked = history.asked /\ history'.broken = history.broken
    BY <1>1, <1>5, Basics DEF Fault, Records
  <2>2. QED
    BY <1>1, <1>2, <1>5, <2>1
<1>6. QED
  BY <1>3, <1>4, <1>5 DEF EnsureCreated

\* The ending of a run goes to its row only, and only while that says running.
LEMMA Writes ==
  ASSUME ShapeInv, NEW f \in Finals, f.run # 0, WriteEnding(f)
  PROVE  /\ flags' \in Fields /\ flags'.job = flags.job /\ flags'.stop = flags.stop
         /\ flags'.cancel = flags.cancel /\ flags'.training = flags.training
         /\ flags'.xetUsed = flags.xetUsed /\ flags'.respawn = flags.respawn
         /\ row' \in [Runs -> Rows]
         /\ history' \in Records /\ history'.asked = history.asked
         /\ history'.broken = history.broken
         /\ \A r \in Runs : \/ row'[r] = row[r]
                            \/ /\ r = f.run /\ row'[r].status = f.status
                               /\ ~(row'[r].cancelled /\ row'[r].dir)
<1>1. flags \in Fields /\ history \in Records /\ row \in [Runs -> Rows]
  BY DEF ShapeInv
<1>2. CASE UNCHANGED <<flags, history>> /\ ~UNCHANGED row
  <2> DEFINE v == [status    |-> f.status,
                   dir       |-> ~(row[f.run].cancelled \/ f.clear)
                                 /\ (f.dir \/ (f.status # "completed" /\ row[f.run].dir)),
                   cancelled |-> row[f.run].cancelled \/ f.clear]
  <2>1. row' = [row EXCEPT ![f.run] = IF row[f.run].status # "running" THEN row[f.run] ELSE v]
    BY <1>2, <1>1 DEF WriteEnding
  <2>2. f.run \in Runs /\ row[f.run].status = "running"
    BY <1>1, <1>2, <2>1
  <2>3. row[f.run] \in Rows
    BY <1>1, <2>2
  <2>4. v \in Rows /\ v.status = f.status /\ ~(v.cancelled /\ v.dir)
    BY <2>3 DEF Rows, Finals
  <2> HIDE DEF v
  <2>5. /\ row' \in [Runs -> Rows]
        /\ \A r \in Runs : row'[r] = row[r] \/ (r = f.run /\ row'[r] = v)
    BY <1>1, <2>1, <2>4
  <2>6. QED
    BY <1>1, <1>2, <2>4, <2>5
<1>3. CASE UNCHANGED <<flags, history, row>>
  BY <1>1, <1>3
<1>4. CASE /\ Fault("db", [history EXCEPT !.lost = @ \cup {f.run}])
           /\ flags' = [flags EXCEPT !.finalized = @ /\ flags.job # f.run]
           /\ UNCHANGED row
  <2>1. f.run \in Runs
    BY Basics DEF Finals
  <2>2. flags' \in Fields /\ flags'.job = flags.job /\ flags'.stop = flags.stop
        /\ flags'.cancel = flags.cancel /\ flags'.training = flags.training
        /\ flags'.xetUsed = flags.xetUsed /\ flags'.respawn = flags.respawn
    BY <1>1, <1>4 DEF Fields
  <2>3. history' \in Records /\ history'.asked = history.asked /\ history'.broken = history.broken
    <3> DEFINE h == [history EXCEPT !.lost = @ \cup {f.run}]
    <3>1. h \in Records /\ h.asked = history.asked /\ h.broken = history.broken
          /\ h.faults = history.faults
      BY <1>1, <2>1 DEF Records
    <3>2. history.faults < MaxFaults /\ history' = [h EXCEPT !.faults = h.faults + 1]
      BY <1>4 DEF Fault
    <3>3. h.faults + 1 \in 0 .. MaxFaults
      BY <1>1, <3>1, <3>2, Basics DEF Records
    <3> HIDE DEF h
    <3>4. QED
      BY <3>1, <3>2, <3>3 DEF Records
  <2>4. QED
    BY <1>1, <1>4, <2>2, <2>3
<1>5. QED
  BY <1>2, <1>3, <1>4 DEF WriteEnding

\* What the pump and the watchdog would record for the current run.
LEMMA FinalsOfTheRun ==
  ASSUME ShapeInv, NEW f \in TerminalFinals
  PROVE  /\ f \in Finals /\ f.run = flags.job
         /\ \/ f = payload /\ payload.run = flags.job
            \/ /\ f.status \in {"stopped", "error"}
               /\ ~flags.stop => f.status = "error"
               /\ ~(payload.run = flags.job /\ payload.run # 0)
<1>1. flags \in Fields /\ payload \in Finals
  BY DEF ShapeInv
<1>2. CASE payload.run = flags.job /\ payload.run # 0
  BY <1>1, <1>2 DEF TerminalFinals
<1>3. CASE ~(payload.run = flags.job /\ payload.run # 0)
  <2>1. PICK s \in IF ~flags.stop THEN {"error"}
                   ELSE IF flags.cancel THEN {"stopped"} ELSE {"stopped", "error"} :
          f = [run |-> flags.job, status |-> s, dir |-> flags.dir /\ ~flags.cancel,
               clear |-> flags.cancel]
    BY <1>3 DEF TerminalFinals
  <2>2. s \in {"stopped", "error"} /\ (~flags.stop => s = "error")
    BY <2>1
  <2>3. QED
    BY <1>1, <1>3, <2>1, <2>2 DEF Fields, Finals, Endings
<1>4. QED
  BY <1>2, <1>3

\* What may happen to the rows in a step: one is created, or one gets an
\* ending that the finalization f names.
RowsGoOn(f) ==
  \A r \in Runs :
    \/ row'[r] = row[r]
    \/ row'[r].status = "running" /\ ~(row'[r].cancelled /\ row'[r].dir)
    \/ r = f.run /\ row'[r].status = f.status /\ ~(row'[r].cancelled /\ row'[r].dir)

\* The fields that say which run this is, and what was asked of it, stay; the
\* run does not begin to train again.
SameRun ==
  /\ flags' \in Fields /\ flags'.job = flags.job /\ flags'.stop = flags.stop
  /\ flags'.cancel = flags.cancel /\ (flags'.training => flags.training)
  /\ flags'.xetUsed = flags.xetUsed /\ (flags'.respawn => flags.respawn)

\* A step of a watchdog.
LEMMA WatchSteps ==
  ASSUME ShapeInv, AliveInv, NEW i \in DOMAIN worker, WatchStep(i)
  PROVE  /\ UNCHANGED <<chan, payload, spawning, pumping, pump, loop>> /\ SameRun
         /\ proc' = proc \/ (proc = i /\ proc' = 0 /\ worker[i].watch = "drop")
         /\ worker' \in Seq(Trainers) /\ Len(worker') = Len(worker) /\ DOMAIN worker' = DOMAIN worker
         /\ \A j \in DOMAIN worker \ {i} : worker'[j] = worker[j]
         /\ worker[i].watch # "none"
         /\ worker'[i].run = worker[i].run /\ worker'[i].told = worker[i].told
         /\ worker'[i].out = worker[i].out
         /\ worker'[i].phase \in {worker[i].phase, "dead"}
         /\ worker[i].phase = "wedged" => worker'[i].phase = "wedged"
         /\ worker'[i].watch \notin {"none", "watch"} => worker'[i].phase \in {"dead", "wedged"}
         /\ worker'[i].watch = "finish" => worker'[i].fin.run # 0
         /\ \/ worker'[i].fin = worker[i].fin
            \/ worker'[i].fin = NoFinal
            \/ worker[i].run = flags.job /\ worker'[i].fin \in TerminalFinals
         /\ row' \in [Runs -> Rows] /\ RowsGoOn(worker[i].fin)
         /\ history' \in Records /\ history'.asked = history.asked
         /\ history'.broken = history.broken
<1> USE DEF parent
<1> DEFINE w == worker[i]
           Same == /\ UNCHANGED <<flags, row, history>> /\ SameRun
                   /\ row' \in [Runs -> Rows] /\ history' \in Records /\ RowsGoOn(w.fin)
<1>1. w \in Trainers /\ flags \in Fields /\ row \in [Runs -> Rows] /\ history \in Records
      /\ (w.watch \notin {"none", "watch"} => w.phase \in {"dead", "wedged"})
      /\ (w.watch = "finish" => w.fin.run # 0) /\ w.fin \in Finals
  BY Workers DEF ShapeInv, AliveInv, Gone, Trainers
<1>2. ASSUME UNCHANGED <<flags, row, history>> PROVE Same
  BY <1>1, <1>2 DEF SameRun, RowsGoOn
<1>3. ASSUME NEW p \in WatchPhases, NEW f \in Finals,
             worker' = [worker EXCEPT ![i].watch = p, ![i].fin = f]
      PROVE  /\ worker' \in Seq(Trainers) /\ Len(worker') = Len(worker) /\ DOMAIN worker' = DOMAIN worker
             /\ \A j \in DOMAIN worker \ {i} : worker'[j] = worker[j]
             /\ worker'[i].run = w.run /\ worker'[i].told = w.told /\ worker'[i].out = w.out
             /\ worker'[i].phase = w.phase /\ worker'[i].watch = p /\ worker'[i].fin = f
  <2> DEFINE v == [w EXCEPT !.watch = p, !.fin = f]
  <2>1. /\ v \in Trainers /\ v.run = w.run /\ v.told = w.told /\ v.out = w.out /\ v.phase = w.phase
        /\ v.watch = p /\ v.fin = f
    BY <1>1 DEF Trainers
  <2>2. worker' = [worker EXCEPT ![i] = v]
    BY <1>1, <1>3
  <2> HIDE DEF v
  <2>3. Becomes(i, v)
    BY <2>1, <2>2, Updated
  <2>4. QED
    BY <2>1, <2>3 DEF Becomes
<1>4. ASSUME NEW p \in WatchPhases, WatchAt(i, p)
      PROVE  /\ worker' \in Seq(Trainers) /\ Len(worker') = Len(worker) /\ DOMAIN worker' = DOMAIN worker
             /\ \A j \in DOMAIN worker \ {i} : worker'[j] = worker[j]
             /\ worker'[i].run = w.run /\ worker'[i].told = w.told /\ worker'[i].out = w.out
             /\ worker'[i].phase = w.phase /\ worker'[i].watch = p /\ worker'[i].fin = w.fin
  <2> DEFINE v == [w EXCEPT !.watch = p]
  <2>1. /\ v \in Trainers /\ v.run = w.run /\ v.told = w.told /\ v.out = w.out /\ v.phase = w.phase
        /\ v.watch = p /\ v.fin = w.fin
    BY <1>1 DEF Trainers
  <2>2. worker' = [worker EXCEPT ![i] = v]
    BY <1>1, <1>4 DEF WatchAt
  <2> HIDE DEF v
  <2>3. Becomes(i, v)
    BY <2>1, <2>2, Updated
  <2>4. QED
    BY <2>1, <2>3 DEF Becomes
<1>5. {"none", "final", "claim", "finish", "drop", "create"} \subseteq WatchPhases
  BY DEF WatchPhases
<1>6. CASE WatchEnds(i)
  <2>1. /\ WatchAt(i, "none") /\ w.watch = "watch"
        /\ UNCHANGED <<proc, chan, payload, spawning, pumping, pump, loop, flags, row, history>>
    BY <1>6 DEF WatchEnds
  <2>2. Same
    BY <1>2, <2>1
  <2>3. QED
    BY <1>4, <1>5, <2>1, <2>2
<1>7. CASE Escalate(i)
  <2>1. /\ worker' = [Signalled(i) EXCEPT ![i].watch = "final"] /\ w.watch = "watch"
        /\ UNCHANGED <<proc, chan, payload, spawning, pumping, pump, loop, flags, row, history>>
    BY <1>7 DEF Escalate
  <2>2. PICK p \in {w.phase, "dead"} :
          /\ Signalled(i) = [worker EXCEPT ![i] = [w EXCEPT !.phase = p]]
          /\ [w EXCEPT !.phase = p] \in Trainers
          /\ p \in {"dead", "wedged"}
          /\ w.phase = "wedged" => p = "wedged"
    <3>1. i # 0 /\ i \in 0 .. Len(worker)
      BY Workers
    <3>2. CASE w.phase = "wedged"
      <4>1. [w EXCEPT !.phase = "wedged"] = w /\ [worker EXCEPT ![i] = w] = worker
        BY <1>1, <3>2 DEF Trainers, ShapeInv
      <4>2. Signalled(i) = worker
        BY <3>2 DEF Signalled
      <4>3. QED
        BY <1>1, <3>2, <4>1, <4>2
    <3>3. CASE w.phase # "wedged"
      BY <3>1, <3>3, SignalEnds
    <3>4. QED
      BY <3>2, <3>3
  <2> DEFINE v == [w EXCEPT !.phase = p, !.watch = "final"]
  <2>3. /\ v \in Trainers /\ v.run = w.run /\ v.told = w.told /\ v.out = w.out /\ v.phase = p
        /\ v.watch = "final" /\ v.fin = w.fin
    BY <1>1, <1>5, <2>2 DEF Trainers
  <2>4. worker' = [worker EXCEPT ![i] = v]
    <3> DEFINE s == Signalled(i)
    <3>1. s[i] = [w EXCEPT !.phase = p]
      BY <2>2
    <3>2. [s[i] EXCEPT !.watch = "final"] = v
      BY <1>1, <3>1 DEF Trainers
    <3>3. worker' = [s EXCEPT ![i] = [s[i] EXCEPT !.watch = "final"]]
      BY <2>1
    <3> HIDE DEF s, v
    <3>4. QED
      BY <2>2, <3>2, <3>3 DEF s
  <2> HIDE DEF v
  <2>5. Becomes(i, v)
    BY <2>3, <2>4, Updated
  <2>6. Same
    BY <1>2, <2>1
  <2>7. QED
    BY <2>1, <2>2, <2>3, <2>5, <2>6 DEF Becomes
<1>8. CASE WatchFinal(i)
  <2>1. /\ w.watch = "final"
        /\ UNCHANGED <<proc, chan, payload, spawning, pumping, pump, loop, row, history>>
    BY <1>8 DEF WatchFinal
  <2>2. CASE proc # i \/ flags.job # w.run
    <3>1. WatchAt(i, "none") /\ UNCHANGED flags
      BY <1>8, <2>2 DEF WatchFinal
    <3>2. Same
      BY <1>2, <2>1, <3>1
    <3>3. QED
      BY <1>4, <1>5, <2>1, <3>1, <3>2
  <2>3. CASE ~(proc # i \/ flags.job # w.run)
    <3>1. /\ flags' = [flags EXCEPT !.training = FALSE]
          /\ \E f \in TerminalFinals : worker' = [worker EXCEPT ![i].watch = "create", ![i].fin = f]
      BY <1>8, <2>3 DEF WatchFinal
    <3>2. PICK f \in TerminalFinals : worker' = [worker EXCEPT ![i].watch = "create", ![i].fin = f]
      BY <3>1
    <3>3. f \in Finals
      BY FinalsOfTheRun
    <3>4. SameRun
      BY <1>1, <3>1 DEF SameRun, Fields
    <3>5. RowsGoOn(w.fin)
      BY <2>1 DEF RowsGoOn
    <3>6. "create" \in WatchPhases
      BY <1>5
    <3>7. /\ worker' \in Seq(Trainers) /\ Len(worker') = Len(worker) /\ DOMAIN worker' = DOMAIN worker
          /\ \A j \in DOMAIN worker \ {i} : worker'[j] = worker[j]
          /\ worker'[i].run = w.run /\ worker'[i].told = w.told /\ worker'[i].out = w.out
          /\ worker'[i].phase = w.phase /\ worker'[i].watch = "create" /\ worker'[i].fin = f
      BY <1>3, <3>2, <3>3, <3>6
    <3>8. QED
      BY <1>1, <2>1, <2>3, <3>3, <3>4, <3>5, <3>7
  <2>4. QED
    BY <2>2, <2>3
<1>9. CASE WatchCreate(i)
  <2>1. /\ w.watch = "create" /\ EnsureCreated /\ WatchAt(i, "claim")
        /\ UNCHANGED <<proc, chan, payload, spawning, pumping, pump, loop>>
    BY <1>9 DEF WatchCreate
  <2>2. /\ SameRun /\ RowsGoOn(w.fin) /\ row' \in [Runs -> Rows]
        /\ history' \in Records /\ history'.asked = history.asked
        /\ history'.broken = history.broken
    BY <2>1, Creates DEF SameRun, RowsGoOn
  <2>3. QED
    BY <1>1, <1>4, <1>5, <2>1, <2>2
<1>10. CASE WatchClaim(i)
  <2>1. /\ w.watch = "claim"
        /\ flags' = [flags EXCEPT !.dir = @ /\ ~w.fin.clear,
                                  !.finalized = @ \/ MayClaim(w.fin.run)]
        /\ WatchAt(i, IF MayClaim(w.fin.run) THEN "finish" ELSE "drop")
        /\ UNCHANGED <<proc, chan, payload, spawning, pumping, pump, loop, row, history>>
    BY <1>10 DEF WatchClaim
  <2>2. SameRun /\ RowsGoOn(w.fin)
    BY <1>1, <2>1 DEF SameRun, RowsGoOn, Fields
  <2>3. MayClaim(w.fin.run) => w.fin.run # 0
    BY DEF MayClaim
  <2>4. CASE MayClaim(w.fin.run)
    <3>1. WatchAt(i, "finish")
      BY <2>1, <2>4
    <3>2. QED
      BY <1>1, <1>4, <1>5, <2>1, <2>2, <2>3, <2>4, <3>1
  <2>5. CASE ~MayClaim(w.fin.run)
    <3>1. WatchAt(i, "drop")
      BY <2>1, <2>5
    <3>2. QED
      BY <1>1, <1>4, <1>5, <2>1, <2>2, <3>1
  <2>6. QED
    BY <2>4, <2>5
<1>11. CASE WatchFinish(i)
  <2>1. /\ w.watch = "finish" /\ WriteEnding(w.fin) /\ WatchAt(i, "drop")
        /\ UNCHANGED <<proc, chan, payload, spawning, pumping, pump, loop>>
    BY <1>11 DEF WatchFinish
  <2>2. /\ SameRun /\ RowsGoOn(w.fin) /\ row' \in [Runs -> Rows]
        /\ history' \in Records /\ history'.asked = history.asked
        /\ history'.broken = history.broken
    BY <1>1, <2>1, Writes DEF SameRun, RowsGoOn
  <2>3. QED
    BY <1>1, <1>4, <1>5, <2>1, <2>2
<1>12. CASE WatchDrop(i)
  <2>1. /\ w.watch = "drop" /\ proc' = (IF proc = i THEN 0 ELSE proc)
        /\ worker' = [worker EXCEPT ![i].watch = "none", ![i].fin = NoFinal]
        /\ UNCHANGED <<chan, payload, spawning, pumping, pump, loop, flags, row, history>>
    BY <1>12 DEF WatchDrop
  <2>2. Same
    BY <1>2, <2>1
  <2>3. "none" \in WatchPhases /\ NoFinal \in Finals
    BY <1>5, Basics
  <2>4. /\ worker' \in Seq(Trainers) /\ Len(worker') = Len(worker) /\ DOMAIN worker' = DOMAIN worker
        /\ \A j \in DOMAIN worker \ {i} : worker'[j] = worker[j]
        /\ worker'[i].run = w.run /\ worker'[i].told = w.told /\ worker'[i].out = w.out
        /\ worker'[i].phase = w.phase /\ worker'[i].watch = "none" /\ worker'[i].fin = NoFinal
    BY <1>3, <2>1, <2>3
  <2>5. proc' = proc \/ (proc = i /\ proc' = 0)
    BY <2>1
  <2>6. QED
    BY <1>1, <2>1, <2>2, <2>4, <2>5
<1>13. QED
  BY <1>6, <1>7, <1>8, <1>9, <1>10, <1>11, <1>12 DEF WatchStep

\* Where a finalization goes back to.
LEMMA Returns ==
  ASSUME ShapeInv, Return
  PROVE  /\ pump' \in Pumps /\ pumping' \in BOOLEAN /\ pump'.back = "end"
         /\ pump'.pc \in {"read", "exit", "none"}
         /\ pump'.pc = "exit" => pump.back = "exit"
<1>1. pumping' \in BOOLEAN
  BY DEF Return, ShapeInv
<1>2. CASE pump.back = "read"
  <2>1. pump' = Pump
    BY <1>2 DEF Return
  <2>2. QED
    BY <1>1, <2>1, Basics
<1>3. CASE pump.back = "exit"
  <2>1. pump' = [NoPump EXCEPT !.pc = "exit"]
    BY <1>3 DEF Return
  <2>2. QED
    BY <1>1, <1>3, <2>1, Basics DEF Pumps, PumpPhases
<1>4. CASE pump.back \notin {"read", "exit"}
  <2>1. pump' = NoPump
    BY <1>4 DEF Return
  <2>2. QED
    BY <1>1, <2>1, Basics
<1>5. QED
  BY <1>2, <1>3, <1>4

\* The steps of the pump that leave the workers and the handles alone.
QuietPumpStep ==
  \/ Persist \/ PumpEnds \/ SeeExit \/ MarkDone \/ PumpCreate \/ PumpPayload
  \/ PumpClaim \/ PumpFinish \/ BeginRespawn \/ RespawnFails

\* Where the pump may get to in such a step, and with what to record.
PumpGoesOn ==
  /\ pump' \in Pumps /\ pump'.pc # "persist"
  /\ pump'.pc \in {"exit", "last", "payload"} \/ pump'.back = "exit" =>
       \/ pump.pc \in {"exit", "last", "payload"} \/ pump.back = "exit"
       \/ proc # 0 /\ ~Alive(proc)
  /\ pump'.pc \in {"last", "payload"} => Queue = <<>>
  /\ pump'.pc # "respawn" /\ (pump'.pc = "reap" => flags.respawn /\ ~flags'.respawn)
  /\ pump'.pc = "finish" => pump'.fin.run # 0
  /\ pump'.pc \in {"create", "claim", "finish"} =>
       \/ pump.pc \in {"create", "claim", "finish"} /\ pump'.fin = pump.fin
       \/ pump.pc = "payload" /\ pump'.fin \in TerminalFinals
       \/ pump'.fin.run = flags.job /\ pump'.fin.status = "error" /\ flags.job \in history'.broken

\* The ending that the pump is about to write.
ToWrite == IF pump.pc = "finish" THEN pump.fin ELSE NoFinal

LEMMA QuietPumps ==
  ASSUME ShapeInv, StartInv, BlameInv, EndInv, QuietPumpStep
  PROVE  /\ UNCHANGED <<worker, proc, chan, payload, loop>> /\ SameRun /\ PumpGoesOn
         /\ pump.pc # "none" /\ pumping' \in BOOLEAN /\ spawning' = FALSE
         /\ row' \in [Runs -> Rows] /\ RowsGoOn(ToWrite)
         /\ history' \in Records /\ history'.asked = history.asked
         /\ history.broken \subseteq history'.broken
<1> USE DEF parent
<1> DEFINE Written == /\ row' \in [Runs -> Rows] /\ RowsGoOn(ToWrite)
                      /\ history' \in Records /\ history'.asked = history.asked
                      /\ history.broken \subseteq history'.broken
<1>1. /\ flags \in Fields /\ row \in [Runs -> Rows] /\ history \in Records /\ pump \in Pumps
      /\ pumping \in BOOLEAN /\ spawning \in BOOLEAN /\ pump.fin \in Finals
      /\ loop \notin Startings /\ spawning => pump.pc = "respawn"
      /\ loop \in Startings => pump.pc = "none"
      /\ pump.pc = "finish" => pump.fin.run # 0
      /\ pump.pc = "persist" => pump.back \in {"read", "exit"}
      /\ pump.pc \in {"last", "payload"} => Queue = <<>>
      /\ pump.pc \in {"reap", "respawn"} => flags.job \in history.broken
  BY DEF ShapeInv, StartInv, BlameInv, EndInv, Pumps
<1>2. ASSUME UNCHANGED <<row, history>> PROVE Written
  BY <1>1, <1>2 DEF RowsGoOn
<1>3. ASSUME UNCHANGED flags PROVE SameRun
  BY <1>1, <1>3 DEF SameRun
<1>4. ASSUME pump.pc # "none", pump.pc # "respawn", UNCHANGED spawning PROVE spawning' = FALSE
  BY <1>1, <1>4
<1>5. {"none", "read", "exit", "last", "payload", "claim", "create", "finish", "reap"} \subseteq PumpPhases
  BY DEF PumpPhases
<1>6. ASSUME NEW p \in PumpPhases, pump' = [NoPump EXCEPT !.pc = p]
      PROVE  pump' \in Pumps /\ pump'.pc = p /\ pump'.back = "end" /\ pump'.fin = NoFinal
  BY <1>6, Basics DEF Pumps
<1>7. CASE Persist
  <2>1. /\ pump.pc = "persist" /\ pump' = [NoPump EXCEPT !.pc = pump.back]
        /\ row' = [row EXCEPT ![pump.fin.run].dir =
                     @ \/ (row[pump.fin.run].status = "running" /\ ~row[pump.fin.run].cancelled)]
        /\ UNCHANGED <<worker, proc, chan, flags, payload, spawning, pumping, loop, history>>
    BY <1>7 DEF Persist
  <2>2. PumpGoesOn
    BY <1>1, <1>5, <1>6, <2>1 DEF PumpGoesOn
  <2>3. Written
    <3> DEFINE n == pump.fin.run
               v == [row[n] EXCEPT !.dir = @ \/ (row[n].status = "running" /\ ~row[n].cancelled)]
    <3>1. row' = [row EXCEPT ![n] = v]
      BY <2>1
    <3>2. ASSUME n \in Runs
          PROVE  v \in Rows /\ (v = row[n] \/ (v.status = "running" /\ ~(v.cancelled /\ v.dir)))
      <4>1. row[n] \in Rows
        BY <1>1, <3>2
      <4>2. CASE row[n].status = "running" /\ ~row[n].cancelled
        BY <4>1, <4>2 DEF Rows
      <4>3. CASE ~(row[n].status = "running" /\ ~row[n].cancelled)
        <5>1. v = [row[n] EXCEPT !.dir = row[n].dir]
          BY <4>1, <4>3 DEF Rows
        <5>2. v = row[n]
          BY <4>1, <5>1 DEF Rows
        <5>3. QED
          BY <4>1, <5>2
      <4>4. QED
        BY <4>2, <4>3
    <3> HIDE DEF v
    <3>3. /\ row' \in [Runs -> Rows]
          /\ \A r \in Runs : row'[r] = IF r = n THEN v ELSE row[r]
      BY <1>1, <3>1, <3>2
    <3>4. QED
      BY <1>1, <2>1, <3>2, <3>3 DEF RowsGoOn
  <2>4. QED
    BY <1>1, <1>3, <1>4, <2>1, <2>2, <2>3
<1>8. CASE PumpEnds
  <2>1. /\ pump.pc = "read" /\ pump' = NoPump /\ pumping' \in BOOLEAN
        /\ UNCHANGED <<worker, proc, chan, flags, payload, spawning, loop, row, history>>
    BY <1>1, <1>8 DEF PumpEnds
  <2>2. PumpGoesOn
    BY <2>1, Basics DEF PumpGoesOn
  <2>3. QED
    BY <1>2, <1>3, <1>4, <2>1, <2>2
<1>9. CASE SeeExit
  <2>1. /\ pump.pc = "read" /\ proc # 0 /\ ~Alive(proc) /\ pump' = [NoPump EXCEPT !.pc = "exit"]
        /\ UNCHANGED <<worker, proc, chan, flags, payload, spawning, pumping, loop, row, history>>
    BY <1>9 DEF SeeExit
  <2>2. PumpGoesOn
    BY <1>5, <1>6, <2>1 DEF PumpGoesOn
  <2>3. QED
    BY <1>1, <1>2, <1>3, <1>4, <2>1, <2>2
<1>10. CASE MarkDone
  <2>1. /\ pump.pc = "exit" /\ Queue = <<>> /\ pump' = [NoPump EXCEPT !.pc = "last"]
        /\ flags' = [flags EXCEPT !.training = FALSE]
        /\ UNCHANGED <<worker, proc, chan, payload, spawning, pumping, loop, row, history>>
    BY <1>10 DEF MarkDone
  <2>2. PumpGoesOn
    BY <1>5, <1>6, <2>1 DEF PumpGoesOn
  <2>3. SameRun
    BY <1>1, <2>1 DEF SameRun, Fields
  <2>4. QED
    BY <1>1, <1>2, <1>4, <2>1, <2>2, <2>3
<1>11. CASE PumpCreate
  <2>1. /\ pump.pc \in {"create", "last"} /\ EnsureCreated
        /\ pump' = [pump EXCEPT !.pc = IF @ = "create" THEN "claim" ELSE "payload"]
        /\ UNCHANGED <<worker, proc, chan, payload, spawning, pumping, loop>>
    BY <1>11 DEF PumpCreate
  <2>2. /\ pump' \in Pumps /\ pump'.fin = pump.fin /\ pump'.back = pump.back
        /\ pump'.pc = IF pump.pc = "create" THEN "claim" ELSE "payload"
    BY <1>1, <1>5, <2>1 DEF Pumps
  <2>3. PumpGoesOn
    BY <1>1, <2>1, <2>2 DEF PumpGoesOn
  <2>4. SameRun /\ Written
    BY <2>1, Creates DEF SameRun, RowsGoOn
  <2>5. QED
    BY <1>1, <1>4, <2>1, <2>3, <2>4
<1>12. CASE PumpPayload
  <2>1. PICK f \in TerminalFinals :
          /\ pump.pc = "payload" /\ pump' = [pc |-> "claim", back |-> "end", fin |-> f]
          /\ flags' = [flags EXCEPT !.dir = @ /\ ~f.clear]
          /\ UNCHANGED <<worker, proc, chan, payload, spawning, pumping, loop, row, history>>
    BY <1>12 DEF PumpPayload, PumpTo
  <2>2. f \in Finals
    BY FinalsOfTheRun
  <2>3. pump' \in Pumps /\ pump'.fin = f /\ pump'.back = "end" /\ pump'.pc = "claim"
    BY <1>5, <2>1, <2>2 DEF Pumps
  <2>4. PumpGoesOn
    BY <2>1, <2>3 DEF PumpGoesOn
  <2>5. SameRun
    BY <1>1, <2>1 DEF SameRun, Fields
  <2>6. QED
    BY <1>1, <1>2, <1>4, <2>1, <2>4, <2>5
<1>13. CASE PumpClaim
  <2>1. /\ pump.pc = "claim"
        /\ UNCHANGED <<worker, proc, chan, payload, spawning, loop, row, history>>
    BY <1>13 DEF PumpClaim
  <2>2. CASE MayClaim(pump.fin.run)
    <3>1. /\ flags' = [flags EXCEPT !.finalized = TRUE]
          /\ pump' = [pump EXCEPT !.pc = "finish"] /\ UNCHANGED pumping /\ pump.fin.run # 0
      BY <1>13, <2>2 DEF PumpClaim, MayClaim
    <3>2. pump' \in Pumps /\ pump'.fin = pump.fin /\ pump'.back = pump.back /\ pump'.pc = "finish"
      BY <1>1, <1>5, <3>1 DEF Pumps
    <3>3. PumpGoesOn
      BY <2>1, <3>1, <3>2 DEF PumpGoesOn
    <3>4. SameRun
      BY <1>1, <3>1 DEF SameRun, Fields
    <3>5. QED
      BY <1>1, <1>2, <1>4, <2>1, <3>1, <3>3, <3>4
  <2>3. CASE ~MayClaim(pump.fin.run)
    <3>1. Return /\ UNCHANGED flags
      BY <1>13, <2>3 DEF PumpClaim
    <3>2. PumpGoesOn
      BY <3>1, Returns DEF PumpGoesOn
    <3>3. QED
      BY <1>2, <1>3, <1>4, <2>1, <3>1, <3>2, Returns
  <2>4. QED
    BY <2>2, <2>3
<1>14. CASE PumpFinish
  <2>1. /\ pump.pc = "finish" /\ WriteEnding(pump.fin) /\ Return
        /\ UNCHANGED <<worker, proc, chan, payload, spawning, loop>>
    BY <1>14 DEF PumpFinish
  <2>2. PumpGoesOn
    BY <2>1, Returns DEF PumpGoesOn
  <2>3. SameRun /\ Written
    BY <1>1, <2>1, Writes DEF SameRun, RowsGoOn, ToWrite
  <2>4. QED
    BY <1>4, <2>1, <2>2, <2>3, Returns
<1>15. CASE BeginRespawn
  <2>1. /\ pump.pc = "exit" /\ flags.respawn /\ flags' = [flags EXCEPT !.respawn = FALSE]
        /\ pump' = [NoPump EXCEPT !.pc = "reap"]
        /\ UNCHANGED <<worker, proc, chan, payload, spawning, pumping, loop, row, history>>
    BY <1>15 DEF BeginRespawn
  <2>2. ~flags'.respawn
    BY <1>1, <2>1 DEF Fields
  <2>3. PumpGoesOn
    BY <1>5, <1>6, <2>1, <2>2 DEF PumpGoesOn
  <2>4. SameRun
    BY <1>1, <2>1 DEF SameRun, Fields
  <2>5. QED
    BY <1>1, <1>2, <1>4, <2>1, <2>3, <2>4
<1>16. CASE RespawnFails
  <2>1. /\ pump.pc = "respawn" /\ Fault("sidecar", [history EXCEPT !.broken = @ \cup {flags.job}])
        /\ spawning' = FALSE /\ pumping' \in BOOLEAN
        /\ flags' = [flags EXCEPT !.training = FALSE]
        /\ pump' = [pc |-> "create", back |-> "gone", fin |-> [NoFinal EXCEPT !.run = flags.job]]
        /\ UNCHANGED <<worker, proc, chan, payload, loop, row>>
    BY <1>1, <1>16 DEF RespawnFails, PumpTo
  <2> DEFINE f == [NoFinal EXCEPT !.run = flags.job]
             h == [history EXCEPT !.broken = @ \cup {flags.job}]
  <2>2. f \in Finals /\ f.run = flags.job /\ f.status = "error"
    <3>1. flags.job \in 0 .. MaxRuns
      BY <1>1 DEF Fields
    <3>2. NoFinal \in Finals /\ NoFinal.status = "error"
      BY Basics
    <3>3. QED
      BY <3>1, <3>2 DEF Finals
  <2>3. /\ h \in Records /\ h.asked = history.asked /\ h.faults = history.faults
        /\ h.broken = history.broken \cup {flags.job}
    BY <1>1, <2>1 DEF Records
  <2>4. history.faults < MaxFaults /\ history' = [h EXCEPT !.faults = h.faults + 1]
    BY <2>1 DEF Fault
  <2>5. h.faults + 1 \in 0 .. MaxFaults
    BY <1>1, <2>3, <2>4, Basics DEF Records
  <2> HIDE DEF f, h
  <2>6. /\ history' \in Records /\ history'.asked = history.asked
        /\ history'.broken = history.broken \cup {flags.job}
    BY <2>3, <2>4, <2>5 DEF Records
  <2>7. /\ pump' \in Pumps /\ pump'.pc = "create" /\ pump'.back = "gone" /\ pump'.fin = f
    BY <1>5, <2>1, <2>2 DEF Pumps, f
  <2>8. PumpGoesOn
    BY <2>2, <2>6, <2>7 DEF PumpGoesOn
  <2>9. SameRun
    BY <1>1, <2>1 DEF SameRun, Fields
  <2>10. Written
    BY <1>1, <2>1, <2>6 DEF RowsGoOn
  <2>11. QED
    BY <2>1, <2>8, <2>9, <2>10
<1>17. QED
  BY <1>7, <1>8, <1>9, <1>10, <1>11, <1>12, <1>13, <1>14, <1>15, <1>16 DEF QuietPumpStep

\* What the pump makes of the event it takes: a directory to announce, a
\* respawn to ask for, or an ending, and of what it then records.
LEMMA Handles ==
  ASSUME ShapeInv, HandleInv, HandleEvent
  PROVE  LET e == Head(Queue) IN
         /\ UNCHANGED <<proc, chan, spawning, pumping, loop, row, history>>
         /\ pump.pc \in {"read", "exit"}
         /\ flags' \in Fields /\ flags'.job = flags.job /\ flags'.stop = flags.stop
         /\ flags'.cancel = flags.cancel /\ (flags'.training => flags.training)
         /\ flags.xetUsed => flags'.xetUsed
         /\ flags'.respawn => flags.respawn \/ (e = "stall" /\ ~flags.xetUsed)
         /\ flags'.respawn /\ ~flags.respawn => flags'.xetUsed
         /\ payload' \in Finals /\ pump' \in Pumps
         /\ \/ payload' = payload /\ e \notin {"complete", "cut", "stopped", "error"}
            \/ /\ payload'.run = flags.job
               /\ payload'.status = "stopped" => flags.stop \/ e = "stopped"
               /\ payload'.status = "error" => e = "error"
         /\ \/ pump' = pump
            \/ pump'.pc = "persist" /\ pump'.back = pump.pc
            \/ pump'.pc \in {"create", "claim"} /\ pump'.back = pump.pc /\ pump'.fin = payload'
<1> DEFINE e == Head(Queue)
<1>1. /\ flags \in Fields /\ payload \in Finals /\ pump \in Pumps /\ flags.job \in 0 .. MaxRuns
      /\ e \in Events
  BY Takes DEF ShapeInv, Fields
<1>2. /\ UNCHANGED <<proc, chan, spawning, pumping, loop, row, history>>
      /\ pump.pc \in {"read", "exit"}
      /\ CASE e = "load"   -> HandleLoad
           [] e = "loaded" -> HandleLoaded
           [] e = "stall"  -> HandleStall
           [] e = "dir"    -> HandleDir
           [] e = "error"  -> HandleError
           [] OTHER        -> HandleEnd(e)
  BY DEF HandleEvent
<1> HIDE DEF e
<1>3. ASSUME NEW f \in Finals, f.run = flags.job, Settle(f)
      PROVE  /\ flags' \in Fields /\ flags'.job = flags.job /\ flags'.stop = flags.stop
             /\ flags'.cancel = flags.cancel /\ (flags'.training => flags.training)
             /\ flags'.xetUsed = flags.xetUsed /\ flags'.respawn = flags.respawn
             /\ payload' = f /\ pump' \in Pumps
             /\ pump'.pc \in {"create", "claim"} /\ pump'.back = pump.pc /\ pump'.fin = f
  <2>1. /\ payload' = f /\ flags' = [flags EXCEPT !.training = FALSE, !.dir = f.dir]
        /\ pump' = [pc |-> IF flags.created THEN "claim" ELSE "create", back |-> pump.pc, fin |-> f]
    BY <1>3 DEF Settle, PumpTo
  <2>2. /\ flags' \in Fields /\ flags'.job = flags.job /\ flags'.stop = flags.stop
        /\ flags'.cancel = flags.cancel /\ (flags'.training => flags.training)
        /\ flags'.xetUsed = flags.xetUsed /\ flags'.respawn = flags.respawn
    BY <1>1, <1>3, <2>1 DEF Fields, Finals
  <2>3. pump' \in Pumps /\ pump'.pc \in {"create", "claim"} /\ pump'.back = pump.pc /\ pump'.fin = f
    BY <1>2, <1>3, <2>1 DEF Pumps, PumpPhases
  <2>4. QED
    BY <2>1, <2>2, <2>3
<1>4. CASE e \in {"load", "loaded"}
  <2>1. UNCHANGED <<payload, pump>> /\ \E b \in BOOLEAN : flags' = [flags EXCEPT !.inLoad = b]
    BY <1>2, <1>4 DEF HandleLoad, HandleLoaded
  <2>2. /\ flags' \in Fields /\ flags'.job = flags.job /\ flags'.stop = flags.stop
        /\ flags'.cancel = flags.cancel /\ flags'.training = flags.training
        /\ flags'.xetUsed = flags.xetUsed /\ flags'.respawn = flags.respawn
    BY <1>1, <2>1 DEF Fields
  <2>3. QED
    BY <1>1, <1>2, <1>4, <2>1, <2>2 DEF e
<1>5. CASE e = "stall"
  <2>1. /\ UNCHANGED <<payload, pump>>
        /\ flags' = IF flags.inLoad /\ ~flags.xetUsed
                      THEN [flags EXCEPT !.xetUsed = TRUE, !.respawn = TRUE] ELSE flags
    BY <1>2, <1>5 DEF HandleStall
  <2>2. /\ flags' \in Fields /\ flags'.job = flags.job /\ flags'.stop = flags.stop
        /\ flags'.cancel = flags.cancel /\ flags'.training = flags.training
        /\ flags.xetUsed => flags'.xetUsed
        /\ flags'.respawn => flags.respawn \/ ~flags.xetUsed
        /\ flags'.respawn /\ ~flags.respawn => flags'.xetUsed
    BY <1>1, <2>1 DEF Fields
  <2>3. QED
    BY <1>1, <1>2, <1>5, <2>1, <2>2 DEF e
<1>6. CASE e = "dir"
  <2>1. /\ UNCHANGED payload /\ flags' = [flags EXCEPT !.dir = ~flags.cancel]
        /\ \/ UNCHANGED pump
           \/ pump' = [pc |-> "persist", back |-> pump.pc, fin |-> [NoFinal EXCEPT !.run = flags.job]]
    BY <1>2, <1>6 DEF HandleDir, PumpTo
  <2>2. /\ flags' \in Fields /\ flags'.job = flags.job /\ flags'.stop = flags.stop
        /\ flags'.cancel = flags.cancel /\ flags'.training = flags.training
        /\ flags'.xetUsed = flags.xetUsed /\ flags'.respawn = flags.respawn
    BY <1>1, <2>1 DEF Fields
  <2>3. pump' \in Pumps /\ (pump' = pump \/ (pump'.pc = "persist" /\ pump'.back = pump.pc))
    <3>1. [NoFinal EXCEPT !.run = flags.job] \in Finals
      BY <1>1, Basics
    <3>2. CASE UNCHANGED pump
      BY <1>1, <3>2
    <3>3. CASE ~UNCHANGED pump
      BY <1>2, <2>1, <3>1, <3>3 DEF Pumps, PumpPhases
    <3>4. QED
      BY <3>2, <3>3
  <2>4. QED
    BY <1>1, <1>2, <1>6, <2>1, <2>2, <2>3 DEF e
<1>7. CASE e = "error"
  <2>1. PICK s \in IF flags.stop THEN {"stopped", "error"} ELSE {"error"} :
          Settle([run |-> flags.job, status |-> s, dir |-> flags.dir /\ ~flags.cancel,
                  clear |-> flags.cancel])
    BY <1>2, <1>7 DEF HandleError
  <2> DEFINE f == [run |-> flags.job, status |-> s, dir |-> flags.dir /\ ~flags.cancel,
                   clear |-> flags.cancel]
  <2>2. f \in Finals /\ f.run = flags.job /\ (f.status = "stopped" => flags.stop)
    BY <1>1, <2>1 DEF Finals, Fields, Endings
  <2>3. Settle(f)
    BY <2>1
  <2> HIDE DEF f
  <2>4. QED
    BY <1>1, <1>2, <1>3, <1>7, <2>2, <2>3 DEF e
<1>8. CASE e \in {"complete", "cut", "stopped"}
  <2>1. HandleEnd(e)
    BY <1>2, <1>8
  <2>2. PICK d \in BOOLEAN :
          Settle([run |-> flags.job,
                  status |-> IF flags.stop \/ e = "stopped" THEN "stopped" ELSE "completed",
                  dir |-> d /\ ~flags.cancel, clear |-> flags.cancel])
    BY <2>1 DEF HandleEnd
  <2> DEFINE f == [run |-> flags.job,
                   status |-> IF flags.stop \/ e = "stopped" THEN "stopped" ELSE "completed",
                   dir |-> d /\ ~flags.cancel, clear |-> flags.cancel]
  <2>3. /\ f \in Finals /\ f.run = flags.job /\ f.status # "error"
        /\ f.status = "stopped" => flags.stop \/ e = "stopped"
    BY <1>1, <2>2 DEF Finals, Fields, Endings
  <2>4. Settle(f)
    BY <2>2
  <2> HIDE DEF f
  <2>5. QED
    BY <1>1, <1>2, <1>3, <1>8, <2>3, <2>4 DEF e
<1>9. QED
  BY <1>1, <1>4, <1>5, <1>6, <1>7, <1>8 DEF Events

\* A disturbance leaves a record of its own.
LEMMA Faulted ==
  ASSUME ShapeInv, NEW kind, Fault(kind, history)
  PROVE  /\ history' \in Records /\ history'.asked = history.asked
         /\ history'.broken = history.broken
<1>1. history \in Records /\ history.faults < MaxFaults
      /\ history' = [history EXCEPT !.faults = history.faults + 1]
  BY DEF Fault, ShapeInv
<1>2. history.faults + 1 \in 0 .. MaxFaults
  BY <1>1, Basics DEF Records
<1>3. QED
  BY <1>1, <1>2 DEF Records

\* The worker that replaces a stalled one.
LEMMA Respawns ==
  ASSUME ShapeInv, BlameInv, Respawn
  PROVE  /\ pump.pc = "respawn" /\ flags.job \in Runs
         /\ worker' \in Seq(Trainers) /\ Len(worker') = Len(worker) + 1
         /\ DOMAIN worker' = DOMAIN worker \cup {Len(worker')} /\ Len(worker') \notin DOMAIN worker
         /\ worker'[Len(worker')] = NewWorker(flags.job) /\ worker' # <<>>
         /\ \A j \in DOMAIN worker :
              /\ worker'[j].run = worker[j].run /\ worker'[j].phase = worker[j].phase
              /\ worker'[j].watch = worker[j].watch /\ worker'[j].fin = worker[j].fin
              /\ worker'[j].out \in {worker[j].out, <<>>}
              /\ worker'[j].told \in {worker[j].told, FALSE}
         /\ proc' = Len(worker') /\ chan' = Len(worker') /\ SameRun /\ flags'.training = flags.training
         /\ flags'.respawn = flags.respawn
         /\ spawning' = FALSE /\ pumping' = TRUE /\ pump' = Pump
         /\ history' \in Records /\ history'.asked = history.asked
         /\ history'.broken = history.broken
         /\ UNCHANGED <<payload, loop, row>>
<1>1. /\ pump.pc = "respawn" /\ worker' = Append(Forgotten, NewWorker(flags.job))
      /\ proc' = Len(worker') /\ chan' = Len(worker')
      /\ flags' = [flags EXCEPT !.inLoad = FALSE]
      /\ spawning' = FALSE /\ pumping' = TRUE /\ pump' = Pump
      /\ history' = [history EXCEPT !.replaced = @ \cup {flags.job}]
      /\ UNCHANGED <<payload, loop, row>>
  BY DEF Respawn
<1>2. flags \in Fields /\ history \in Records /\ flags.job \in history.broken
  BY <1>1 DEF ShapeInv, BlameInv
<1>3. flags.job \in Runs
  BY <1>2 DEF Records
<1>4. SameRun /\ flags'.training = flags.training /\ flags'.respawn = flags.respawn
  BY <1>1, <1>2 DEF SameRun, Fields
<1>5. history' \in Records /\ history'.asked = history.asked /\ history'.broken = history.broken
  BY <1>1, <1>2, <1>3 DEF Records
<1> DEFINE q == Forgotten
<1>6. /\ q \in Seq(Trainers) /\ Len(q) = Len(worker) /\ DOMAIN q = DOMAIN worker
      /\ \A j \in DOMAIN worker :
           /\ q[j].run = worker[j].run /\ q[j].phase = worker[j].phase
           /\ q[j].watch = worker[j].watch /\ q[j].fin = worker[j].fin
           /\ q[j].out \in {worker[j].out, <<>>} /\ q[j].told \in {worker[j].told, FALSE}
  BY Forgets
<1>7. worker' = Append(q, NewWorker(flags.job))
  BY <1>1
<1> HIDE DEF q
<1>8. /\ worker' \in Seq(Trainers) /\ Len(worker') = Len(worker) + 1
      /\ DOMAIN worker' = DOMAIN worker \cup {Len(worker')} /\ Len(worker') \notin DOMAIN worker
      /\ worker'[Len(worker')] = NewWorker(flags.job) /\ worker' # <<>>
      /\ \A i \in DOMAIN worker : worker'[i] = q[i]
  BY <1>3, <1>6, <1>7, Spawns
<1>9. QED
  BY <1>1, <1>3, <1>4, <1>5, <1>6, <1>8

\* A start spawns the worker of the next run.
LEMMA SpawnsTrainer ==
  ASSUME ShapeInv, flags.job < MaxRuns, worker' = Append(worker, NewWorker(flags.job + 1))
  PROVE  /\ flags.job + 1 \in Runs
         /\ worker' \in Seq(Trainers) /\ Len(worker') = Len(worker) + 1
         /\ DOMAIN worker' = DOMAIN worker \cup {Len(worker')} /\ Len(worker') \notin DOMAIN worker
         /\ worker'[Len(worker')] = NewWorker(flags.job + 1) /\ worker' # <<>>
         /\ \A i \in DOMAIN worker : worker'[i] = worker[i]
<1>1. flags \in Fields /\ worker \in Seq(Trainers)
  BY DEF ShapeInv
<1>2. flags.job + 1 \in Runs
  BY <1>1, Basics DEF Fields, Runs
<1>3. QED
  BY <1>1, <1>2, Spawns

\* A stop is put on the queue of the current worker.
LEMMA Puts ==
  ASSUME ShapeInv, HandleInv, PutStop
  PROVE  /\ loop = "put" /\ loop' = "watch" /\ flags.job \in Runs
         /\ chan \in DOMAIN worker /\ worker[chan].run = flags.job
         /\ worker' \in Seq(Trainers) /\ Len(worker') = Len(worker) /\ DOMAIN worker' = DOMAIN worker
         /\ \A j \in DOMAIN worker \ {chan} : worker'[j] = worker[j]
         /\ worker'[chan].run = worker[chan].run /\ worker'[chan].phase = worker[chan].phase
         /\ worker'[chan].out = worker[chan].out /\ worker'[chan].watch = worker[chan].watch
         /\ worker'[chan].fin = worker[chan].fin
         /\ flags' \in Fields /\ flags'.job = flags.job /\ flags'.cancel = flags.cancel
         /\ flags'.training = flags.training /\ flags'.xetUsed = flags.xetUsed
         /\ flags'.respawn = flags.respawn
         /\ history' \in Records /\ history'.asked = history.asked \cup {flags.job}
         /\ history'.broken = history.broken
         /\ UNCHANGED <<proc, chan, payload, spawning, pumping, pump, row>>
<1>1. /\ loop = "put" /\ loop' = "watch" /\ flags' = [flags EXCEPT !.stop = TRUE]
      /\ worker' = [worker EXCEPT ![chan].told = TRUE]
      /\ history' = [history EXCEPT !.asked = @ \cup {flags.job}]
      /\ UNCHANGED <<proc, chan, payload, spawning, pumping, pump, row>>
  BY DEF PutStop, LoopAt
<1>2. flags \in Fields /\ history \in Records /\ worker \in Seq(Trainers)
  BY DEF ShapeInv
<1>3. flags.job # 0 /\ chan # 0 /\ worker[chan].run = flags.job
  BY <1>1 DEF HandleInv
<1>4. chan \in DOMAIN worker /\ worker[chan] \in Trainers
  BY <1>3, Workers
<1>5. flags.job \in Runs
  BY <1>2, <1>3, Basics DEF Fields
<1>6. /\ flags' \in Fields /\ flags'.job = flags.job /\ flags'.cancel = flags.cancel
      /\ flags'.training = flags.training /\ flags'.xetUsed = flags.xetUsed
      /\ flags'.respawn = flags.respawn
  BY <1>1, <1>2 DEF Fields
<1>7. /\ history' \in Records /\ history'.asked = history.asked \cup {flags.job}
      /\ history'.broken = history.broken
  BY <1>1, <1>2, <1>5 DEF Records
<1> DEFINE v == [worker[chan] EXCEPT !.told = TRUE]
<1>8. /\ v \in Trainers /\ v.run = worker[chan].run /\ v.phase = worker[chan].phase
      /\ v.out = worker[chan].out /\ v.watch = worker[chan].watch /\ v.fin = worker[chan].fin
  BY <1>4 DEF Trainers
<1>9. worker' = [worker EXCEPT ![chan] = v]
  BY <1>1, <1>4
<1> HIDE DEF v
<1>10. Becomes(chan, v)
  BY <1>4, <1>8, <1>9, Updated
<1>11. QED
  BY <1>1, <1>3, <1>4, <1>5, <1>6, <1>7, <1>8, <1>10 DEF Becomes

\* A living worker that is stopped gets its watchdog.
LEMMA StartsWatch ==
  ASSUME ShapeInv, StartWatchdog
  PROVE  /\ loop = "watch" /\ loop' = "idle"
         /\ worker' \in Seq(Trainers) /\ Len(worker') = Len(worker) /\ DOMAIN worker' = DOMAIN worker
         /\ \A j \in DOMAIN worker :
              /\ worker'[j].run = worker[j].run /\ worker'[j].phase = worker[j].phase
              /\ worker'[j].out = worker[j].out /\ worker'[j].told = worker[j].told
              /\ worker'[j].fin = worker[j].fin
              /\ \/ worker'[j].watch = worker[j].watch
                 \/ worker'[j].watch = "watch" /\ j = proc
         /\ UNCHANGED <<proc, chan, flags, payload, spawning, pumping, pump, row, history>>
<1>1. /\ loop = "watch" /\ loop' = "idle"
      /\ worker' = IF Alive(proc) /\ worker[proc].watch = "none"
                     THEN [worker EXCEPT ![proc].watch = "watch"] ELSE worker
      /\ UNCHANGED <<proc, chan, flags, payload, spawning, pumping, pump, row, history>>
  BY DEF StartWatchdog, LoopAt, parent
<1>2. CASE Alive(proc) /\ worker[proc].watch = "none"
  <2>1. proc \in DOMAIN worker /\ worker[proc] \in Trainers
    BY <1>2, Workers DEF Alive
  <2> DEFINE v == [worker[proc] EXCEPT !.watch = "watch"]
  <2>2. /\ v \in Trainers /\ v.run = worker[proc].run /\ v.phase = worker[proc].phase
        /\ v.out = worker[proc].out /\ v.told = worker[proc].told /\ v.fin = worker[proc].fin
        /\ v.watch = "watch"
    BY <2>1 DEF Trainers, WatchPhases
  <2>3. worker' = [worker EXCEPT ![proc] = v]
    BY <1>1, <1>2, <2>1
  <2> HIDE DEF v
  <2>4. Becomes(proc, v)
    BY <2>1, <2>2, <2>3, Updated
  <2>5. QED
    BY <1>1, <2>1, <2>2, <2>4 DEF Becomes
<1>3. CASE ~(Alive(proc) /\ worker[proc].watch = "none")
  <2>1. worker' = worker
    BY <1>1, <1>3
  <2>2. QED
    BY <1>1, <2>1 DEF ShapeInv
<1>4. QED
  BY <1>2, <1>3

\* A cancel is marked in the row and the fields together, or nowhere.
LEMMA Cancels ==
  ASSUME ShapeInv, HandleInv, CancelRun
  PROVE  /\ loop = "cancel" /\ flags.job \in Runs
         /\ flags' \in Fields /\ flags'.job = flags.job
         /\ flags'.training = flags.training /\ flags'.xetUsed = flags.xetUsed
         /\ flags'.respawn = flags.respawn
         /\ row' \in [Runs -> Rows]
         /\ \A r \in Runs : row'[r] = row[r] \/ (row'[r].status = row[r].status /\ ~row'[r].dir)
         /\ history' \in Records /\ history'.broken = history.broken
         /\ \/ /\ loop' = "put" /\ history'.asked = history.asked \cup {flags.job}
            \/ /\ loop' = "idle" /\ history'.asked = history.asked
               /\ flags'.stop = flags.stop /\ flags'.cancel = flags.cancel
         /\ UNCHANGED <<worker, proc, chan, payload, spawning, pumping, pump>>
<1>1. loop = "cancel" /\ UNCHANGED <<worker, proc, chan, payload, spawning, pumping, pump>>
  BY DEF CancelRun
<1>2. flags \in Fields /\ history \in Records /\ row \in [Runs -> Rows]
  BY DEF ShapeInv
<1>3. flags.job \in Runs
  BY <1>1, <1>2, Basics DEF HandleInv, Fields
<1>4. CASE /\ row' = [row EXCEPT ![flags.job].cancelled = TRUE, ![flags.job].dir = FALSE]
           /\ flags' = [flags EXCEPT !.stop = TRUE, !.cancel = TRUE, !.dir = FALSE]
           /\ history' = [history EXCEPT !.asked = @ \cup {flags.job}]
           /\ LoopAt("put")
  <2>1. /\ flags' \in Fields /\ flags'.job = flags.job
        /\ flags'.training = flags.training /\ flags'.xetUsed = flags.xetUsed
        /\ flags'.respawn = flags.respawn
    BY <1>2, <1>4 DEF Fields
  <2>2. /\ history' \in Records /\ history'.broken = history.broken
        /\ history'.asked = history.asked \cup {flags.job}
    BY <1>2, <1>3, <1>4 DEF Records
  <2> DEFINE v == [row[flags.job] EXCEPT !.cancelled = TRUE, !.dir = FALSE]
  <2>3. v \in Rows /\ v.status = row[flags.job].status /\ ~v.dir
    BY <1>2, <1>3 DEF Rows
  <2>4. row' = [row EXCEPT ![flags.job] = v]
    BY <1>2, <1>3, <1>4
  <2> HIDE DEF v
  <2>5. /\ row' \in [Runs -> Rows]
        /\ \A r \in Runs : row'[r] = row[r] \/ (row'[r].status = row[r].status /\ ~row'[r].dir)
    BY <1>2, <1>3, <2>3, <2>4
  <2>6. loop' = "put"
    BY <1>4 DEF LoopAt
  <2>7. QED
    BY <1>1, <1>3, <2>1, <2>2, <2>5, <2>6
<1>5. CASE LoopAt("idle") /\ UNCHANGED <<flags, row>> /\ (UNCHANGED history \/ Fault("db", history))
  <2>1. history' \in Records /\ history'.broken = history.broken /\ history'.asked = history.asked
    BY <1>2, <1>5, Faulted
  <2>2. QED
    BY <1>1, <1>2, <1>3, <1>5, <2>1 DEF LoopAt
<1>6. QED
  BY <1>4, <1>5 DEF CancelRun

\* The event loop finds a run only when there is one.
LEMMA ActiveRun ==
  ASSUME ShapeInv, StartInv, HandleInv, loop = "idle", Active
  PROVE  flags.job # 0
<1>1. chan # 0 => flags.job # 0
  BY DEF HandleInv
<1>2. CASE spawning
  <2>1. pump.pc = "respawn"
    BY <1>2 DEF StartInv, Startings
  <2>2. QED
    BY <1>1, <2>1 DEF HandleInv
<1>3. CASE Alive(proc)
  BY <1>1, <1>3 DEF Alive, HandleInv
<1>4. CASE flags.training
  BY <1>4 DEF HandleInv
<1>5. QED
  BY <1>2, <1>3, <1>4 DEF Active

-----------------------------------------------------------------------------
(* The types.                                                              *)

\* The steps, one by one.
LEMMA Steps ==
  ASSUME [Next]_vars
  PROVE  \/ UNCHANGED vars
         \/ \E i \in DOMAIN worker : WorkerStep(i)
         \/ \E i \in DOMAIN worker : WatchStep(i)
         \/ QuietPumpStep \/ HandleEvent \/ Reap \/ Respawn
         \/ Start \/ SpawnTrainer \/ ResetFields \/ CreateRow \/ Install
         \/ StopAndSave \/ Cancel \/ MarkStop \/ CancelRun \/ PutStop \/ StartWatchdog
         \/ Reset \/ ClearState \/ EnsurePumpAlive
BY DEF Next, PumpStep, LoopStep, QuietPumpStep

LEMMA ShapeStep ==
  ASSUME IInv, [Next]_vars
  PROVE  ShapeInv'
<1> USE DEF parent
<1>1. /\ ShapeInv /\ StartInv /\ HandleInv /\ AliveInv /\ BlameInv /\ EndInv
      /\ worker \in Seq(Trainers) /\ Len(worker) \in Nat
      /\ proc \in 0 .. Len(worker) /\ chan \in 0 .. Len(worker)
      /\ flags \in Fields /\ payload \in Finals /\ flags.job \in 0 .. MaxRuns
      /\ spawning \in BOOLEAN /\ pumping \in BOOLEAN
      /\ pump \in Pumps /\ loop \in LoopPlaces
      /\ row \in [Runs -> Rows] /\ history \in Records
      /\ (pump.pc = "finish" => pump.fin.run # 0)
      /\ \A i \in DOMAIN worker : worker[i].watch = "finish" => worker[i].fin.run # 0
  BY Workers DEF IInv, ShapeInv, Fields
<1>2. CASE UNCHANGED vars
  BY <1>1, <1>2 DEF vars, ShapeInv
<1>3. ASSUME NEW i \in DOMAIN worker, WorkerStep(i) PROVE ShapeInv'
  BY <1>1, <1>3, WorkerSteps DEF ShapeInv
<1>4. ASSUME NEW i \in DOMAIN worker, WatchStep(i) PROVE ShapeInv'
  <2>1. proc' \in 0 .. Len(worker) /\ flags' \in Fields
    BY <1>1, <1>4, WatchSteps DEF SameRun
  <2>2. \A j \in DOMAIN worker' : worker'[j].watch = "finish" => worker'[j].fin.run # 0
    BY <1>1, <1>4, WatchSteps
  <2>3. /\ worker' \in Seq(Trainers) /\ Len(worker') = Len(worker)
        /\ row' \in [Runs -> Rows] /\ history' \in Records
        /\ UNCHANGED <<chan, payload, spawning, pumping, pump, loop>>
    BY <1>1, <1>4, WatchSteps
  <2>4. QED
    BY <1>1, <2>1, <2>2, <2>3 DEF ShapeInv
<1>5. CASE QuietPumpStep
  BY <1>1, <1>5, QuietPumps DEF ShapeInv, SameRun, PumpGoesOn
<1>6. CASE HandleEvent
  <2>1. /\ flags' \in Fields /\ payload' \in Finals /\ pump' \in Pumps /\ pump'.pc # "finish"
        /\ UNCHANGED <<proc, chan, spawning, pumping, loop, row, history>>
    BY <1>1, <1>6, Handles
  <2>2. /\ worker' \in Seq(Trainers) /\ Len(worker') = Len(worker) /\ DOMAIN worker' = DOMAIN worker
        /\ \A j \in DOMAIN worker : worker'[j].watch = worker[j].watch /\ worker'[j].fin = worker[j].fin
    BY <1>1, <1>6, Takes
  <2>3. QED
    BY <1>1, <2>1, <2>2 DEF ShapeInv
<1>7. CASE Reap
  <2>1. /\ worker' = Signalled(proc) /\ spawning' = TRUE /\ pump' = [NoPump EXCEPT !.pc = "respawn"]
        /\ UNCHANGED <<proc, chan, flags, payload, pumping, loop, row, history>>
    BY <1>7 DEF Reap
  <2>2. pump' \in Pumps /\ pump'.pc # "finish"
    BY <2>1, Basics DEF Pumps, PumpPhases
  <2>3. QED
    BY <1>1, <2>1, <2>2, Signals DEF ShapeInv
<1>8. CASE Respawn
  <2>1. /\ worker' \in Seq(Trainers) /\ Len(worker') = Len(worker) + 1
        /\ DOMAIN worker' = DOMAIN worker \cup {Len(worker')}
        /\ worker'[Len(worker')] = NewWorker(flags.job)
        /\ \A j \in DOMAIN worker : worker'[j].watch = worker[j].watch /\ worker'[j].fin = worker[j].fin
        /\ proc' = Len(worker') /\ chan' = Len(worker') /\ flags' \in Fields
        /\ spawning' = FALSE /\ pumping' = TRUE /\ pump' = Pump /\ history' \in Records
        /\ UNCHANGED <<payload, loop, row>>
    BY <1>1, <1>8, Respawns DEF SameRun
  <2>2. NewWorker(flags.job).watch = "none" /\ Pump \in Pumps /\ Pump.pc = "read"
    BY Basics DEF NewWorker
  <2>3. \A j \in DOMAIN worker' : worker'[j].watch = "finish" => worker'[j].fin.run # 0
    BY <1>1, <2>1, <2>2
  <2>4. proc' \in 0 .. Len(worker') /\ chan' \in 0 .. Len(worker')
    BY <1>1, <2>1
  <2>5. pump' \in Pumps /\ pump'.pc # "finish"
    BY <2>1, <2>2
  <2>6. QED
    BY <1>1, <2>1, <2>3, <2>4, <2>5 DEF ShapeInv
<1>9. CASE Start
  <2>1. /\ loop' = "spawn" /\ pumping' = FALSE /\ spawning' = TRUE
        /\ UNCHANGED <<worker, proc, chan, flags, payload, pump, row, history>>
    BY <1>9 DEF Start, LoopAt
  <2>2. QED
    BY <1>1, <2>1 DEF ShapeInv, LoopPlaces
<1>10. CASE SpawnTrainer
  <2>1. /\ loop = "spawn" /\ UNCHANGED <<proc, chan, flags, payload, pumping, pump, row>>
        /\ \/ /\ loop' = "reset" /\ UNCHANGED <<spawning, history>>
              /\ worker' = Append(worker, NewWorker(flags.job + 1))
           \/ /\ Fault("sidecar", history)
              /\ loop' = "idle" /\ spawning' = FALSE /\ UNCHANGED worker
    BY <1>10 DEF SpawnTrainer, LoopAt
  <2>2. CASE worker' = Append(worker, NewWorker(flags.job + 1)) /\ loop' = "reset"
             /\ UNCHANGED <<spawning, history>>
    <3>1. flags.job < MaxRuns
      BY <1>1, <2>1 DEF StartInv
    <3>2. /\ worker' \in Seq(Trainers) /\ Len(worker') = Len(worker) + 1
          /\ DOMAIN worker' = DOMAIN worker \cup {Len(worker')}
          /\ worker'[Len(worker')] = NewWorker(flags.job + 1)
          /\ \A j \in DOMAIN worker : worker'[j] = worker[j]
      BY <1>1, <2>2, <3>1, SpawnsTrainer
    <3>3. NewWorker(flags.job + 1).watch = "none" /\ "reset" \in LoopPlaces
      BY DEF NewWorker, LoopPlaces
    <3>4. QED
      BY <1>1, <2>1, <2>2, <3>2, <3>3 DEF ShapeInv
  <2>3. CASE Fault("sidecar", history) /\ loop' = "idle" /\ spawning' = FALSE /\ UNCHANGED worker
    BY <1>1, <2>1, <2>3, Faulted DEF ShapeInv, LoopPlaces
  <2>4. QED
    BY <2>1, <2>2, <2>3
<1>11. CASE ResetFields
  <2>1. /\ flags' = Fresh(flags.job + 1) /\ payload' = NoFinal /\ loop' = "row" /\ loop = "reset"
        /\ UNCHANGED <<worker, proc, chan, spawning, pumping, pump, row, history>>
    BY <1>11 DEF ResetFields, LoopAt
  <2>2. flags.job + 1 \in 0 .. MaxRuns
    BY <1>1, <2>1, Basics DEF StartInv
  <2>3. flags' \in Fields /\ payload' \in Finals
    BY <2>1, <2>2, Basics
  <2>4. QED
    BY <1>1, <2>1, <2>3 DEF ShapeInv, LoopPlaces
<1>12. CASE CreateRow
  <2>1. /\ EnsureCreated /\ loop' = "install"
        /\ UNCHANGED <<worker, proc, chan, payload, spawning, pumping, pump>>
    BY <1>12 DEF CreateRow, LoopAt
  <2>2. flags' \in Fields /\ row' \in [Runs -> Rows] /\ history' \in Records
    BY <1>1, <2>1, Creates
  <2>3. QED
    BY <1>1, <2>1, <2>2 DEF ShapeInv, LoopPlaces
<1>13. CASE Install
  <2>1. /\ worker' = Forgotten /\ proc' = Len(worker) /\ chan' = Len(worker)
        /\ pump' = Pump /\ pumping' = TRUE /\ spawning' = FALSE /\ loop' = "idle"
        /\ UNCHANGED <<flags, payload, row, history>>
    BY <1>13 DEF Install, LoopAt
  <2>2. /\ worker' \in Seq(Trainers) /\ Len(worker') = Len(worker) /\ DOMAIN worker' = DOMAIN worker
        /\ \A j \in DOMAIN worker : worker'[j].watch = worker[j].watch /\ worker'[j].fin = worker[j].fin
    BY <1>1, <2>1, Forgets
  <2>3. pump' \in Pumps /\ pump'.pc # "finish"
    BY <2>1, Basics
  <2>4. /\ proc' \in 0 .. Len(worker') /\ chan' \in 0 .. Len(worker')
        /\ \A j \in DOMAIN worker' : worker'[j].watch = "finish" => worker'[j].fin.run # 0
        /\ loop' \in LoopPlaces
    BY <1>1, <2>1, <2>2 DEF LoopPlaces
  <2>5. QED
    BY <1>1, <2>1, <2>2, <2>3, <2>4 DEF ShapeInv
<1>14. CASE StopAndSave \/ Cancel
  <2>1. /\ history.stops < MaxStops /\ history' = [history EXCEPT !.stops = history.stops + 1]
        /\ loop' \in LoopPlaces
        /\ UNCHANGED <<worker, proc, chan, flags, payload, spawning, pumping, pump, row>>
    BY <1>1, <1>14 DEF StopAndSave, Cancel, LoopAt, LoopPlaces, Records
  <2>2. history.stops + 1 \in 0 .. MaxStops
    BY <1>1, <2>1, Basics DEF Records
  <2>3. history' \in Records
    BY <1>1, <2>1, <2>2 DEF Records
  <2>4. QED
    BY <1>1, <2>1, <2>3 DEF ShapeInv
<1>15. CASE MarkStop
  <2>1. /\ EnsureCreated /\ loop' = "cancel"
        /\ UNCHANGED <<worker, proc, chan, payload, spawning, pumping, pump>>
    BY <1>15 DEF MarkStop, LoopAt
  <2>2. flags' \in Fields /\ row' \in [Runs -> Rows] /\ history' \in Records
    BY <1>1, <2>1, Creates
  <2>3. QED
    BY <1>1, <2>1, <2>2 DEF ShapeInv, LoopPlaces
<1>16. CASE CancelRun
  BY <1>1, <1>16, Cancels DEF ShapeInv, LoopPlaces
<1>17. CASE PutStop
  <2>1. \A j \in DOMAIN worker : worker'[j].watch = worker[j].watch /\ worker'[j].fin = worker[j].fin
    BY <1>1, <1>17, Puts
  <2>2. QED
    BY <1>1, <1>17, <2>1, Puts DEF ShapeInv, LoopPlaces
<1>18. CASE StartWatchdog
  BY <1>1, <1>18, StartsWatch DEF ShapeInv, LoopPlaces
<1>19. CASE Reset
  <2>1. /\ Fault("reset", history) /\ loop' = "clear"
        /\ worker' = IF Active THEN Signalled(proc) ELSE worker
        /\ UNCHANGED <<proc, chan, flags, payload, spawning, pumping, pump, row>>
    BY <1>19 DEF Reset, LoopAt
  <2>2. /\ worker' \in Seq(Trainers) /\ Len(worker') = Len(worker) /\ DOMAIN worker' = DOMAIN worker
        /\ \A j \in DOMAIN worker : worker'[j].watch = worker[j].watch /\ worker'[j].fin = worker[j].fin
    <3>1. CASE Active
      BY <1>1, <2>1, <3>1, Signals
    <3>2. CASE ~Active
      BY <1>1, <2>1, <3>2
    <3>3. QED
      BY <3>1, <3>2
  <2>3. QED
    BY <1>1, <2>1, <2>2, Faulted DEF ShapeInv, LoopPlaces
<1>20. CASE ClearState
  <2>1. /\ flags' = [flags EXCEPT !.stop = FALSE, !.training = FALSE] /\ loop' = "idle"
        /\ UNCHANGED <<worker, proc, chan, payload, spawning, pumping, pump, row, history>>
    BY <1>20 DEF ClearState, LoopAt
  <2>2. flags' \in Fields
    BY <1>1, <2>1 DEF Fields
  <2>3. QED
    BY <1>1, <2>1, <2>2 DEF ShapeInv, LoopPlaces
<1>21. CASE EnsurePumpAlive
  <2>1. pump' = Pump
        /\ UNCHANGED <<worker, proc, chan, flags, payload, spawning, pumping, loop, row, history>>
    BY <1>21 DEF EnsurePumpAlive
  <2>2. QED
    BY <1>1, <2>1, Basics DEF ShapeInv
<1>22. QED
  BY <1>2, <1>3, <1>4, <1>5, <1>6, <1>7, <1>8, <1>9, <1>10, <1>11, <1>12, <1>13, <1>14, <1>15,
     <1>16, <1>17, <1>18, <1>19, <1>20, <1>21, Steps

-----------------------------------------------------------------------------
(* A start is alone, and the handles are one worker's.                     *)

LEMMA StartStep ==
  ASSUME IInv, [Next]_vars, ShapeInv'
  PROVE  StartInv'
<1> USE DEF parent, Startings, Spawned, Newest
<1>1. /\ ShapeInv /\ StartInv /\ HandleInv /\ AliveInv /\ BlameInv /\ EndInv
      /\ Len(worker) \in Nat /\ DOMAIN worker = 1 .. Len(worker) /\ 0 \notin DOMAIN worker
      /\ proc \in 0 .. Len(worker) /\ chan \in 0 .. Len(worker) /\ flags \in Fields
  BY Workers DEF IInv, ShapeInv
<1>2. ASSUME loop' \notin Startings, spawning' => pump'.pc = "respawn"
      PROVE  StartInv'
  BY <1>2 DEF StartInv
<1>3. ASSUME pump.pc # "none" PROVE loop \notin Startings
  BY <1>1, <1>3 DEF StartInv
<1>4. CASE UNCHANGED vars
  BY <1>1, <1>4 DEF vars, StartInv, Alive
<1>5. ASSUME NEW i \in DOMAIN worker, WorkerStep(i) PROVE StartInv'
  <2>1. /\ UNCHANGED <<proc, chan, flags, spawning, pump, loop>> /\ Len(worker') = Len(worker)
        /\ \A j \in DOMAIN worker \ {i} : worker'[j] = worker[j]
        /\ worker'[i].run = worker[i].run /\ worker'[i].watch = worker[i].watch
        /\ worker[i].phase # "dead"
    BY <1>1, <1>5, WorkerSteps
  <2>2. ~Alive(proc) => ~Alive(proc)'
    BY <1>1, <2>1 DEF Alive
  <2>3. loop \in Spawned => Len(worker) \in DOMAIN worker
    BY <1>1 DEF StartInv
  <2>4. QED
    BY <1>1, <2>1, <2>2, <2>3 DEF StartInv
<1>6. ASSUME NEW i \in DOMAIN worker, WatchStep(i) PROVE StartInv'
  <2>1. /\ UNCHANGED <<chan, spawning, pump, loop>> /\ Len(worker') = Len(worker)
        /\ \A j \in DOMAIN worker \ {i} : worker'[j] = worker[j]
        /\ worker'[i].phase \in {worker[i].phase, "dead"} /\ worker[i].watch # "none"
        /\ proc' \in {proc, 0} /\ flags'.job = flags.job
    BY <1>1, <1>6, WatchSteps DEF SameRun
  <2>2. ~Alive(proc) => ~Alive(proc)'
    BY <1>1, <2>1 DEF Alive
  <2>3. loop \in Spawned => Len(worker) \in DOMAIN worker
    BY <1>1 DEF StartInv
  <2>4. QED
    BY <1>1, <2>1, <2>2, <2>3 DEF StartInv
<1>7. CASE QuietPumpStep
  BY <1>1, <1>2, <1>3, <1>7, QuietPumps
<1>8. CASE HandleEvent
  <2>1. UNCHANGED <<loop, spawning>> /\ pump.pc \in {"read", "exit"}
    BY <1>1, <1>8, Handles
  <2>2. loop \notin Startings /\ ~spawning
    BY <1>1, <1>3, <2>1 DEF StartInv
  <2>3. QED
    BY <1>2, <2>1, <2>2
<1>9. CASE Reap
  <2>1. pump.pc = "reap" /\ pump' = [NoPump EXCEPT !.pc = "respawn"] /\ UNCHANGED loop
    BY <1>9 DEF Reap
  <2>2. pump'.pc = "respawn"
    BY <2>1 DEF NoPump
  <2>3. QED
    BY <1>2, <1>3, <2>1, <2>2
<1>10. CASE Respawn
  <2>1. pump.pc = "respawn" /\ UNCHANGED loop /\ spawning' = FALSE
    BY <1>1, <1>10, Respawns
  <2>2. QED
    BY <1>2, <1>3, <2>1
<1>11. CASE Start
  <2>1. /\ loop' = "spawn" /\ spawning' = TRUE /\ flags.job < MaxRuns /\ pump.pc = "none"
        /\ ~Alive(proc) /\ UNCHANGED <<worker, proc, flags, pump>>
    BY <1>11 DEF Start, LoopAt, Active
  <2>2. ~Alive(proc)'
    BY <2>1 DEF Alive
  <2>3. QED
    BY <2>1, <2>2 DEF StartInv
<1>12. CASE SpawnTrainer
  <2>1. /\ loop = "spawn" /\ UNCHANGED <<proc, chan, flags, payload, pumping, pump, row>>
        /\ \/ /\ loop' = "reset" /\ UNCHANGED <<spawning, history>>
              /\ worker' = Append(worker, NewWorker(flags.job + 1))
           \/ loop' = "idle" /\ spawning' = FALSE
    BY <1>12 DEF SpawnTrainer, LoopAt
  <2>2. CASE loop' = "reset" /\ UNCHANGED spawning
             /\ worker' = Append(worker, NewWorker(flags.job + 1))
    <3>1. flags.job < MaxRuns /\ pump.pc = "none" /\ spawning /\ ~Alive(proc)
      BY <1>1, <2>1 DEF StartInv
    <3>2. /\ Len(worker') = Len(worker) + 1
          /\ worker'[Len(worker')] = NewWorker(flags.job + 1)
          /\ \A j \in DOMAIN worker : worker'[j] = worker[j]
      BY <1>1, <2>2, <3>1, SpawnsTrainer
    <3>3. ~Alive(proc)'
      BY <1>1, <2>1, <3>1, <3>2 DEF Alive
    <3>4. NewWorker(flags.job + 1).watch = "none" /\ NewWorker(flags.job + 1).run = flags.job + 1
      BY DEF NewWorker
    <3>5. chan' < Len(worker') /\ flags'.job = flags.job
      BY <1>1, <2>1, <3>2
    <3>6. worker'[Len(worker')].watch = "none" /\ worker'[Len(worker')].run = flags.job + 1
      BY <3>2, <3>4
    <3>7. QED
      BY <2>1, <2>2, <3>1, <3>3, <3>5, <3>6 DEF StartInv
  <2>3. CASE loop' = "idle" /\ spawning' = FALSE
    BY <1>2, <2>3
  <2>4. QED
    BY <2>1, <2>2, <2>3
<1>13. CASE ResetFields
  <2>1. /\ flags' = Fresh(flags.job + 1) /\ loop' = "row" /\ loop = "reset"
        /\ UNCHANGED <<worker, proc, chan, spawning, pump>>
    BY <1>13 DEF ResetFields, LoopAt
  <2>2. flags'.job = flags.job + 1 /\ (~Alive(proc) => ~Alive(proc)')
    BY <2>1 DEF Fresh, Alive
  <2>3. QED
    BY <1>1, <2>1, <2>2 DEF StartInv
<1>14. CASE CreateRow
  <2>1. /\ EnsureCreated /\ loop' = "install" /\ loop = "row"
        /\ UNCHANGED <<worker, proc, chan, spawning, pump>>
    BY <1>14 DEF CreateRow, LoopAt
  <2>2. flags'.job = flags.job /\ (~Alive(proc) => ~Alive(proc)')
    BY <1>1, <2>1, Creates DEF Alive
  <2>3. QED
    BY <1>1, <2>1, <2>2 DEF StartInv
<1>15. CASE Install
  <2>1. loop' = "idle" /\ spawning' = FALSE
    BY <1>15 DEF Install, LoopAt
  <2>2. QED
    BY <1>2, <2>1
<1>16. CASE \/ StopAndSave \/ Cancel \/ MarkStop \/ CancelRun \/ PutStop \/ StartWatchdog
            \/ Reset \/ ClearState
  <2>1. /\ UNCHANGED <<spawning, pump>> /\ loop' \notin Startings /\ loop \notin Startings
    BY <1>16 DEF StopAndSave, Cancel, MarkStop, CancelRun, PutStop, StartWatchdog, Reset, ClearState, LoopAt
  <2>2. QED
    BY <1>1, <1>2, <2>1 DEF StartInv
<1>17. CASE EnsurePumpAlive
  <2>1. loop = "idle" /\ ~spawning /\ UNCHANGED <<loop, spawning>>
    BY <1>17 DEF EnsurePumpAlive
  <2>2. QED
    BY <1>2, <2>1
<1>18. QED
  BY <1>4, <1>5, <1>6, <1>7, <1>8, <1>9, <1>10, <1>11, <1>12, <1>13, <1>14, <1>15,
     <1>16, <1>17, Steps

LEMMA HandleStep ==
  ASSUME IInv, [Next]_vars, ShapeInv'
  PROVE  HandleInv'
<1> USE DEF parent
<1>1. /\ ShapeInv /\ StartInv /\ HandleInv /\ AliveInv /\ BlameInv /\ EndInv
      /\ Len(worker) \in Nat /\ DOMAIN worker = 1 .. Len(worker)
      /\ chan # 0 => chan \in DOMAIN worker
      /\ flags \in Fields /\ flags.job \in 0 .. MaxRuns /\ flags.training \in BOOLEAN
  BY Workers DEF IInv, ShapeInv, Fields
<1>2. /\ proc \in {0, chan}
      /\ pump.pc # "none" => chan # 0
      /\ loop \notin {"row", "install"} => (chan # 0 <=> flags.job # 0)
      /\ loop \notin {"row", "install"} /\ chan # 0 => worker[chan].run = flags.job
      /\ loop \in {"mark", "cancel", "put", "watch", "row", "install"} \/ flags.training =>
           flags.job # 0
  BY <1>1 DEF HandleInv
<1>3. ASSUME UNCHANGED <<chan, loop>>, proc' \in {0, chan}, flags'.job = flags.job,
             flags'.training => flags.training, pump.pc = "none" => pump'.pc = "none",
             \A j \in DOMAIN worker : worker'[j].run = worker[j].run
      PROVE  HandleInv'
  BY <1>1, <1>2, <1>3 DEF HandleInv
<1>4. CASE UNCHANGED vars
  BY <1>2, <1>3, <1>4 DEF vars
<1>5. ASSUME NEW i \in DOMAIN worker, WorkerStep(i) PROVE HandleInv'
  <2>1. /\ UNCHANGED <<proc, chan, flags, pump, loop>>
        /\ \A j \in DOMAIN worker : worker'[j].run = worker[j].run
    BY <1>1, <1>5, WorkerSteps
  <2>2. QED
    BY <1>2, <1>3, <2>1
<1>6. ASSUME NEW i \in DOMAIN worker, WatchStep(i) PROVE HandleInv'
  <2>1. /\ UNCHANGED <<chan, pump, loop>> /\ proc' \in {proc, 0}
        /\ \A j \in DOMAIN worker : worker'[j].run = worker[j].run
        /\ flags'.job = flags.job /\ (flags'.training => flags.training)
    BY <1>1, <1>6, WatchSteps DEF SameRun
  <2>2. QED
    BY <1>2, <1>3, <2>1
<1>7. CASE QuietPumpStep
  <2>1. /\ UNCHANGED <<worker, proc, chan, loop>> /\ pump.pc # "none"
        /\ flags'.job = flags.job /\ (flags'.training => flags.training)
    BY <1>1, <1>7, QuietPumps DEF SameRun
  <2>2. QED
    BY <1>2, <1>3, <2>1
<1>8. CASE HandleEvent
  <2>1. /\ UNCHANGED <<proc, chan, loop>> /\ pump.pc # "none"
        /\ flags'.job = flags.job /\ (flags'.training => flags.training)
    BY <1>1, <1>8, Handles
  <2>2. \A j \in DOMAIN worker : worker'[j].run = worker[j].run
    BY <1>1, <1>8, Takes
  <2>3. QED
    BY <1>2, <1>3, <2>1, <2>2
<1>9. CASE Reap
  <2>1. /\ worker' = Signalled(proc) /\ UNCHANGED <<proc, chan, flags, loop>> /\ pump.pc # "none"
    BY <1>9 DEF Reap
  <2>2. \A j \in DOMAIN worker : worker'[j].run = worker[j].run
    BY <1>1, <2>1, Signals DEF ShapeInv
  <2>3. QED
    BY <1>2, <1>3, <2>1, <2>2
<1>10. CASE Respawn
  <2>1. /\ flags.job \in Runs /\ proc' = Len(worker') /\ chan' = Len(worker')
        /\ Len(worker') = Len(worker) + 1 /\ worker'[Len(worker')] = NewWorker(flags.job)
        /\ flags'.job = flags.job /\ pump.pc = "respawn"
    BY <1>1, <1>10, Respawns DEF SameRun
  <2>2. flags.job # 0 /\ chan' # 0
    BY <1>1, <2>1, Basics
  <2>3. NewWorker(flags.job).run = flags.job
    BY DEF NewWorker
  <2>4. worker'[chan'].run = flags.job
    BY <2>1, <2>3
  <2>5. QED
    BY <2>1, <2>2, <2>4 DEF HandleInv
<1>11. CASE Start
  <2>1. loop' = "spawn" /\ UNCHANGED <<worker, proc, chan, flags, pump>> /\ loop = "idle"
    BY <1>11 DEF Start, LoopAt
  <2>2. QED
    BY <1>2, <2>1 DEF HandleInv
<1>12. CASE SpawnTrainer
  <2>1. /\ loop = "spawn" /\ UNCHANGED <<proc, chan, flags, pump>> /\ loop' \in {"reset", "idle"}
        /\ worker' \in {worker, Append(worker, NewWorker(flags.job + 1))}
    BY <1>12 DEF SpawnTrainer, LoopAt
  <2>2. flags.job < MaxRuns
    BY <1>1, <2>1 DEF StartInv
  <2>3. \A j \in DOMAIN worker : worker'[j] = worker[j]
    <3>1. CASE worker' = worker
      BY <3>1
    <3>2. CASE worker' = Append(worker, NewWorker(flags.job + 1))
      BY <1>1, <2>2, <3>2, SpawnsTrainer
    <3>3. QED
      BY <2>1, <3>1, <3>2
  <2>4. QED
    BY <1>1, <1>2, <2>1, <2>3 DEF HandleInv
<1>13. CASE ResetFields
  <2>1. /\ flags' = Fresh(flags.job + 1) /\ loop' = "row" /\ loop = "reset"
        /\ UNCHANGED <<worker, proc, chan, pump>>
    BY <1>13 DEF ResetFields, LoopAt
  <2>2. flags'.job # 0
    BY <1>1, <2>1, Basics DEF Fresh
  <2>3. QED
    BY <1>2, <2>1, <2>2 DEF HandleInv
<1>14. CASE CreateRow
  <2>1. EnsureCreated /\ loop' = "install" /\ loop = "row" /\ UNCHANGED <<proc, chan, pump>>
    BY <1>14 DEF CreateRow, LoopAt
  <2>2. flags'.job = flags.job
    BY <1>1, <2>1, Creates
  <2>3. QED
    BY <1>2, <2>1, <2>2 DEF HandleInv
<1>15. CASE Install
  <2>1. /\ loop = "install" /\ worker' = Forgotten /\ proc' = Len(worker) /\ chan' = Len(worker)
        /\ loop' = "idle" /\ UNCHANGED flags
    BY <1>15 DEF Install, LoopAt
  <2>2. /\ chan < Len(worker) /\ worker[Len(worker)].run = flags.job /\ flags.job # 0
    BY <1>1, <1>2, <2>1 DEF StartInv, Spawned, Newest
  <2>3. Len(worker) # 0 /\ Len(worker) \in DOMAIN worker
    BY <1>1, <2>2 DEF ShapeInv
  <2>4. worker'[Len(worker)].run = flags.job
    BY <1>1, <2>1, <2>2, <2>3, Forgets
  <2>5. QED
    BY <2>1, <2>2, <2>3, <2>4 DEF HandleInv
<1>16. CASE StopAndSave \/ Cancel
  <2>1. /\ loop = "idle" /\ Active /\ loop' \in {"put", "mark"}
        /\ UNCHANGED <<worker, proc, chan, flags, pump>>
    BY <1>16 DEF StopAndSave, Cancel, LoopAt
  <2>2. flags.job # 0
    BY <1>1, <2>1, ActiveRun
  <2>3. QED
    BY <1>2, <2>1, <2>2 DEF HandleInv
<1>17. CASE MarkStop
  <2>1. EnsureCreated /\ loop' = "cancel" /\ loop = "mark" /\ UNCHANGED <<worker, proc, chan, pump>>
    BY <1>17 DEF MarkStop, LoopAt
  <2>2. flags'.job = flags.job
    BY <1>1, <2>1, Creates
  <2>3. QED
    BY <1>2, <2>1, <2>2 DEF HandleInv
<1>18. CASE CancelRun
  <2>1. /\ loop = "cancel" /\ loop' \in {"put", "idle"} /\ flags'.job = flags.job
        /\ flags'.training = flags.training
        /\ UNCHANGED <<worker, proc, chan, pump>>
    BY <1>1, <1>18, Cancels
  <2>2. QED
    BY <1>2, <2>1 DEF HandleInv
<1>19. CASE PutStop
  <2>1. /\ loop = "put" /\ loop' = "watch" /\ flags'.job = flags.job
        /\ UNCHANGED <<proc, chan, pump>> /\ worker'[chan].run = worker[chan].run
    BY <1>1, <1>19, Puts
  <2>2. QED
    BY <1>2, <2>1 DEF HandleInv
<1>20. CASE StartWatchdog
  <2>1. /\ loop = "watch" /\ loop' = "idle" /\ UNCHANGED <<proc, chan, flags, pump>>
        /\ \A j \in DOMAIN worker : worker'[j].run = worker[j].run
    BY <1>1, <1>20, StartsWatch
  <2>2. QED
    BY <1>1, <1>2, <2>1 DEF HandleInv
<1>21. CASE Reset
  <2>1. /\ loop = "idle" /\ loop' = "clear" /\ worker' \in {worker, Signalled(proc)}
        /\ UNCHANGED <<proc, chan, flags, pump>>
    BY <1>21 DEF Reset, LoopAt
  <2>2. \A j \in DOMAIN worker : worker'[j].run = worker[j].run
    <3>1. CASE worker' = worker
      BY <3>1
    <3>2. CASE worker' = Signalled(proc)
      BY <1>1, <3>2, Signals DEF ShapeInv
    <3>3. QED
      BY <2>1, <3>1, <3>2
  <2>3. QED
    BY <1>1, <1>2, <2>1, <2>2 DEF HandleInv
<1>22. CASE ClearState
  <2>1. /\ flags' = [flags EXCEPT !.stop = FALSE, !.training = FALSE]
        /\ loop = "clear" /\ loop' = "idle" /\ UNCHANGED <<worker, proc, chan, pump>>
    BY <1>22 DEF ClearState, LoopAt
  <2>2. flags'.job = flags.job /\ flags'.training = FALSE
    BY <1>1, <2>1 DEF Fields
  <2>3. QED
    BY <1>2, <2>1, <2>2 DEF HandleInv
<1>23. CASE EnsurePumpAlive
  <2>1. proc # 0 /\ UNCHANGED <<worker, proc, chan, flags, loop>>
    BY <1>23 DEF EnsurePumpAlive
  <2>2. QED
    BY <1>2, <2>1 DEF HandleInv
<1>24. QED
  BY <1>4, <1>5, <1>6, <1>7, <1>8, <1>9, <1>10, <1>11, <1>12, <1>13, <1>14, <1>15,
     <1>16, <1>17, <1>18, <1>19, <1>20, <1>21, <1>22, <1>23, Steps

-----------------------------------------------------------------------------
(* No worker lives on unseen.                                              *)

LEMMA AliveStep ==
  ASSUME IInv, [Next]_vars, ShapeInv'
  PROVE  AliveInv'
<1> USE DEF parent, Newest, Gone
<1>1. /\ ShapeInv /\ StartInv /\ HandleInv /\ AliveInv /\ BlameInv /\ EndInv
      /\ Len(worker) \in Nat /\ DOMAIN worker = 1 .. Len(worker)
      /\ proc \in 0 .. Len(worker) /\ (proc # 0 => proc \in DOMAIN worker)
  BY Workers DEF IInv, ShapeInv
<1>2. /\ \A i \in DOMAIN worker : Gone(i) \/ i = proc \/ (loop \in Spawned /\ i = Len(worker))
      /\ \A i \in DOMAIN worker : worker[i].watch \in {"none", "watch"} \/ Gone(i)
      /\ pump.pc = "respawn" /\ proc # 0 => Gone(proc)
  BY <1>1 DEF AliveInv
<1>3. ASSUME DOMAIN worker' = DOMAIN worker, Len(worker') = Len(worker),
             \A j \in DOMAIN worker :
               /\ Gone(j) => Gone(j)'
               /\ worker'[j].watch \in {worker[j].watch, "none", "watch"} \/ Gone(j)',
             proc' = proc \/ (proc' = 0 /\ Gone(proc)),
             loop \in Spawned => loop' \in Spawned,
             pump'.pc = "respawn" /\ proc' # 0 => Gone(proc)'
      PROVE  AliveInv'
  <2>1. \A i \in DOMAIN worker : Gone(i)' \/ i = proc' \/ (loop' \in Spawned /\ i = Len(worker))
    BY <1>2, <1>3
  <2>2. \A i \in DOMAIN worker : worker'[i].watch \in {"none", "watch"} \/ Gone(i)'
    BY <1>2, <1>3
  <2>3. pump'.pc = "respawn" /\ proc' # 0 => Gone(proc)'
    BY <1>3
  <2>4. QED
    BY <1>3, <2>1, <2>2, <2>3 DEF AliveInv
<1>4. ASSUME UNCHANGED <<proc, loop, pump>>, DOMAIN worker' = DOMAIN worker, Len(worker') = Len(worker),
             \A j \in DOMAIN worker :
               /\ Gone(j) => Gone(j)'
               /\ worker'[j].watch \in {worker[j].watch, "none", "watch"} \/ Gone(j)'
      PROVE  AliveInv'
  <2>1. pump'.pc = "respawn" /\ proc' # 0 => Gone(proc)'
    BY <1>1, <1>2, <1>4
  <2>2. QED
    BY <1>3, <1>4, <2>1
<1>5. ASSUME UNCHANGED <<worker, proc>>, loop \in Spawned => loop' \in Spawned,
             UNCHANGED pump \/ pump'.pc # "respawn"
      PROVE  AliveInv'
  BY <1>2, <1>3, <1>5
<1>6. ASSUME pump.pc # "none" PROVE loop \notin Spawned
  BY <1>1, <1>6 DEF StartInv, Startings, Spawned
<1>7. CASE UNCHANGED vars
  BY <1>5, <1>7 DEF vars
<1>8. ASSUME NEW i \in DOMAIN worker, WorkerStep(i) PROVE AliveInv'
  BY <1>1, <1>4, <1>8, WorkerSteps
<1>9. ASSUME NEW i \in DOMAIN worker, WatchStep(i) PROVE AliveInv'
  <2>1. /\ UNCHANGED <<loop, pump>> /\ DOMAIN worker' = DOMAIN worker /\ Len(worker') = Len(worker)
        /\ proc' = proc \/ (proc = i /\ proc' = 0 /\ worker[i].watch = "drop")
        /\ \A j \in DOMAIN worker \ {i} : worker'[j] = worker[j]
        /\ worker'[i].phase \in {worker[i].phase, "dead"}
        /\ worker'[i].watch \in {"none", "watch"} \/ worker'[i].phase \in {"dead", "wedged"}
    BY <1>1, <1>9, WatchSteps
  <2>2. proc' = proc \/ (proc' = 0 /\ Gone(proc))
    BY <1>2, <2>1
  <2>3. \A j \in DOMAIN worker :
          /\ Gone(j) => Gone(j)'
          /\ worker'[j].watch \in {worker[j].watch, "none", "watch"} \/ Gone(j)'
    BY <1>2, <2>1
  <2>4. pump'.pc = "respawn" /\ proc' # 0 => Gone(proc)'
    BY <1>1, <1>2, <2>1, <2>3
  <2>5. QED
    BY <1>3, <2>1, <2>2, <2>3, <2>4
<1>10. CASE QuietPumpStep
  BY <1>1, <1>5, <1>10, QuietPumps DEF PumpGoesOn
<1>11. CASE HandleEvent
  <2>1. UNCHANGED <<proc, loop>> /\ pump'.pc # "respawn"
    BY <1>1, <1>11, Handles
  <2>2. /\ DOMAIN worker' = DOMAIN worker /\ Len(worker') = Len(worker)
        /\ \A j \in DOMAIN worker : (Gone(j) => Gone(j)') /\ worker'[j].watch = worker[j].watch
    BY <1>1, <1>11, Takes
  <2>3. QED
    BY <1>3, <2>1, <2>2
<1>12. CASE Reap
  <2>1. worker' = Signalled(proc) /\ UNCHANGED <<proc, loop>>
    BY <1>12 DEF Reap
  <2>2. /\ DOMAIN worker' = DOMAIN worker /\ Len(worker') = Len(worker)
        /\ \A j \in DOMAIN worker : (Gone(j) => Gone(j)') /\ worker'[j].watch = worker[j].watch
        /\ \A j \in DOMAIN worker : j = proc => Gone(j)'
    BY <1>1, <2>1, Signals DEF ShapeInv
  <2>3. QED
    BY <1>1, <1>3, <2>1, <2>2
<1>13. CASE Respawn
  <2>1. /\ pump.pc = "respawn" /\ Len(worker') = Len(worker) + 1 /\ UNCHANGED loop
        /\ DOMAIN worker' = DOMAIN worker \cup {Len(worker')}
        /\ worker'[Len(worker')] = NewWorker(flags.job) /\ proc' = Len(worker') /\ pump' = Pump
        /\ \A j \in DOMAIN worker :
             worker'[j].phase = worker[j].phase /\ worker'[j].watch = worker[j].watch
    BY <1>1, <1>13, Respawns
  <2>2. loop \notin Spawned /\ Pump.pc = "read" /\ NewWorker(flags.job).watch = "none"
    BY <1>6, <2>1, Basics DEF NewWorker
  <2>3. \A j \in DOMAIN worker : Gone(j)
    BY <1>1, <1>2, <2>1, <2>2
  <2>4. QED
    BY <1>2, <2>1, <2>2, <2>3 DEF AliveInv
<1>14. CASE Start
  <2>1. loop' = "spawn" /\ loop = "idle" /\ UNCHANGED <<worker, proc, pump>>
    BY <1>14 DEF Start, LoopAt
  <2>2. QED
    BY <1>5, <2>1 DEF Spawned
<1>15. CASE SpawnTrainer
  <2>1. /\ loop = "spawn" /\ UNCHANGED <<proc, pump>>
        /\ \/ loop' = "reset" /\ worker' = Append(worker, NewWorker(flags.job + 1))
           \/ UNCHANGED worker
    BY <1>15 DEF SpawnTrainer, LoopAt
  <2>2. CASE loop' = "reset" /\ worker' = Append(worker, NewWorker(flags.job + 1))
    <3>1. flags.job < MaxRuns /\ pump.pc = "none"
      BY <1>1, <2>1 DEF StartInv, Startings
    <3>2. /\ Len(worker') = Len(worker) + 1 /\ DOMAIN worker' = DOMAIN worker \cup {Len(worker')}
          /\ worker'[Len(worker')] = NewWorker(flags.job + 1)
          /\ \A j \in DOMAIN worker : worker'[j] = worker[j]
      BY <1>1, <2>2, <3>1, SpawnsTrainer
    <3>3. loop \notin Spawned /\ loop' \in Spawned /\ NewWorker(flags.job + 1).watch = "none"
      BY <2>1, <2>2 DEF Spawned, NewWorker
    <3>4. QED
      BY <1>2, <2>1, <3>1, <3>2, <3>3 DEF AliveInv
  <2>3. CASE UNCHANGED worker
    BY <1>5, <2>1, <2>3 DEF Spawned
  <2>4. QED
    BY <2>1, <2>2, <2>3
<1>16. CASE ResetFields \/ CreateRow
  <2>1. loop' \in Spawned /\ UNCHANGED <<worker, proc, pump>>
    BY <1>16 DEF ResetFields, CreateRow, LoopAt, Spawned
  <2>2. QED
    BY <1>5, <2>1
<1>17. CASE Install
  <2>1. /\ loop = "install" /\ worker' = Forgotten /\ proc' = Len(worker)
        /\ pump' = Pump /\ loop' = "idle"
    BY <1>17 DEF Install, LoopAt
  <2>2. ~Alive(proc) /\ Pump.pc = "read"
    BY <1>1, <2>1, Basics DEF StartInv, Startings
  <2>3. \A j \in DOMAIN worker : Gone(j) \/ j = Len(worker)
    BY <1>1, <1>2, <2>2 DEF Alive
  <2>4. /\ DOMAIN worker' = DOMAIN worker
        /\ \A j \in DOMAIN worker :
             worker'[j].phase = worker[j].phase /\ worker'[j].watch = worker[j].watch
    BY <1>1, <2>1, Forgets
  <2>5. QED
    BY <1>2, <2>1, <2>2, <2>3, <2>4 DEF AliveInv
<1>18. CASE \/ StopAndSave \/ Cancel \/ MarkStop \/ CancelRun \/ ClearState
  <2>1. UNCHANGED <<worker, proc, pump>> /\ loop \notin Spawned
    BY <1>18 DEF StopAndSave, Cancel, MarkStop, CancelRun, ClearState, Spawned
  <2>2. QED
    BY <1>5, <2>1
<1>19. CASE PutStop
  <2>1. /\ UNCHANGED <<proc, pump>> /\ loop = "put"
        /\ DOMAIN worker' = DOMAIN worker /\ Len(worker') = Len(worker)
        /\ \A j \in DOMAIN worker :
             worker'[j].phase = worker[j].phase /\ worker'[j].watch = worker[j].watch
    BY <1>1, <1>19, Puts
  <2>2. QED
    BY <1>1, <1>2, <1>3, <2>1 DEF Spawned
<1>20. CASE StartWatchdog
  <2>1. /\ UNCHANGED <<proc, pump>> /\ loop = "watch"
        /\ DOMAIN worker' = DOMAIN worker /\ Len(worker') = Len(worker)
        /\ \A j \in DOMAIN worker :
             worker'[j].phase = worker[j].phase /\ worker'[j].watch \in {worker[j].watch, "watch"}
    BY <1>1, <1>20, StartsWatch
  <2>2. QED
    BY <1>1, <1>2, <1>3, <2>1 DEF Spawned
<1>21. CASE Reset
  <2>1. /\ loop = "idle" /\ worker' \in {worker, Signalled(proc)} /\ UNCHANGED <<proc, pump>>
    BY <1>21 DEF Reset, LoopAt
  <2>2. /\ DOMAIN worker' = DOMAIN worker /\ Len(worker') = Len(worker)
        /\ \A j \in DOMAIN worker : (Gone(j) => Gone(j)') /\ worker'[j].watch = worker[j].watch
    <3>1. CASE worker' = worker
      BY <3>1
    <3>2. CASE worker' = Signalled(proc)
      BY <1>1, <3>2, Signals DEF ShapeInv
    <3>3. QED
      BY <2>1, <3>1, <3>2
  <2>3. QED
    BY <1>1, <1>2, <1>3, <2>1, <2>2 DEF Spawned
<1>22. CASE EnsurePumpAlive
  <2>1. pump' = Pump /\ UNCHANGED <<worker, proc, loop>>
    BY <1>22 DEF EnsurePumpAlive
  <2>2. QED
    BY <1>5, <2>1, Basics
<1>23. QED
  BY <1>7, <1>8, <1>9, <1>10, <1>11, <1>12, <1>13, <1>14, <1>15,
     <1>16, <1>17, <1>18, <1>19, <1>20, <1>21, <1>22, Steps

-----------------------------------------------------------------------------
(* What is said of a run is deserved.                                      *)

\* An event that is sent joins those of the queue.
LEMMA Appended ==
  ASSUME NEW s \in Seq(Events), NEW e \in Events
  PROVE  /\ \A k \in DOMAIN Append(s, e) : \/ k \in DOMAIN s /\ Append(s, e)[k] = s[k]
                                           \/ Append(s, e)[k] = e
         /\ \A k \in DOMAIN s : k \in DOMAIN Append(s, e) /\ Append(s, e)[k] = s[k]
         /\ \E k \in DOMAIN Append(s, e) : Append(s, e)[k] = e
<1> DEFINE q == Append(s, e)
           n == Len(s)
           m == Len(q)
<1>1. /\ q \in Seq(Events) /\ m = n + 1 /\ n \in Nat
      /\ \A i \in 1 .. n : q[i] = s[i]
      /\ q[n + 1] = e
  BY AppendProperties, LenProperties
<1>2. DOMAIN q = 1 .. m /\ DOMAIN s = 1 .. n
  BY <1>1, LenProperties
<1> HIDE DEF q, n, m
<1>3. m \in DOMAIN q /\ q[m] = e
  BY <1>1, <1>2
<1>4. /\ \A k \in DOMAIN q : (k \in DOMAIN s /\ q[k] = s[k]) \/ q[k] = e
      /\ \A k \in DOMAIN s : k \in DOMAIN q /\ q[k] = s[k]
  BY <1>1, <1>2
<1>5. QED
  BY <1>3, <1>4 DEF q

\* What would be recorded of the current run is true once its worker is dead
\* and its queue empty.
LEMMA LastTruth ==
  ASSUME IInv, pump.pc = "payload", NEW f \in TerminalFinals
  PROVE  Truth(f)
<1>1. /\ ShapeInv /\ StartInv /\ HandleInv /\ BlameInv /\ EndInv
  BY DEF IInv
<1>2. loop \notin Startings
  BY <1>1 DEF StartInv
<1>3. chan # 0 /\ flags.job # 0 /\ worker[chan].run = flags.job
  BY <1>1, <1>2 DEF HandleInv, Startings
<1>4. worker[chan].phase = "dead" /\ worker[chan].out = <<>>
      /\ (Accounted(chan) \/ payload.run = flags.job)
  BY <1>1, <1>2, <1>3 DEF EndInv, Queue, Startings, Spawned
<1>5. CASE f = payload
  BY <1>1, <1>5 DEF BlameInv
<1>6. CASE f # payload
  <2>1. /\ f.run = flags.job /\ payload.run # flags.job
        /\ f.status \in {"stopped", "error"} /\ (~flags.stop => f.status = "error")
    BY <1>1, <1>3, <1>6, FinalsOfTheRun
  <2>2. flags.job \in Blamed
    BY <1>3, <1>4, <2>1 DEF Accounted
  <2>3. flags.stop => flags.job \in Asked
    BY <1>1 DEF BlameInv
  <2>4. QED
    BY <2>1, <2>2, <2>3 DEF Truth
<1>7. QED
  BY <1>5, <1>6

LEMMA BlameStep ==
  ASSUME IInv, [Next]_vars, ShapeInv'
  PROVE  BlameInv'
<1> USE DEF parent, Asked, Blamed
<1>1. /\ ShapeInv /\ StartInv /\ HandleInv /\ AliveInv /\ BlameInv /\ EndInv
      /\ Len(worker) \in Nat /\ DOMAIN worker = 1 .. Len(worker)
      /\ (proc # 0 => proc \in DOMAIN worker) /\ (chan # 0 => chan \in DOMAIN worker)
      /\ flags \in Fields /\ pump \in Pumps
  BY Workers DEF IInv, ShapeInv
<1>2. /\ flags.stop \/ flags.cancel \/ loop = "watch" => flags.job \in Asked
      /\ flags.respawn \/ pump.pc \in {"reap", "respawn"} =>
           flags.job \in history.broken /\ flags.xetUsed
      /\ \A i \in DOMAIN worker : Deserved(i)
      /\ Truth(payload)
      /\ pump.pc \in {"create", "claim", "finish"} => Truth(pump.fin)
  BY <1>1 DEF BlameInv
<1> DEFINE Grows == history.asked \subseteq history'.asked /\ history.broken \subseteq history'.broken
<1>3. ASSUME NEW j \in DOMAIN worker, Grows, worker'[j].run = worker[j].run,
             worker'[j].told => worker[j].told,
             worker'[j].watch # "none" => worker[j].watch # "none",
             worker'[j].fin = worker[j].fin, worker'[j].out \in {worker[j].out, <<>>}
      PROVE  Deserved(j)'
  <2>1. Deserved(j)
    BY <1>2
  <2>2. /\ worker[j].told \/ worker[j].watch # "none" => worker[j].run \in Asked
        /\ Truth(worker[j].fin)
        /\ \A k \in DOMAIN worker[j].out :
             /\ worker[j].out[k] \in {"cut", "stopped"} => worker[j].run \in Asked
             /\ worker[j].out[k] \in {"error", "stall"} => worker[j].run \in history.broken
    BY <2>1 DEF Deserved
  <2>3. Truth(worker[j].fin)'
    BY <1>3, <2>2 DEF Truth
  <2>4. \A k \in DOMAIN worker'[j].out :
             /\ worker'[j].out[k] \in {"cut", "stopped"} => worker'[j].run \in Asked'
             /\ worker'[j].out[k] \in {"error", "stall"} => worker'[j].run \in history'.broken
    <3>1. CASE worker'[j].out = <<>>
      BY <3>1
    <3>2. CASE worker'[j].out = worker[j].out
      BY <1>3, <2>2, <3>2
    <3>3. QED
      BY <1>3, <3>1, <3>2
  <2>5. worker'[j].told \/ worker'[j].watch # "none" => worker'[j].run \in Asked'
    BY <1>3, <2>2
  <2>6. QED
    BY <2>3, <2>4, <2>5 DEF Deserved, Truth
<1>4. ASSUME NEW j \in DOMAIN worker, Grows, worker'[j] = worker[j] PROVE Deserved(j)'
  BY <1>3, <1>4
<1>5. ASSUME NEW r, NEW j \in DOMAIN worker', worker'[j] = NewWorker(r)
      PROVE  Deserved(j)'
  <2>1. /\ worker'[j].told = FALSE /\ worker'[j].watch = "none" /\ worker'[j].fin.run = 0
        /\ worker'[j].out = <<>>
    BY <1>5, Basics DEF NewWorker
  <2>2. DOMAIN worker'[j].out = {}
    BY <2>1
  <2>3. QED
    BY <2>1, <2>2 DEF Deserved, Truth
<1>6. ASSUME Grows, UNCHANGED payload PROVE Truth(payload)'
  BY <1>2, <1>6 DEF Truth
<1>7. ASSUME Grows, UNCHANGED pump
      PROVE  pump'.pc \in {"create", "claim", "finish"} => Truth(pump.fin)'
  BY <1>2, <1>7 DEF Truth
<1>8. ASSUME pump.pc # "none"
      PROVE  loop \notin Startings /\ chan \in DOMAIN worker /\ worker[chan].run = flags.job
  BY <1>1, <1>8 DEF StartInv, HandleInv, Startings
<1>9. CASE UNCHANGED vars
  <2>1. Grows /\ UNCHANGED <<worker, flags, payload, pump, loop, history>>
    BY <1>9 DEF vars
  <2>2. \A j \in DOMAIN worker' : Deserved(j)'
    BY <1>4, <2>1
  <2>3. QED
    BY <1>2, <1>6, <1>7, <2>1, <2>2 DEF BlameInv
<1>10. ASSUME NEW i \in DOMAIN worker, WorkerStep(i) PROVE BlameInv'
  <2>1. /\ UNCHANGED <<flags, payload, pump, loop>> /\ DOMAIN worker' = DOMAIN worker /\ Grows
        /\ \A j \in DOMAIN worker \ {i} : worker'[j] = worker[j]
        /\ worker'[i].run = worker[i].run /\ worker'[i].told = worker[i].told
        /\ worker'[i].watch = worker[i].watch /\ worker'[i].fin = worker[i].fin
        /\ history'.asked = history.asked
        /\ \/ worker'[i].out = worker[i].out
           \/ \E e \in Events :
                /\ worker'[i].out = Append(worker[i].out, e)
                /\ e \in {"cut", "stopped"} => worker[i].told
                /\ e \in {"error", "stall"} => worker[i].run \in history'.broken
    BY <1>1, <1>10, WorkerSteps
  <2>2. Deserved(i)'
    <3>1. CASE worker'[i].out = worker[i].out
      BY <1>3, <2>1, <3>1
    <3>2. ASSUME NEW e \in Events, worker'[i].out = Append(worker[i].out, e),
                 e \in {"cut", "stopped"} => worker[i].told,
                 e \in {"error", "stall"} => worker[i].run \in history'.broken
          PROVE  Deserved(i)'
      <4>1. worker[i].out \in Seq(Events)
        BY <1>1, Workers DEF Trainers
      <4>2. /\ worker[i].told \/ worker[i].watch # "none" => worker[i].run \in Asked
            /\ Truth(worker[i].fin)
            /\ \A k \in DOMAIN worker[i].out :
                 /\ worker[i].out[k] \in {"cut", "stopped"} => worker[i].run \in Asked
                 /\ worker[i].out[k] \in {"error", "stall"} => worker[i].run \in history.broken
        BY <1>2 DEF Deserved
      <4>3. \A k \in DOMAIN worker'[i].out :
              \/ k \in DOMAIN worker[i].out /\ worker'[i].out[k] = worker[i].out[k]
              \/ worker'[i].out[k] = e
        BY <3>2, <4>1, Appended
      <4>4. \A k \in DOMAIN worker'[i].out :
                 /\ worker'[i].out[k] \in {"cut", "stopped"} => worker'[i].run \in Asked'
                 /\ worker'[i].out[k] \in {"error", "stall"} => worker'[i].run \in history'.broken
        BY <2>1, <3>2, <4>2, <4>3
      <4>5. /\ worker'[i].told \/ worker'[i].watch # "none" => worker'[i].run \in Asked'
            /\ Truth(worker[i].fin)'
        BY <2>1, <4>2 DEF Truth
      <4>6. QED
        BY <2>1, <4>4, <4>5 DEF Deserved, Truth
    <3>3. QED
      BY <2>1, <3>1, <3>2
  <2>3. \A j \in DOMAIN worker' : Deserved(j)'
    BY <1>4, <2>1, <2>2
  <2>4. QED
    BY <1>2, <1>6, <1>7, <2>1, <2>3 DEF BlameInv
<1>11. ASSUME NEW i \in DOMAIN worker, WatchStep(i) PROVE BlameInv'
  <2>1. /\ UNCHANGED <<payload, pump, loop>> /\ DOMAIN worker' = DOMAIN worker /\ Grows
        /\ \A j \in DOMAIN worker \ {i} : worker'[j] = worker[j]
        /\ worker'[i].run = worker[i].run /\ worker'[i].told = worker[i].told
        /\ worker'[i].out = worker[i].out /\ worker[i].watch # "none"
        /\ history'.asked = history.asked /\ history'.broken = history.broken
        /\ \/ worker'[i].fin = worker[i].fin
           \/ worker'[i].fin = NoFinal
           \/ worker[i].run = flags.job /\ worker'[i].fin \in TerminalFinals
    BY <1>1, <1>11, WatchSteps
  <2>2. /\ flags'.job = flags.job /\ flags'.stop = flags.stop /\ flags'.cancel = flags.cancel
        /\ flags'.xetUsed = flags.xetUsed /\ (flags'.respawn => flags.respawn)
    BY <1>1, <1>11, WatchSteps DEF SameRun
  <2>3. Deserved(i)'
    <3>1. /\ worker[i].run \in Asked /\ Truth(worker[i].fin)
          /\ \A k \in DOMAIN worker[i].out :
               /\ worker[i].out[k] \in {"cut", "stopped"} => worker[i].run \in Asked
               /\ worker[i].out[k] \in {"error", "stall"} => worker[i].run \in history.broken
      BY <1>2, <2>1 DEF Deserved
    <3>2. Truth(worker'[i].fin)
      <4>1. CASE worker'[i].fin = worker[i].fin
        BY <3>1, <4>1
      <4>2. CASE worker'[i].fin = NoFinal
        BY <4>2, Basics DEF Truth
      <4>3. CASE worker[i].run = flags.job /\ worker'[i].fin \in TerminalFinals
        <5>1. PICK f \in TerminalFinals : worker'[i].fin = f
          BY <4>3
        <5>2. f = payload \/ f.run = flags.job
          BY <1>1, FinalsOfTheRun
        <5>3. QED
          BY <1>2, <3>1, <4>3, <5>1, <5>2 DEF Truth
      <4>4. QED
        BY <2>1, <4>1, <4>2, <4>3
    <3>3. QED
      BY <2>1, <3>1, <3>2 DEF Deserved, Truth
  <2>4. \A j \in DOMAIN worker' : Deserved(j)'
    BY <1>4, <2>1, <2>3
  <2>5. QED
    BY <1>2, <1>6, <1>7, <2>1, <2>2, <2>4 DEF BlameInv
<1>12. CASE QuietPumpStep
  <2>1. /\ UNCHANGED <<worker, payload, loop>> /\ PumpGoesOn /\ Grows
        /\ history'.asked = history.asked
        /\ flags'.job = flags.job /\ flags'.stop = flags.stop /\ flags'.cancel = flags.cancel
        /\ flags'.xetUsed = flags.xetUsed /\ (flags'.respawn => flags.respawn)
    BY <1>1, <1>12, QuietPumps DEF SameRun
  <2>2. pump'.pc \in {"reap", "respawn"} => flags.respawn
    BY <2>1 DEF PumpGoesOn
  <2>3. pump'.pc \in {"create", "claim", "finish"} => Truth(pump.fin)'
    <3>1. CASE pump.pc \in {"create", "claim", "finish"} /\ pump'.fin = pump.fin
      BY <1>2, <2>1, <3>1 DEF Truth
    <3>2. CASE pump.pc = "payload" /\ pump'.fin \in TerminalFinals
      <4>1. PICK f \in TerminalFinals : pump'.fin = f
        BY <3>2
      <4>2. Truth(f)
        BY <3>2, LastTruth
      <4>3. QED
        BY <2>1, <4>1, <4>2 DEF Truth
    <3>3. CASE /\ pump'.fin.run = flags.job /\ pump'.fin.status = "error"
               /\ flags.job \in history'.broken
      BY <3>3 DEF Truth
    <3>4. QED
      BY <2>1, <3>1, <3>2, <3>3 DEF PumpGoesOn
  <2>4. \A j \in DOMAIN worker' : Deserved(j)'
    BY <1>4, <2>1
  <2>5. QED
    BY <1>2, <1>6, <2>1, <2>2, <2>3, <2>4 DEF BlameInv
<1>13. CASE HandleEvent
  <2> DEFINE e == Head(Queue)
  <2>1. /\ UNCHANGED <<loop, history>> /\ pump.pc \in {"read", "exit"}
        /\ flags'.job = flags.job /\ flags'.stop = flags.stop /\ flags'.cancel = flags.cancel
        /\ flags.xetUsed => flags'.xetUsed
        /\ flags'.respawn => flags.respawn \/ e = "stall"
        /\ flags'.respawn /\ ~flags.respawn => flags'.xetUsed
        /\ \/ payload' = payload
           \/ /\ payload'.run = flags.job
              /\ payload'.status = "stopped" => flags.stop \/ e = "stopped"
              /\ payload'.status = "error" => e = "error"
        /\ \/ pump' = pump
           \/ pump'.pc = "persist"
           \/ pump'.pc \in {"create", "claim"} /\ pump'.fin = payload'
    BY <1>1, <1>13, Handles
  <2>2. /\ 1 \in DOMAIN Queue /\ Queue[1] = e /\ DOMAIN worker' = DOMAIN worker
        /\ \A j \in DOMAIN worker \ {chan} : worker'[j] = worker[j]
        /\ worker'[chan].run = worker[chan].run /\ worker'[chan].told = worker[chan].told
        /\ worker'[chan].watch = worker[chan].watch /\ worker'[chan].fin = worker[chan].fin
        /\ \A k \in DOMAIN worker'[chan].out :
              k + 1 \in DOMAIN Queue /\ worker'[chan].out[k] = Queue[k + 1]
    BY <1>1, <1>13, Takes
  <2>3. chan \in DOMAIN worker /\ worker[chan].run = flags.job /\ Queue = worker[chan].out
    BY <1>8, <2>1 DEF Queue
  <2> HIDE DEF e
  <2>4. /\ worker[chan].told \/ worker[chan].watch # "none" => worker[chan].run \in Asked
        /\ Truth(worker[chan].fin)
        /\ \A k \in DOMAIN Queue :
             /\ Queue[k] \in {"cut", "stopped"} => flags.job \in Asked
             /\ Queue[k] \in {"error", "stall"} => flags.job \in history.broken
    BY <1>2, <2>3 DEF Deserved
  <2>5. /\ e \in {"cut", "stopped"} => flags.job \in Asked
        /\ e \in {"error", "stall"} => flags.job \in history.broken
    BY <2>2, <2>4
  <2>6. \A k \in DOMAIN worker'[chan].out :
             /\ worker'[chan].out[k] \in {"cut", "stopped"} => flags.job \in Asked
             /\ worker'[chan].out[k] \in {"error", "stall"} => flags.job \in history.broken
    BY <2>2, <2>4
  <2>7. \A j \in DOMAIN worker' : Deserved(j)'
    <3>1. TAKE j \in DOMAIN worker'
    <3>2. CASE j # chan
      BY <1>4, <2>1, <2>2, <3>2
    <3>3. CASE j = chan
      BY <2>1, <2>2, <2>3, <2>4, <2>6, <3>3 DEF Deserved, Truth
    <3>4. QED
      BY <3>2, <3>3
  <2>8. Truth(payload)'
    BY <1>2, <2>1, <2>5 DEF Truth
  <2>9. flags'.respawn => flags.job \in history.broken /\ flags'.xetUsed
    BY <1>2, <2>1, <2>5
  <2>10. pump'.pc \notin {"reap", "respawn", "finish"}
         /\ (pump'.pc \in {"create", "claim"} => Truth(pump.fin)')
    BY <2>1, <2>8 DEF Truth
  <2>11. QED
    BY <1>2, <2>1, <2>7, <2>8, <2>9, <2>10 DEF BlameInv
<1>14. CASE Reap
  <2>1. /\ worker' = Signalled(proc) /\ pump.pc = "reap" /\ pump' = [NoPump EXCEPT !.pc = "respawn"]
        /\ UNCHANGED <<flags, payload, loop, history>> /\ Grows
    BY <1>14 DEF Reap
  <2>2. pump'.pc = "respawn"
    BY <2>1 DEF NoPump
  <2>3. /\ DOMAIN worker' = DOMAIN worker
        /\ \A j \in DOMAIN worker :
             /\ worker'[j].run = worker[j].run /\ worker'[j].told = worker[j].told
             /\ worker'[j].out = worker[j].out /\ worker'[j].watch = worker[j].watch
             /\ worker'[j].fin = worker[j].fin
    BY <1>1, <2>1, Signals DEF ShapeInv
  <2>4. \A j \in DOMAIN worker' : Deserved(j)'
    BY <1>3, <2>1, <2>3
  <2>5. QED
    BY <1>2, <1>6, <2>1, <2>2, <2>4 DEF BlameInv
<1>15. CASE Respawn
  <2>1. /\ DOMAIN worker' = DOMAIN worker \cup {Len(worker')}
        /\ worker'[Len(worker')] = NewWorker(flags.job)
        /\ \A j \in DOMAIN worker :
             /\ worker'[j].run = worker[j].run
             /\ worker'[j].watch = worker[j].watch /\ worker'[j].fin = worker[j].fin
             /\ worker'[j].out \in {worker[j].out, <<>>}
             /\ worker'[j].told \in {worker[j].told, FALSE}
        /\ history'.asked = history.asked /\ history'.broken = history.broken /\ Grows
        /\ pump' = Pump /\ UNCHANGED <<payload, loop>>
    BY <1>1, <1>15, Respawns
  <2>2. /\ flags'.job = flags.job /\ flags'.stop = flags.stop /\ flags'.cancel = flags.cancel
        /\ flags'.xetUsed = flags.xetUsed /\ (flags'.respawn => flags.respawn)
    BY <1>1, <1>15, Respawns DEF SameRun
  <2>3. \A j \in DOMAIN worker' : Deserved(j)'
    <3>1. TAKE j \in DOMAIN worker'
    <3>2. CASE j \in DOMAIN worker
      <4>1. worker'[j].told => worker[j].told
        BY <2>1, <3>2
      <4>2. QED
        BY <1>3, <2>1, <3>2, <4>1
    <3>3. CASE j = Len(worker')
      BY <1>5, <2>1, <3>3
    <3>4. QED
      BY <2>1, <3>2, <3>3
  <2>4. pump'.pc = "read"
    BY <2>1, Basics
  <2>5. QED
    BY <1>2, <1>6, <2>1, <2>2, <2>3, <2>4 DEF BlameInv
<1>16. CASE Start \/ StopAndSave \/ Cancel
  <2>1. /\ UNCHANGED <<worker, flags, payload, pump>> /\ loop' # "watch"
        /\ history'.asked = history.asked /\ history'.broken = history.broken /\ Grows
    BY <1>1, <1>16 DEF Start, StopAndSave, Cancel, LoopAt, ShapeInv, Records
  <2>2. \A j \in DOMAIN worker' : Deserved(j)'
    BY <1>4, <2>1
  <2>3. QED
    BY <1>2, <1>6, <1>7, <2>1, <2>2 DEF BlameInv
<1>17. CASE SpawnTrainer
  <2>1. /\ loop = "spawn" /\ UNCHANGED <<flags, payload, pump>> /\ loop' # "watch"
        /\ \/ UNCHANGED history /\ worker' = Append(worker, NewWorker(flags.job + 1))
           \/ Fault("sidecar", history) /\ UNCHANGED worker
    BY <1>17 DEF SpawnTrainer, LoopAt
  <2>2. history'.asked = history.asked /\ history'.broken = history.broken /\ Grows
    BY <1>1, <2>1, Faulted
  <2>3. \A j \in DOMAIN worker' : Deserved(j)'
    <3>1. CASE UNCHANGED worker
      BY <1>4, <2>2, <3>1
    <3>2. CASE worker' = Append(worker, NewWorker(flags.job + 1))
      <4>1. flags.job < MaxRuns
        BY <1>1, <2>1 DEF StartInv
      <4>2. /\ DOMAIN worker' = DOMAIN worker \cup {Len(worker')}
            /\ worker'[Len(worker')] = NewWorker(flags.job + 1)
            /\ \A j \in DOMAIN worker : worker'[j] = worker[j]
        BY <1>1, <3>2, <4>1, SpawnsTrainer
      <4>3. QED
        BY <1>4, <1>5, <2>2, <4>2
    <3>3. QED
      BY <2>1, <3>1, <3>2
  <2>4. QED
    BY <1>2, <1>6, <1>7, <2>1, <2>2, <2>3 DEF BlameInv
<1>18. CASE ResetFields
  <2>1. /\ flags' = Fresh(flags.job + 1) /\ payload' = NoFinal /\ loop' = "row" /\ loop = "reset"
        /\ UNCHANGED <<worker, pump, history>> /\ Grows
    BY <1>18 DEF ResetFields, LoopAt
  <2>2. pump.pc = "none" /\ ~flags'.stop /\ ~flags'.cancel /\ ~flags'.respawn
    BY <1>1, <2>1 DEF StartInv, Startings, Fresh
  <2>3. Truth(payload)'
    BY <2>1, Basics DEF Truth
  <2>4. \A j \in DOMAIN worker' : Deserved(j)'
    BY <1>4, <2>1
  <2>5. QED
    BY <2>1, <2>2, <2>3, <2>4 DEF BlameInv
<1>19. CASE CreateRow \/ MarkStop
  <2>1. /\ EnsureCreated /\ loop' # "watch" /\ UNCHANGED <<worker, payload, pump>>
    BY <1>19 DEF CreateRow, MarkStop, LoopAt
  <2>2. /\ flags'.job = flags.job /\ flags'.stop = flags.stop /\ flags'.cancel = flags.cancel
        /\ flags'.xetUsed = flags.xetUsed /\ flags'.respawn = flags.respawn
        /\ history'.asked = history.asked /\ history'.broken = history.broken /\ Grows
    BY <1>1, <2>1, Creates
  <2>3. \A j \in DOMAIN worker' : Deserved(j)'
    BY <1>4, <2>1, <2>2
  <2>4. QED
    BY <1>2, <1>6, <1>7, <2>1, <2>2, <2>3 DEF BlameInv
<1>20. CASE Install
  <2>1. /\ loop = "install" /\ worker' = Forgotten /\ pump' = Pump /\ loop' = "idle"
        /\ UNCHANGED <<flags, payload, history>> /\ Grows
    BY <1>20 DEF Install, LoopAt
  <2>2. /\ DOMAIN worker' = DOMAIN worker
        /\ \A j \in DOMAIN worker :
             /\ worker'[j].run = worker[j].run
             /\ worker'[j].watch = worker[j].watch /\ worker'[j].fin = worker[j].fin
             /\ worker'[j].out \in {worker[j].out, <<>>}
             /\ worker'[j].told \in {worker[j].told, FALSE}
    BY <1>1, <2>1, Forgets
  <2>3. \A j \in DOMAIN worker' : Deserved(j)'
    <3>1. TAKE j \in DOMAIN worker'
    <3>2. worker'[j].told => worker[j].told
      BY <2>2
    <3>3. QED
      BY <1>3, <2>1, <2>2, <3>2
  <2>4. pump'.pc = "read"
    BY <2>1, Basics
  <2>5. QED
    BY <1>2, <1>6, <2>1, <2>3, <2>4 DEF BlameInv
<1>21. CASE CancelRun
  <2>1. /\ flags'.job = flags.job /\ flags'.xetUsed = flags.xetUsed
        /\ flags'.respawn = flags.respawn /\ history'.broken = history.broken
        /\ \/ loop' = "put" /\ history'.asked = history.asked \cup {flags.job}
           \/ /\ loop' = "idle" /\ history'.asked = history.asked
              /\ flags'.stop = flags.stop /\ flags'.cancel = flags.cancel
        /\ UNCHANGED <<worker, payload, pump>>
    BY <1>1, <1>21, Cancels
  <2>2. Grows
    BY <2>1
  <2>3. \A j \in DOMAIN worker' : Deserved(j)'
    BY <1>4, <2>1, <2>2
  <2>4. QED
    BY <1>2, <1>6, <1>7, <2>1, <2>2, <2>3 DEF BlameInv
<1>22. CASE PutStop
  <2>1. /\ chan \in DOMAIN worker /\ worker[chan].run = flags.job /\ DOMAIN worker' = DOMAIN worker
        /\ \A j \in DOMAIN worker \ {chan} : worker'[j] = worker[j]
        /\ worker'[chan].run = worker[chan].run
        /\ worker'[chan].out = worker[chan].out /\ worker'[chan].watch = worker[chan].watch
        /\ worker'[chan].fin = worker[chan].fin
        /\ flags'.job = flags.job /\ flags'.xetUsed = flags.xetUsed
        /\ flags'.respawn = flags.respawn
        /\ history'.asked = history.asked \cup {flags.job} /\ history'.broken = history.broken
        /\ UNCHANGED <<payload, pump>>
    BY <1>1, <1>22, Puts
  <2>2. Grows
    BY <2>1
  <2>3. \A j \in DOMAIN worker' : Deserved(j)'
    <3>1. TAKE j \in DOMAIN worker'
    <3>2. CASE j # chan
      BY <1>4, <2>1, <2>2, <3>2
    <3>3. CASE j = chan
      <4>1. /\ Truth(worker[j].fin)
            /\ \A k \in DOMAIN worker[j].out :
                 /\ worker[j].out[k] \in {"cut", "stopped"} => worker[j].run \in Asked
                 /\ worker[j].out[k] \in {"error", "stall"} => worker[j].run \in history.broken
        BY <1>2, <2>1, <3>3 DEF Deserved
      <4>2. QED
        BY <2>1, <2>2, <3>3, <4>1 DEF Deserved, Truth
    <3>4. QED
      BY <3>2, <3>3
  <2>4. QED
    BY <1>2, <1>6, <1>7, <2>1, <2>2, <2>3 DEF BlameInv
<1>23. CASE StartWatchdog
  <2>1. /\ loop = "watch" /\ loop' = "idle" /\ DOMAIN worker' = DOMAIN worker
        /\ \A j \in DOMAIN worker :
             /\ worker'[j].run = worker[j].run
             /\ worker'[j].out = worker[j].out /\ worker'[j].told = worker[j].told
             /\ worker'[j].fin = worker[j].fin
             /\ worker'[j].watch = worker[j].watch \/ (worker'[j].watch = "watch" /\ j = proc)
        /\ UNCHANGED <<flags, payload, pump, history>> /\ Grows
    BY <1>1, <1>23, StartsWatch
  <2>2. proc # 0 => worker[proc].run = flags.job /\ flags.job \in Asked
    BY <1>1, <1>2, <2>1 DEF HandleInv
  <2>3. \A j \in DOMAIN worker' : Deserved(j)'
    <3>1. TAKE j \in DOMAIN worker'
    <3>2. CASE worker'[j].watch = worker[j].watch
      BY <1>3, <2>1, <3>2
    <3>3. CASE worker'[j].watch = "watch" /\ j = proc
      <4>1. /\ Truth(worker[j].fin) /\ worker[j].run \in Asked
            /\ \A k \in DOMAIN worker[j].out :
                 /\ worker[j].out[k] \in {"cut", "stopped"} => worker[j].run \in Asked
                 /\ worker[j].out[k] \in {"error", "stall"} => worker[j].run \in history.broken
        BY <1>1, <1>2, <2>1, <2>2, <3>3 DEF Deserved
      <4>2. QED
        BY <2>1, <4>1 DEF Deserved, Truth
    <3>4. QED
      BY <2>1, <3>2, <3>3
  <2>4. QED
    BY <1>2, <1>6, <1>7, <2>1, <2>3 DEF BlameInv
<1>24. CASE Reset
  <2>1. /\ loop' = "clear" /\ worker' \in {worker, Signalled(proc)} /\ Fault("reset", history)
        /\ UNCHANGED <<flags, payload, pump>>
    BY <1>24 DEF Reset, LoopAt
  <2>2. history'.asked = history.asked /\ history'.broken = history.broken /\ Grows
    BY <1>1, <2>1, Faulted
  <2>3. /\ DOMAIN worker' = DOMAIN worker
        /\ \A j \in DOMAIN worker :
             /\ worker'[j].run = worker[j].run /\ worker'[j].told = worker[j].told
             /\ worker'[j].out = worker[j].out /\ worker'[j].watch = worker[j].watch
             /\ worker'[j].fin = worker[j].fin
    <3>1. CASE worker' = worker
      BY <3>1
    <3>2. CASE worker' = Signalled(proc)
      BY <1>1, <3>2, Signals DEF ShapeInv
    <3>3. QED
      BY <2>1, <3>1, <3>2
  <2>4. \A j \in DOMAIN worker' : Deserved(j)'
    BY <1>3, <2>2, <2>3
  <2>5. QED
    BY <1>2, <1>6, <1>7, <2>1, <2>2, <2>4 DEF BlameInv
<1>25. CASE ClearState
  <2>1. /\ flags' = [flags EXCEPT !.stop = FALSE, !.training = FALSE] /\ loop' = "idle"
        /\ UNCHANGED <<worker, payload, pump, history>> /\ Grows
    BY <1>25 DEF ClearState, LoopAt
  <2>2. /\ flags'.job = flags.job /\ flags'.stop = FALSE /\ flags'.cancel = flags.cancel
        /\ flags'.xetUsed = flags.xetUsed /\ flags'.respawn = flags.respawn
    BY <1>1, <2>1 DEF Fields
  <2>3. \A j \in DOMAIN worker' : Deserved(j)'
    BY <1>4, <2>1
  <2>4. QED
    BY <1>2, <1>6, <1>7, <2>1, <2>2, <2>3 DEF BlameInv
<1>26. CASE EnsurePumpAlive
  <2>1. pump' = Pump /\ UNCHANGED <<worker, flags, payload, loop, history>> /\ Grows
    BY <1>26 DEF EnsurePumpAlive
  <2>2. \A j \in DOMAIN worker' : Deserved(j)'
    BY <1>4, <2>1
  <2>3. pump'.pc = "read"
    BY <2>1, Basics
  <2>4. QED
    BY <1>2, <1>6, <2>1, <2>2, <2>3 DEF BlameInv
<1>27. QED
  BY <1>9, <1>10, <1>11, <1>12, <1>13, <1>14, <1>15, <1>16, <1>17, <1>18, <1>19, <1>20,
     <1>21, <1>22, <1>23, <1>24, <1>25, <1>26, Steps

-----------------------------------------------------------------------------
(* The end of the current worker is accounted for.                         *)

LEMMA EndStep ==
  ASSUME IInv, [Next]_vars, ShapeInv'
  PROVE  EndInv'
<1> USE DEF parent, Asked, Blamed, Newest
<1>1. /\ ShapeInv /\ StartInv /\ HandleInv /\ AliveInv /\ BlameInv /\ EndInv
      /\ Len(worker) \in Nat /\ DOMAIN worker = 1 .. Len(worker)
      /\ (proc # 0 => proc \in DOMAIN worker) /\ (chan # 0 => chan \in DOMAIN worker)
      /\ flags \in Fields /\ pump \in Pumps
  BY Workers DEF IInv, ShapeInv
<1>2. /\ loop \in Spawned => Accounted(Len(worker))
      /\ loop \notin Spawned /\ chan # 0 => Accounted(chan) \/ payload.run = flags.job
      /\ pump.pc \in {"exit", "last", "payload"} \/ pump.back = "exit" =>
           chan # 0 /\ worker[chan].phase = "dead"
      /\ pump.pc \in {"last", "payload"} => worker[chan].out = <<>>
      /\ pump.pc = "persist" => pump.back \in {"read", "exit"}
  BY <1>1 DEF EndInv, Queue
<1>3. loop \in Spawned => Len(worker) \in DOMAIN worker /\ chan < Len(worker) /\ pump.pc = "none"
  BY <1>1 DEF StartInv, ShapeInv, Spawned, Startings
<1>4. pump.pc # "none" => loop \notin Spawned /\ chan \in DOMAIN worker /\ worker[chan].run = flags.job
  BY <1>1, <1>3 DEF HandleInv, Spawned, ShapeInv
<1>5. \A j \in DOMAIN worker : worker[j].told \/ worker[j].watch # "none" => worker[j].run \in Asked
  BY <1>1 DEF BlameInv, Deserved
<1> DEFINE Grows == history.asked \subseteq history'.asked /\ history.broken \subseteq history'.broken
           Stays(j) == /\ worker'[j].run = worker[j].run /\ worker'[j].phase = worker[j].phase
                       /\ worker'[j].out = worker[j].out
           Same == /\ DOMAIN worker' = DOMAIN worker /\ Len(worker') = Len(worker) /\ Grows
                   /\ UNCHANGED <<chan, pump>>
                   /\ loop' \in Spawned <=> loop \in Spawned
                   /\ loop \notin Spawned => UNCHANGED payload /\ flags'.job = flags.job
                   /\ \A j \in DOMAIN worker : Stays(j)
<1>6. ASSUME NEW j, Accounted(j), Grows, Stays(j)
      PROVE  Accounted(j)'
  BY <1>6 DEF Accounted
<1>7. ASSUME NEW j, worker'[j].run \in Blamed'
      PROVE  Accounted(j)'
  BY <1>7 DEF Accounted
<1>8. ASSUME Same PROVE EndInv'
  <2>1. loop' \in Spawned => Accounted(Newest)'
    <3>1. loop' \in Spawned => Accounted(Len(worker)) /\ Len(worker) \in DOMAIN worker
      BY <1>2, <1>3, <1>8
    <3>2. QED
      BY <1>8, <3>1 DEF Accounted
  <2>2. loop' \notin Spawned /\ chan' # 0 => Accounted(chan)' \/ payload'.run = flags'.job
    <3>1. ASSUME loop \notin Spawned, chan # 0, Accounted(chan) PROVE Accounted(chan)'
      BY <1>1, <1>8, <3>1 DEF Accounted
    <3>2. QED
      BY <1>2, <1>8, <3>1
  <2>3. pump'.pc \in {"exit", "last", "payload"} \/ pump'.back = "exit" =>
           chan' # 0 /\ worker'[chan'].phase = "dead"
    BY <1>1, <1>2, <1>8
  <2>4. pump'.pc \in {"last", "payload"} => Queue' = <<>>
    BY <1>1, <1>2, <1>4, <1>8 DEF Queue
  <2>5. QED
    BY <1>2, <1>8, <2>1, <2>2, <2>3, <2>4 DEF EndInv
<1>9. CASE UNCHANGED vars
  BY <1>8, <1>9 DEF vars
<1>10. ASSUME NEW i \in DOMAIN worker, WorkerStep(i) PROVE EndInv'
  <2>1. /\ UNCHANGED <<chan, flags, payload, pump, loop>> /\ Grows
        /\ DOMAIN worker' = DOMAIN worker /\ Len(worker') = Len(worker)
        /\ \A j \in DOMAIN worker \ {i} : worker'[j] = worker[j]
        /\ worker'[i].run = worker[i].run /\ worker[i].phase \notin {"dead", "wedged"}
        /\ worker'[i].phase \in {"ended", "dead", "wedged"} =>
              \/ worker[i].phase = "ended" /\ worker'[i].out = worker[i].out
              \/ worker[i].run \in history'.broken
              \/ worker[i].told
              \/ worker'[i].out = Append(worker[i].out, "complete")
    BY <1>1, <1>10, WorkerSteps
  <2>2. ASSUME Accounted(i) PROVE Accounted(i)'
    <3>1. ASSUME worker'[i].phase \in {"ended", "dead", "wedged"},
                 worker'[i].run \notin history'.asked \cup history'.broken
          PROVE  \E k \in DOMAIN worker'[i].out : worker'[i].out[k] = "complete"
      <4>1. ~worker[i].told /\ worker[i].run \notin history.asked \cup history.broken
        BY <1>5, <2>1, <3>1
      <4>2. CASE worker[i].phase = "ended" /\ worker'[i].out = worker[i].out
        BY <2>2, <4>1, <4>2 DEF Accounted
      <4>3. CASE worker'[i].out = Append(worker[i].out, "complete")
        <5>1. worker[i].out \in Seq(Events) /\ "complete" \in Events
          BY <1>1, Workers DEF Trainers, Events
        <5>2. QED
          BY <4>3, <5>1, Appended
      <4>4. QED
        BY <2>1, <3>1, <4>1, <4>2, <4>3
    <3>2. QED
      BY <3>1 DEF Accounted
  <2>3. ASSUME NEW j \in DOMAIN worker, Accounted(j) PROVE Accounted(j)'
    BY <1>6, <2>1, <2>2, <2>3
  <2>4. loop' \in Spawned => Accounted(Newest)'
    <3>1. ASSUME loop \in Spawned PROVE Accounted(Newest)'
      <4>1. Accounted(Len(worker)) /\ Len(worker) \in DOMAIN worker
        BY <1>2, <1>3, <3>1
      <4>2. QED
        BY <2>1, <2>3, <4>1 DEF Accounted
    <3>2. QED
      BY <2>1, <3>1
  <2>5. loop' \notin Spawned /\ chan' # 0 => Accounted(chan)' \/ payload'.run = flags'.job
    <3>1. ASSUME chan # 0, Accounted(chan) PROVE Accounted(chan)'
      BY <1>1, <2>1, <2>3, <3>1 DEF Accounted
    <3>2. QED
      BY <1>2, <2>1, <3>1
  <2>6. pump'.pc \in {"exit", "last", "payload"} \/ pump'.back = "exit" =>
           chan' # 0 /\ worker'[chan'].phase = "dead"
    BY <1>1, <1>2, <2>1
  <2>7. pump'.pc \in {"last", "payload"} => Queue' = <<>>
    BY <1>1, <1>2, <2>1 DEF Queue
  <2>8. QED
    BY <1>2, <2>1, <2>4, <2>5, <2>6, <2>7 DEF EndInv
<1>11. ASSUME NEW i \in DOMAIN worker, WatchStep(i) PROVE EndInv'
  <2>1. /\ UNCHANGED <<chan, payload, pump, loop>> /\ Grows /\ flags'.job = flags.job
        /\ DOMAIN worker' = DOMAIN worker /\ Len(worker') = Len(worker)
        /\ \A j \in DOMAIN worker \ {i} : worker'[j] = worker[j]
        /\ worker'[i].run = worker[i].run /\ worker[i].watch # "none"
        /\ worker'[i].out = worker[i].out
        /\ worker'[i].phase \in {worker[i].phase, "dead"}
    BY <1>1, <1>11, WatchSteps DEF SameRun
  <2>2. Accounted(i)'
    BY <1>5, <1>7, <2>1
  <2>3. ASSUME NEW j \in DOMAIN worker, Accounted(j) PROVE Accounted(j)'
    BY <1>6, <2>1, <2>2, <2>3
  <2>4. loop' \in Spawned => Accounted(Newest)'
    <3>1. ASSUME loop \in Spawned PROVE Accounted(Newest)'
      <4>1. Accounted(Len(worker)) /\ Len(worker) \in DOMAIN worker
        BY <1>2, <1>3, <3>1
      <4>2. QED
        BY <2>1, <2>3, <4>1 DEF Accounted
    <3>2. QED
      BY <2>1, <3>1
  <2>5. loop' \notin Spawned /\ chan' # 0 => Accounted(chan)' \/ payload'.run = flags'.job
    <3>1. ASSUME chan # 0, Accounted(chan) PROVE Accounted(chan)'
      BY <1>1, <2>1, <2>3, <3>1 DEF Accounted
    <3>2. QED
      BY <1>2, <2>1, <3>1
  <2>6. pump'.pc \in {"exit", "last", "payload"} \/ pump'.back = "exit" =>
           chan' # 0 /\ worker'[chan'].phase = "dead"
    BY <1>1, <1>2, <2>1
  <2>7. pump'.pc \in {"last", "payload"} => Queue' = <<>>
    BY <1>1, <1>2, <2>1 DEF Queue
  <2>8. QED
    BY <1>2, <2>1, <2>4, <2>5, <2>6, <2>7 DEF EndInv
<1>12. CASE QuietPumpStep
  <2>1. /\ UNCHANGED <<worker, proc, chan, payload, loop>> /\ PumpGoesOn /\ Grows
        /\ pump.pc # "none" /\ flags'.job = flags.job
    BY <1>1, <1>12, QuietPumps DEF SameRun
  <2>2. chan # 0 /\ loop \notin Spawned /\ (Accounted(chan) \/ payload.run = flags.job)
    BY <1>1, <1>2, <1>4, <2>1
  <2>3. Accounted(chan) => Accounted(chan)'
    BY <2>1 DEF Accounted
  <2>4. pump'.pc \in {"exit", "last", "payload"} \/ pump'.back = "exit" => worker[chan].phase = "dead"
    BY <1>1, <1>2, <2>1 DEF PumpGoesOn, HandleInv, Alive
  <2>5. /\ pump'.pc \in {"last", "payload"} => Queue' = <<>>
        /\ pump'.pc # "persist"
    BY <2>1 DEF PumpGoesOn, Queue
  <2>6. QED
    BY <2>1, <2>2, <2>3, <2>4, <2>5 DEF EndInv
<1>13. CASE HandleEvent
  <2> DEFINE e == Head(Queue)
  <2>1. /\ UNCHANGED <<chan, loop, history>> /\ pump.pc \in {"read", "exit"} /\ flags'.job = flags.job
        /\ \/ payload' = payload /\ e \notin {"complete", "cut", "stopped", "error"}
           \/ payload'.run = flags.job
        /\ \/ pump' = pump
           \/ pump'.pc = "persist" /\ pump'.back = pump.pc
           \/ pump'.pc \in {"create", "claim"} /\ pump'.back = pump.pc
    BY <1>1, <1>13, Handles
  <2>2. /\ 1 \in DOMAIN Queue /\ Queue[1] = e
        /\ worker'[chan].run = worker[chan].run
        /\ worker'[chan].phase \in {worker[chan].phase, "dead"}
        /\ worker'[chan].phase # worker[chan].phase => e = "stall"
        /\ \A k \in DOMAIN Queue : k # 1 =>
              k - 1 \in DOMAIN worker'[chan].out /\ worker'[chan].out[k - 1] = Queue[k]
    BY <1>1, <1>13, Takes
  <2>3. /\ chan \in DOMAIN worker /\ chan # 0 /\ Queue = worker[chan].out /\ loop \notin Spawned
        /\ worker[chan].run = flags.job
    BY <1>1, <1>4, <2>1 DEF Queue
  <2>4. e = "stall" => worker[chan].run \in history.broken
    BY <1>1, <2>2, <2>3 DEF BlameInv, Deserved
  <2> HIDE DEF e
  <2>5. ASSUME payload'.run # flags.job PROVE Accounted(chan)'
    <3>1. payload' = payload /\ e # "complete" /\ Accounted(chan)
      BY <1>2, <2>1, <2>3, <2>5
    <3>2. CASE worker[chan].run \in history.asked \cup history.broken
      BY <2>1, <2>2, <3>2 DEF Accounted
    <3>3. CASE worker[chan].run \notin history.asked \cup history.broken
      <4>1. worker'[chan].phase = worker[chan].phase
        BY <2>2, <2>4, <3>3
      <4>2. ASSUME NEW k \in DOMAIN Queue, Queue[k] = "complete"
            PROVE  \E m \in DOMAIN worker'[chan].out : worker'[chan].out[m] = "complete"
        BY <2>2, <3>1, <4>2
      <4>3. QED
        BY <2>1, <2>3, <3>1, <3>3, <4>1, <4>2 DEF Accounted
    <3>4. QED
      BY <3>2, <3>3
  <2>6. pump'.pc \in {"exit", "last", "payload"} \/ pump'.back = "exit" =>
           worker'[chan].phase = "dead"
    BY <1>2, <2>1, <2>2
  <2>7. /\ pump'.pc \notin {"last", "payload"}
        /\ pump'.pc = "persist" => pump'.back \in {"read", "exit"}
    BY <1>2, <2>1
  <2>8. QED
    BY <2>1, <2>3, <2>5, <2>6, <2>7 DEF EndInv
<1>14. CASE Reap
  <2>1. /\ worker' = Signalled(proc) /\ pump.pc = "reap" /\ pump' = [NoPump EXCEPT !.pc = "respawn"]
        /\ UNCHANGED <<chan, flags, payload, loop, history>>
    BY <1>14 DEF Reap
  <2>2. pump'.pc = "respawn" /\ pump'.back = "end"
    BY <2>1 DEF NoPump
  <2>3. chan \in DOMAIN worker /\ worker[chan].run = flags.job /\ loop \notin Spawned
        /\ flags.job \in history.broken
    BY <1>1, <1>4, <2>1 DEF BlameInv
  <2>4. worker'[chan].run = worker[chan].run
    BY <1>1, <2>1, <2>3, Signals DEF ShapeInv
  <2>5. Accounted(chan)'
    BY <2>1, <2>3, <2>4 DEF Accounted
  <2>6. QED
    BY <2>1, <2>2, <2>3, <2>5 DEF EndInv
<1>15. CASE Respawn
  <2>1. /\ worker'[Len(worker')] = NewWorker(flags.job) /\ chan' = Len(worker')
        /\ pump' = Pump /\ pump.pc = "respawn" /\ UNCHANGED loop
    BY <1>1, <1>15, Respawns
  <2>2. worker'[chan'].phase = "spawned"
    BY <2>1 DEF NewWorker
  <2>3. Accounted(chan)'
    BY <2>2 DEF Accounted
  <2>4. pump'.pc = "read" /\ pump'.back = "end"
    BY <2>1, Basics
  <2>5. QED
    BY <1>4, <2>1, <2>3, <2>4 DEF EndInv
<1>16. CASE Start \/ StopAndSave \/ Cancel \/ ClearState
  <2>1. /\ UNCHANGED <<worker, chan, payload, pump>> /\ loop' \notin Spawned /\ loop \notin Spawned
        /\ flags'.job = flags.job
    BY <1>1, <1>16 DEF Start, StopAndSave, Cancel, ClearState, LoopAt, Spawned, Fields
  <2>2. Grows
    BY <1>1, <1>16 DEF Start, StopAndSave, Cancel, ClearState, ShapeInv, Records
  <2>3. QED
    BY <1>8, <2>1, <2>2
<1>17. CASE SpawnTrainer
  <2>1. /\ loop = "spawn" /\ UNCHANGED <<chan, flags, payload, pump>>
        /\ \/ loop' = "reset" /\ worker' = Append(worker, NewWorker(flags.job + 1))
           \/ loop' = "idle" /\ Fault("sidecar", history) /\ UNCHANGED worker
    BY <1>17 DEF SpawnTrainer, LoopAt
  <2>2. CASE loop' = "idle" /\ Fault("sidecar", history) /\ UNCHANGED worker
    <3>1. Grows
      BY <1>1, <2>2, Faulted
    <3>2. loop \notin Spawned /\ loop' \notin Spawned
      BY <2>1, <2>2 DEF Spawned
    <3>3. QED
      BY <1>8, <2>1, <2>2, <3>1, <3>2
  <2>3. CASE loop' = "reset" /\ worker' = Append(worker, NewWorker(flags.job + 1))
    <3>1. flags.job < MaxRuns /\ pump.pc = "none"
      BY <1>1, <2>1 DEF StartInv, Startings
    <3>2. /\ worker'[Len(worker')] = NewWorker(flags.job + 1)
          /\ \A j \in DOMAIN worker : worker'[j] = worker[j]
      BY <1>1, <2>3, <3>1, SpawnsTrainer
    <3>3. Accounted(Newest)' /\ loop' \in Spawned
      <4>1. worker'[Len(worker')].phase = "spawned"
        BY <3>2 DEF NewWorker
      <4>2. QED
        BY <2>3, <4>1 DEF Accounted, Spawned
    <3>4. pump'.back = "exit" => chan' # 0 /\ worker'[chan'].phase = "dead"
      BY <1>1, <1>2, <2>1, <3>2
    <3>5. QED
      BY <2>1, <3>1, <3>3, <3>4 DEF EndInv
  <2>4. QED
    BY <2>1, <2>2, <2>3
<1>18. CASE ResetFields
  <2>1. UNCHANGED <<worker, chan, pump, history>> /\ loop \in Spawned /\ loop' \in Spawned
    BY <1>18 DEF ResetFields, LoopAt, Spawned
  <2>2. QED
    BY <1>8, <2>1
<1>19. CASE CreateRow \/ MarkStop
  <2>1. /\ EnsureCreated /\ (loop' \in Spawned <=> loop \in Spawned)
        /\ UNCHANGED <<worker, chan, payload, pump>>
    BY <1>19 DEF CreateRow, MarkStop, LoopAt, Spawned
  <2>2. flags'.job = flags.job /\ Grows
    BY <1>1, <2>1, Creates
  <2>3. QED
    BY <1>8, <2>1, <2>2
<1>20. CASE Install
  <2>1. /\ loop = "install" /\ worker' = Forgotten /\ chan' = Len(worker) /\ pump' = Pump
        /\ loop' = "idle" /\ UNCHANGED history
    BY <1>20 DEF Install, LoopAt
  <2>2. loop \in Spawned /\ loop' \notin Spawned
    BY <2>1 DEF Spawned
  <2>3. Accounted(Len(worker)) /\ Len(worker) \in DOMAIN worker /\ Len(worker) # chan
    BY <1>1, <1>2, <1>3, <2>2 DEF ShapeInv
  <2>4. worker'[Len(worker)] = worker[Len(worker)]
    BY <1>1, <2>1, <2>3, Forgets
  <2>5. Accounted(chan)'
    BY <2>1, <2>3, <2>4 DEF Accounted
  <2>6. pump'.pc = "read" /\ pump'.back = "end"
    BY <2>1, Basics
  <2>7. QED
    BY <2>2, <2>5, <2>6 DEF EndInv
<1>21. CASE CancelRun
  <2>1. /\ flags'.job = flags.job /\ Grows /\ loop = "cancel" /\ loop' \in {"put", "idle"}
        /\ UNCHANGED <<worker, chan, payload, pump>>
    BY <1>1, <1>21, Cancels
  <2>2. QED
    BY <1>8, <2>1 DEF Spawned
<1>22. CASE PutStop
  <2>1. /\ flags'.job = flags.job /\ Grows /\ loop = "put" /\ loop' = "watch"
        /\ DOMAIN worker' = DOMAIN worker /\ Len(worker') = Len(worker)
        /\ chan \in DOMAIN worker
        /\ \A j \in DOMAIN worker \ {chan} : worker'[j] = worker[j]
        /\ worker'[chan].run = worker[chan].run /\ worker'[chan].phase = worker[chan].phase
        /\ worker'[chan].out = worker[chan].out
        /\ UNCHANGED <<chan, payload, pump>>
    BY <1>1, <1>22, Puts
  <2>2. loop \notin Spawned /\ loop' \notin Spawned
    BY <2>1 DEF Spawned
  <2>3. \A j \in DOMAIN worker : Stays(j)
    BY <2>1
  <2>4. QED
    BY <1>8, <2>1, <2>2, <2>3
<1>23. CASE StartWatchdog
  <2>1. /\ loop = "watch" /\ loop' = "idle" /\ DOMAIN worker' = DOMAIN worker
        /\ Len(worker') = Len(worker) /\ \A j \in DOMAIN worker : Stays(j)
        /\ UNCHANGED <<chan, flags, payload, pump, history>>
    BY <1>1, <1>23, StartsWatch
  <2>2. loop \notin Spawned /\ loop' \notin Spawned
    BY <2>1 DEF Spawned
  <2>3. QED
    BY <1>8, <2>1, <2>2
<1>24. CASE Reset
  <2>1. /\ loop = "idle" /\ loop' = "clear" /\ Fault("reset", history) /\ (Active => flags.cancel)
        /\ worker' = IF Active THEN Signalled(proc) ELSE worker
        /\ UNCHANGED <<chan, flags, payload, pump>>
    BY <1>24 DEF Reset, LoopAt
  <2>2. /\ Grows /\ history'.asked = history.asked /\ history'.broken = history.broken
        /\ loop \notin Spawned /\ loop' \notin Spawned
    BY <1>1, <2>1, Faulted DEF Spawned
  <2>3. CASE ~Active
    BY <1>8, <2>1, <2>2, <2>3
  <2>4. CASE Active
    <3>1. flags.job \in Asked /\ worker' = Signalled(proc)
      BY <1>1, <2>1, <2>4 DEF BlameInv
    <3>2. \A j \in DOMAIN worker :
            /\ worker'[j].run = worker[j].run /\ worker'[j].out = worker[j].out
            /\ worker[j].phase = "dead" => worker'[j].phase = "dead"
      BY <1>1, <3>1, Signals DEF ShapeInv
    <3>3. ASSUME chan # 0 PROVE Accounted(chan)'
      <4>1. worker'[chan].run \in Asked
        BY <1>1, <2>1, <3>1, <3>2, <3>3 DEF HandleInv
      <4>2. QED
        BY <2>1, <2>2, <4>1 DEF Accounted
    <3>4. pump'.pc \in {"exit", "last", "payload"} \/ pump'.back = "exit" =>
             chan' # 0 /\ worker'[chan'].phase = "dead"
      BY <1>1, <1>2, <2>1, <3>2
    <3>5. pump'.pc \in {"last", "payload"} => Queue' = <<>>
      BY <1>1, <1>2, <2>1, <3>2 DEF Queue
    <3>6. QED
      BY <1>2, <2>1, <2>2, <3>3, <3>4, <3>5 DEF EndInv
  <2>5. QED
    BY <2>3, <2>4
<1>25. CASE EnsurePumpAlive
  <2>1. pump' = Pump /\ UNCHANGED <<worker, chan, flags, payload, loop, history>> /\ loop = "idle"
    BY <1>25 DEF EnsurePumpAlive
  <2>2. pump'.pc = "read" /\ pump'.back = "end" /\ loop \notin Spawned
    BY <2>1, Basics DEF Spawned
  <2>3. Accounted(chan) => Accounted(chan)'
    BY <2>1 DEF Accounted
  <2>4. QED
    BY <1>2, <2>1, <2>2, <2>3 DEF EndInv
<1>26. QED
  BY <1>9, <1>10, <1>11, <1>12, <1>13, <1>14, <1>15, <1>16, <1>17, <1>18, <1>19, <1>20,
     <1>21, <1>22, <1>23, <1>24, <1>25, Steps

-----------------------------------------------------------------------------
(* A run gets two workers at most.                                         *)

\* The workers of a run can be counted.
LEMMA Countable ==
  ASSUME ShapeInv, NEW r
  PROVE  IsFiniteSet(Of(r)) /\ Cardinality(Of(r)) \in Nat
<1>1. Of(r) \subseteq 1 .. Len(worker) /\ Len(worker) \in Nat
  BY Workers DEF Of
<1>2. IsFiniteSet(1 .. Len(worker))
  BY <1>1, FS_Interval
<1>3. QED
  BY <1>1, <1>2, FS_Subset, FS_CardinalityType

LEMMA CountStep ==
  ASSUME IInv, [Next]_vars, ShapeInv'
  PROVE  CountInv'
<1> USE DEF parent, Newest
<1>1. /\ ShapeInv /\ StartInv /\ HandleInv /\ AliveInv /\ BlameInv /\ EndInv /\ CountInv
      /\ Len(worker) \in Nat /\ DOMAIN worker = 1 .. Len(worker)
      /\ flags \in Fields /\ flags.job \in 0 .. MaxRuns /\ flags.xetUsed \in BOOLEAN
      /\ \A r \in Runs : r \in Nat /\ Cardinality(Of(r)) \in Nat
  BY Workers, Countable, Basics DEF IInv, ShapeInv, Fields
<1>2. /\ \A r \in Runs :
           /\ r > flags.job => Of(r) \subseteq {Len(worker)}
           /\ r > flags.job /\ ~(loop = "reset" /\ r = flags.job + 1) => Of(r) = {}
           /\ r = flags.job /\ (~flags.xetUsed \/ flags.respawn \/ pump.pc \in {"reap", "respawn"}) =>
                Cardinality(Of(r)) <= 1
           /\ Cardinality(Of(r)) <= 2
      /\ pump.pc \in {"reap", "respawn"} => ~flags.respawn
  BY <1>1 DEF CountInv
<1> DEFINE Kept == /\ DOMAIN worker' = DOMAIN worker /\ Len(worker') = Len(worker)
                   /\ \A j \in DOMAIN worker : worker'[j].run = worker[j].run
<1>3. ASSUME Kept, NEW r PROVE Of(r)' = Of(r)
  BY <1>3 DEF Of
<1>4. ASSUME Kept, flags'.job = flags.job, loop = "reset" => loop' = "reset",
             ~flags'.xetUsed \/ flags'.respawn \/ pump'.pc \in {"reap", "respawn"} =>
               ~flags.xetUsed \/ flags.respawn \/ pump.pc \in {"reap", "respawn"},
             pump'.pc \in {"reap", "respawn"} => ~flags'.respawn
      PROVE  CountInv'
  <2>1. \A r \in Runs : Of(r)' = Of(r)
    BY <1>3, <1>4
  <2>2. \A r \in Runs :
           /\ r > flags'.job => Of(r)' \subseteq {Len(worker)}
           /\ r > flags'.job /\ ~(loop' = "reset" /\ r = flags'.job + 1) => Of(r)' = {}
           /\ r = flags'.job /\ (~flags'.xetUsed \/ flags'.respawn \/ pump'.pc \in {"reap", "respawn"}) =>
                Cardinality(Of(r)') <= 1
           /\ Cardinality(Of(r)') <= 2
    <3>1. TAKE r \in Runs
    <3>2. Of(r)' = Of(r)
      BY <2>1
    <3>3. QED
      BY <1>2, <1>4, <3>2
  <2>3. QED
    BY <1>4, <2>2 DEF CountInv
<1>5. ASSUME Kept, UNCHANGED pump, flags'.job = flags.job, flags'.xetUsed = flags.xetUsed,
             flags'.respawn => flags.respawn, loop = "reset" => loop' = "reset"
      PROVE  CountInv'
  BY <1>2, <1>4, <1>5
<1>6. pump.pc # "none" => loop # "reset"
  BY <1>1 DEF StartInv, Startings
<1>7. CASE UNCHANGED vars
  BY <1>5, <1>7 DEF vars
<1>8. ASSUME NEW i \in DOMAIN worker, WorkerStep(i) PROVE CountInv'
  BY <1>1, <1>5, <1>8, WorkerSteps
<1>9. ASSUME NEW i \in DOMAIN worker, WatchStep(i) PROVE CountInv'
  <2>1. Kept /\ UNCHANGED <<pump, loop>>
    BY <1>1, <1>9, WatchSteps
  <2>2. flags'.job = flags.job /\ flags'.xetUsed = flags.xetUsed /\ (flags'.respawn => flags.respawn)
    BY <1>1, <1>9, WatchSteps DEF SameRun
  <2>3. QED
    BY <1>5, <2>1, <2>2
<1>10. CASE QuietPumpStep
  <2>1. Kept /\ UNCHANGED loop /\ PumpGoesOn
    BY <1>1, <1>10, QuietPumps
  <2>2. flags'.job = flags.job /\ flags'.xetUsed = flags.xetUsed /\ (flags'.respawn => flags.respawn)
    BY <1>1, <1>10, QuietPumps DEF SameRun
  <2>3. pump'.pc \in {"reap", "respawn"} => flags.respawn /\ ~flags'.respawn
    BY <2>1 DEF PumpGoesOn
  <2>4. QED
    BY <1>4, <2>1, <2>2, <2>3
<1>11. CASE HandleEvent
  <2>1. Kept
    BY <1>1, <1>11, Takes
  <2>2. /\ UNCHANGED loop /\ flags'.job = flags.job
        /\ flags.xetUsed => flags'.xetUsed
        /\ flags'.respawn => flags.respawn \/ ~flags.xetUsed
        /\ pump'.pc \notin {"reap", "respawn"}
    BY <1>1, <1>11, Handles
  <2>3. QED
    BY <1>4, <2>1, <2>2
<1>12. CASE Reap
  <2>1. /\ worker' = Signalled(proc) /\ pump.pc = "reap" /\ UNCHANGED <<flags, loop>>
    BY <1>12 DEF Reap
  <2>2. Kept
    BY <1>1, <2>1, Signals DEF ShapeInv
  <2>3. QED
    BY <1>2, <1>4, <2>1, <2>2
<1>13. CASE Respawn
  <2> DEFINE n == Len(worker')
  <2>1. /\ pump.pc = "respawn" /\ flags.job \in Runs
        /\ DOMAIN worker' = DOMAIN worker \cup {n} /\ n \notin DOMAIN worker
        /\ worker'[n] = NewWorker(flags.job)
        /\ \A j \in DOMAIN worker : worker'[j].run = worker[j].run
        /\ flags'.respawn = flags.respawn /\ pump' = Pump /\ UNCHANGED loop
    BY <1>1, <1>13, Respawns
  <2>2. flags'.job = flags.job /\ flags'.xetUsed = flags.xetUsed
    BY <1>1, <1>13, Respawns DEF SameRun
  <2>3. flags.xetUsed /\ ~flags.respawn /\ loop # "reset"
    BY <1>1, <1>2, <1>6, <2>1 DEF BlameInv
  <2>4. pump'.pc = "read" /\ NewWorker(flags.job).run = flags.job
    BY <2>1, Basics DEF NewWorker
  <2> HIDE DEF n
  <2>5. ASSUME NEW r \in Runs
        PROVE  Of(r)' = IF r = flags.job THEN Of(r) \cup {n} ELSE Of(r)
    BY <2>1, <2>4, <2>5 DEF Of
  <2>6. Cardinality(Of(flags.job) \cup {n}) <= 2
    <3>1. Cardinality(Of(flags.job)) <= 1 /\ IsFiniteSet(Of(flags.job))
      BY <1>1, <1>2, <2>1, Countable
    <3>2. n \notin Of(flags.job)
      BY <2>1 DEF Of
    <3>3. Cardinality(Of(flags.job) \cup {n}) = Cardinality(Of(flags.job)) + 1
      BY <3>1, <3>2, FS_AddElement
    <3>4. QED
      BY <1>1, <2>1, <3>1, <3>3
  <2>7. \A r \in Runs :
           /\ r > flags'.job => Of(r)' = {}
           /\ Cardinality(Of(r)') <= 2
    <3>1. TAKE r \in Runs
    <3>2. CASE r = flags.job
      <4>1. Of(r)' = Of(flags.job) \cup {n}
        BY <2>5, <3>2
      <4>2. ~(r > flags'.job)
        BY <1>1, <2>2, <3>2
      <4>3. QED
        BY <2>6, <4>1, <4>2
    <3>3. CASE r # flags.job
      <4>1. Of(r)' = Of(r)
        BY <2>5, <3>3
      <4>2. QED
        BY <1>2, <2>2, <2>3, <4>1
    <3>4. QED
      BY <3>2, <3>3
  <2>8. QED
    BY <2>2, <2>3, <2>1, <2>4, <2>7 DEF CountInv
<1>14. CASE Start \/ StopAndSave \/ Cancel
  <2>1. loop = "idle" /\ UNCHANGED <<worker, flags, pump>>
    BY <1>14 DEF Start, StopAndSave, Cancel
  <2>2. QED
    BY <1>5, <2>1
<1>15. CASE SpawnTrainer
  <2>1. /\ loop = "spawn" /\ UNCHANGED <<flags, pump>>
        /\ \/ loop' = "reset" /\ worker' = Append(worker, NewWorker(flags.job + 1))
           \/ UNCHANGED worker
    BY <1>15 DEF SpawnTrainer, LoopAt
  <2>2. CASE UNCHANGED worker
    BY <1>5, <2>1, <2>2
  <2>3. CASE loop' = "reset" /\ worker' = Append(worker, NewWorker(flags.job + 1))
    <3> DEFINE n == Len(worker')
    <3>1. flags.job < MaxRuns /\ pump.pc = "none"
      BY <1>1, <2>1 DEF StartInv, Startings
    <3>2. /\ flags.job + 1 \in Runs
          /\ DOMAIN worker' = DOMAIN worker \cup {n} /\ n \notin DOMAIN worker
          /\ worker'[n] = NewWorker(flags.job + 1)
          /\ \A j \in DOMAIN worker : worker'[j] = worker[j]
      BY <1>1, <2>3, <3>1, SpawnsTrainer
    <3>3. NewWorker(flags.job + 1).run = flags.job + 1
      BY DEF NewWorker
    <3>4. \A r \in Runs : r > flags.job => Of(r) = {}
      BY <1>2, <2>1
    <3> HIDE DEF n
    <3>5. ASSUME NEW r \in Runs
          PROVE  Of(r)' = IF r = flags.job + 1 THEN Of(r) \cup {n} ELSE Of(r)
      BY <3>2, <3>3, <3>5 DEF Of
    <3>6. Cardinality({n}) = 1
      BY FS_Singleton
    <3>7. \A r \in Runs :
             /\ r > flags.job => Of(r)' \subseteq {n}
             /\ r > flags.job /\ r # flags.job + 1 => Of(r)' = {}
             /\ r = flags.job => Of(r)' = Of(r)
             /\ Cardinality(Of(r)') <= 2
      <4>1. TAKE r \in Runs
      <4>2. CASE r = flags.job + 1
        <5>1. Of(r)' = Of(r) \cup {n} /\ r > flags.job /\ r # flags.job
          BY <1>1, <3>5, <4>2
        <5>2. Of(r)' = {n}
          BY <3>4, <5>1
        <5>3. QED
          BY <3>6, <4>2, <5>1, <5>2
      <4>3. CASE r # flags.job + 1
        <5>1. Of(r)' = Of(r)
          BY <3>5, <4>3
        <5>2. QED
          BY <1>2, <3>4, <5>1
      <4>4. QED
        BY <4>2, <4>3
    <3>8. \A r \in Runs :
             /\ r > flags'.job => Of(r)' \subseteq {n}
             /\ r > flags'.job /\ ~(loop' = "reset" /\ r = flags'.job + 1) => Of(r)' = {}
             /\ r = flags'.job /\ (~flags'.xetUsed \/ flags'.respawn \/ pump'.pc \in {"reap", "respawn"}) =>
                  Cardinality(Of(r)') <= 1
             /\ Cardinality(Of(r)') <= 2
      <4>1. TAKE r \in Runs
      <4>2. r = flags.job => Cardinality(Of(r)') = Cardinality(Of(r))
        BY <3>7
      <4>3. QED
        BY <1>2, <2>1, <2>3, <3>7, <4>2
    <3>9. QED
      BY <1>2, <2>1, <3>1, <3>8 DEF CountInv, n
  <2>4. QED
    BY <2>1, <2>2, <2>3
<1>16. CASE ResetFields
  <2>1. /\ flags' = Fresh(flags.job + 1) /\ loop' = "row" /\ loop = "reset"
        /\ UNCHANGED <<worker, pump>>
    BY <1>16 DEF ResetFields, LoopAt
  <2>2. pump.pc = "none" /\ flags'.job = flags.job + 1
    BY <1>1, <2>1 DEF StartInv, Startings, Fresh
  <2>3. \A r \in Runs : Of(r)' = Of(r)
    BY <1>3, <2>1
  <2>4. \A r \in Runs :
           /\ r > flags'.job => Of(r)' = {}
           /\ r = flags'.job => Cardinality(Of(r)') <= 1
           /\ Cardinality(Of(r)') <= 2
    <3>1. TAKE r \in Runs
    <3>2. Of(r)' = Of(r)
      BY <2>3
    <3>3. ASSUME r > flags'.job PROVE Of(r)' = {}
      <4>1. r > flags.job /\ r # flags.job + 1
        BY <1>1, <2>2, <3>3
      <4>2. QED
        BY <1>2, <3>2, <4>1
    <3>4. ASSUME r = flags'.job PROVE Cardinality(Of(r)') <= 1
      <4>1. r > flags.job
        BY <1>1, <2>2, <3>4
      <4>2. Of(r) \subseteq {Len(worker)}
        BY <1>2, <4>1
      <4>3. IsFiniteSet({Len(worker)}) /\ Cardinality({Len(worker)}) = 1
        BY FS_Singleton
      <4>4. Cardinality(Of(r)) <= 1
        BY <4>2, <4>3, FS_Subset
      <4>5. QED
        BY <3>2, <4>4
    <3>5. Cardinality(Of(r)') <= 2
      BY <1>2, <3>2
    <3>6. QED
      BY <3>3, <3>4, <3>5
  <2>5. QED
    BY <2>1, <2>2, <2>4 DEF CountInv
<1>17. CASE CreateRow \/ MarkStop
  <2>1. EnsureCreated /\ loop # "reset" /\ UNCHANGED <<worker, pump>>
    BY <1>17 DEF CreateRow, MarkStop
  <2>2. flags'.job = flags.job /\ flags'.xetUsed = flags.xetUsed /\ flags'.respawn = flags.respawn
    BY <1>1, <2>1, Creates
  <2>3. QED
    BY <1>5, <2>1, <2>2
<1>18. CASE Install
  <2>1. loop = "install" /\ worker' = Forgotten /\ pump' = Pump /\ UNCHANGED flags
    BY <1>18 DEF Install
  <2>2. Kept /\ pump'.pc = "read"
    BY <1>1, <2>1, Forgets, Basics
  <2>3. QED
    BY <1>4, <2>1, <2>2
<1>19. CASE CancelRun
  BY <1>1, <1>5, <1>19, Cancels
<1>20. CASE PutStop
  <2>1. Kept
    BY <1>1, <1>20, Puts
  <2>2. QED
    BY <1>1, <1>5, <1>20, <2>1, Puts
<1>21. CASE StartWatchdog
  <2>1. Kept
    BY <1>1, <1>21, StartsWatch
  <2>2. QED
    BY <1>1, <1>5, <1>21, <2>1, StartsWatch
<1>22. CASE Reset
  <2>1. loop = "idle" /\ worker' \in {worker, Signalled(proc)} /\ UNCHANGED <<flags, pump>>
    BY <1>22 DEF Reset
  <2>2. Kept
    <3>1. CASE worker' = worker
      BY <3>1
    <3>2. CASE worker' = Signalled(proc)
      BY <1>1, <3>2, Signals DEF ShapeInv
    <3>3. QED
      BY <2>1, <3>1, <3>2
  <2>3. QED
    BY <1>5, <2>1, <2>2
<1>23. CASE ClearState
  <2>1. /\ flags' = [flags EXCEPT !.stop = FALSE, !.training = FALSE] /\ loop = "clear"
        /\ UNCHANGED <<worker, pump>>
    BY <1>23 DEF ClearState
  <2>2. flags'.job = flags.job /\ flags'.xetUsed = flags.xetUsed /\ flags'.respawn = flags.respawn
    BY <1>1, <2>1 DEF Fields
  <2>3. QED
    BY <1>5, <2>1, <2>2
<1>24. CASE EnsurePumpAlive
  <2>1. pump' = Pump /\ UNCHANGED <<worker, flags, loop>>
    BY <1>24 DEF EnsurePumpAlive
  <2>2. pump'.pc = "read"
    BY <2>1, Basics
  <2>3. QED
    BY <1>4, <2>1, <2>2
<1>25. QED
  BY <1>7, <1>8, <1>9, <1>10, <1>11, <1>12, <1>13, <1>14, <1>15, <1>16, <1>17, <1>18, <1>19,
     <1>20, <1>21, <1>22, <1>23, <1>24, Steps

-----------------------------------------------------------------------------
(* The rows.                                                               *)

LEMMA RowStep ==
  ASSUME IInv, [Next]_vars, ShapeInv'
  PROVE  RowIsTrue'
<1> USE DEF parent
<1>1. /\ ShapeInv /\ StartInv /\ HandleInv /\ AliveInv /\ BlameInv /\ EndInv
      /\ row \in [Runs -> Rows] /\ history \in Records
  BY DEF IInv, ShapeInv
<1>2. \A r \in Runs : /\ row[r].status = "stopped" => r \in history.asked
                      /\ row[r].status = "error" => r \in history.asked \cup history.broken
                      /\ row[r].cancelled => ~row[r].dir
  BY DEF IInv, RowIsTrue, RecordIsTrue, CancelledOffersNothing
<1> DEFINE Grows == history.asked \subseteq history'.asked /\ history.broken \subseteq history'.broken
<1>3. ASSUME Grows, NEW f, Truth(f), 0 \notin Runs, RowsGoOn(f) PROVE RowIsTrue'
  <2>1. \A r \in Runs : /\ row'[r].status = "stopped" => r \in history'.asked
                        /\ row'[r].status = "error" => r \in history'.asked \cup history'.broken
                        /\ row'[r].cancelled => ~row'[r].dir
    <3>1. TAKE r \in Runs
    <3>2. CASE row'[r] = row[r]
      BY <1>2, <1>3, <3>2
    <3>3. CASE row'[r].status = "running" /\ ~(row'[r].cancelled /\ row'[r].dir)
      BY <3>3
    <3>4. CASE r = f.run /\ row'[r].status = f.status /\ ~(row'[r].cancelled /\ row'[r].dir)
      <4>1. r # 0
        BY <1>3
      <4>2. QED
        BY <1>3, <3>4, <4>1 DEF Truth, Asked, Blamed
    <3>5. QED
      BY <1>3, <3>2, <3>3, <3>4 DEF RowsGoOn
  <2>2. QED
    BY <2>1 DEF RowIsTrue, RecordIsTrue, CancelledOffersNothing
<1>4. 0 \notin Runs /\ Truth(NoFinal)
  BY Basics DEF Truth
<1>5. ASSUME Grows, UNCHANGED row PROVE RowIsTrue'
  <2>1. RowsGoOn(NoFinal)
    BY <1>5 DEF RowsGoOn
  <2>2. QED
    BY <1>3, <1>4, <1>5, <2>1
<1>6. CASE UNCHANGED vars
  BY <1>5, <1>6 DEF vars
<1>7. ASSUME NEW i \in DOMAIN worker, WorkerStep(i) PROVE RowIsTrue'
  BY <1>1, <1>5, <1>7, WorkerSteps
<1>8. ASSUME NEW i \in DOMAIN worker, WatchStep(i) PROVE RowIsTrue'
  <2>1. RowsGoOn(worker[i].fin) /\ Grows
    BY <1>1, <1>8, WatchSteps
  <2>2. Truth(worker[i].fin)
    BY <1>1 DEF BlameInv, Deserved
  <2>3. QED
    BY <1>3, <1>4, <2>1, <2>2
<1>9. CASE QuietPumpStep
  <2>1. RowsGoOn(ToWrite) /\ Grows
    BY <1>1, <1>9, QuietPumps
  <2>2. Truth(ToWrite)
    BY <1>1, <1>4 DEF BlameInv, ToWrite
  <2>3. QED
    BY <1>3, <1>4, <2>1, <2>2
<1>10. CASE HandleEvent
  BY <1>1, <1>5, <1>10, Handles
<1>11. CASE Respawn
  BY <1>1, <1>5, <1>11, Respawns
<1>12. CASE CreateRow \/ MarkStop
  <2>1. EnsureCreated
    BY <1>12 DEF CreateRow, MarkStop
  <2>2. RowsGoOn(NoFinal) /\ Grows
    BY <1>1, <2>1, Creates DEF RowsGoOn
  <2>3. QED
    BY <1>3, <1>4, <2>2
<1>13. CASE CancelRun
  <2>1. /\ Grows
        /\ \A r \in Runs : row'[r] = row[r] \/ (row'[r].status = row[r].status /\ ~row'[r].dir)
    BY <1>1, <1>13, Cancels
  <2>2. \A r \in Runs : /\ row'[r].status = "stopped" => r \in history'.asked
                        /\ row'[r].status = "error" => r \in history'.asked \cup history'.broken
                        /\ row'[r].cancelled => ~row'[r].dir
    BY <1>2, <2>1
  <2>3. QED
    BY <2>2 DEF RowIsTrue, RecordIsTrue, CancelledOffersNothing
<1>14. CASE PutStop
  BY <1>1, <1>5, <1>14, Puts
<1>15. CASE SpawnTrainer \/ Reset
  <2>1. UNCHANGED row /\ \E kind : UNCHANGED history \/ Fault(kind, history)
    BY <1>15 DEF SpawnTrainer, Reset
  <2>2. Grows
    BY <1>1, <2>1, Faulted
  <2>3. QED
    BY <1>5, <2>1, <2>2
<1>16. CASE StopAndSave \/ Cancel
  <2>1. UNCHANGED row /\ history' = [history EXCEPT !.stops = @ + 1]
    BY <1>16 DEF StopAndSave, Cancel
  <2>2. Grows
    BY <1>1, <2>1 DEF Records
  <2>3. QED
    BY <1>5, <2>1, <2>2
<1>17. CASE Reap \/ Start \/ ResetFields \/ Install \/ StartWatchdog \/ ClearState \/ EnsurePumpAlive
  <2>1. UNCHANGED <<row, history>>
    BY <1>17 DEF Reap, Start, ResetFields, Install, StartWatchdog, ClearState, EnsurePumpAlive
  <2>2. QED
    BY <1>5, <2>1
<1>18. QED
  BY <1>6, <1>7, <1>8, <1>9, <1>10, <1>11, <1>12, <1>13, <1>14, <1>15, <1>16, <1>17, Steps

-----------------------------------------------------------------------------
(* The theorems.                                                           *)

LEMMA InitInv ==
  ASSUME Init
  PROVE  IInv
<1>1. /\ worker = <<>> /\ proc = 0 /\ chan = 0 /\ flags = Fresh(0) /\ payload = NoFinal
      /\ spawning = FALSE /\ pumping = FALSE /\ pump = NoPump /\ loop = "idle"
      /\ row = [r \in Runs |-> [status |-> "none", dir |-> FALSE, cancelled |-> FALSE]]
      /\ history = [asked |-> {}, broken |-> {}, replaced |-> {}, lost |-> {},
                    stops |-> 0, faults |-> 0]
  BY DEF Init
<1>2. worker \in Seq(Trainers) /\ Len(worker) = 0 /\ DOMAIN worker = {}
  BY <1>1, EmptySeq
<1>3. 0 \in 0 .. MaxRuns /\ 0 \in 0 .. MaxStops /\ 0 \in 0 .. MaxFaults
  BY Basics
<1>4. flags \in Fields /\ payload \in Finals /\ pump \in Pumps /\ pump.pc = "none" /\ pump.back = "end"
  BY <1>1, <1>3, Basics
<1>5. row \in [Runs -> Rows] /\ history \in Records /\ loop \in LoopPlaces
  BY <1>1, <1>3 DEF Rows, Records, LoopPlaces
<1>6. ShapeInv
  <2>1. proc \in 0 .. Len(worker) /\ chan \in 0 .. Len(worker)
    BY <1>1, <1>2
  <2>2. \A i \in DOMAIN worker : worker[i].watch = "finish" => worker[i].fin.run # 0
    BY <1>2
  <2>3. spawning \in BOOLEAN /\ pumping \in BOOLEAN
    BY <1>1
  <2>4. QED
    BY <1>2, <1>4, <1>5, <2>1, <2>2, <2>3 DEF ShapeInv
<1>7. flags.job = 0 /\ ~flags.stop /\ ~flags.cancel /\ ~flags.respawn /\ ~flags.training
  BY <1>1, Basics DEF Fresh
<1>8. StartInv /\ HandleInv /\ AliveInv /\ EndInv
  BY <1>1, <1>2, <1>4, <1>7 DEF StartInv, HandleInv, AliveInv, EndInv, Startings, Spawned
<1>9. BlameInv
  BY <1>1, <1>2, <1>4, <1>7, Basics DEF BlameInv, Truth
<1>10. CountInv
  <2>1. \A r \in Runs : Of(r) = {} /\ Cardinality(Of(r)) = 0
    BY <1>2, FS_EmptySet DEF Of
  <2>2. QED
    BY <1>4, <2>1 DEF CountInv
<1>11. RowIsTrue
  BY <1>1 DEF RowIsTrue, RecordIsTrue, CancelledOffersNothing
<1>12. QED
  BY <1>6, <1>8, <1>9, <1>10, <1>11 DEF IInv

LEMMA NextInv ==
  ASSUME IInv, [Next]_vars
  PROVE  IInv'
BY ShapeStep, StartStep, HandleStep, AliveStep, BlameStep, EndStep, CountStep, RowStep DEF IInv

\* The inductive invariant holds in every reachable state.
THEOREM InvariantHolds == Spec => []IInv
<1>1. Init => IInv
  BY InitInv
<1>2. IInv /\ [Next]_vars => IInv'
  BY NextInv
<1>3. QED
  BY <1>1, <1>2, PTL DEF Spec

\* The variables keep their types, and no run is ever given a third worker: a
\* stall that comes again after the respawn is not met with another one.
THEOREM TypesAreRight == Spec => []TypeOK
<1>1. IInv => TypeOK
  <2>1. SUFFICES ASSUME IInv PROVE TypeOK
    OBVIOUS
  <2>2. /\ ShapeInv /\ CountInv /\ Len(worker) \in Nat /\ DOMAIN worker = 1 .. Len(worker)
        /\ \A i \in DOMAIN worker : worker[i] \in Trainers
    BY <2>1, Workers DEF IInv
  <2>3. \A r \in Runs : Cardinality({i \in DOMAIN worker : worker[i].run = r}) <= 2
    BY <2>2 DEF CountInv, Of
  <2>4. proc \in {0} \cup DOMAIN worker /\ chan \in {0} \cup DOMAIN worker
    BY <2>2, Workers DEF ShapeInv
  <2>5. QED
    BY <2>2, <2>3, <2>4 DEF TypeOK, ShapeInv, Trainers, Fields, Pumps, Rows, Records, LoopPlaces
<1>2. QED
  BY <1>1, InvariantHolds, PTL

\* The row of a run tells what happened to it, stopped only if somebody stopped
\* it and an error only if something broke or a stop cut it off, whoever wrote
\* it, and after a cancel it offers no directory to resume from.
THEOREM RowsAreTrue == Spec => []RowIsTrue
<1>1. IInv => RowIsTrue
  BY DEF IInv
<1>2. QED
  BY <1>1, InvariantHolds, PTL

\* Two workers are alive at once only if one of them is wedged.
THEOREM TrainersAreAlone == Spec => []OneTrainer
<1>1. IInv => OneTrainer
  <2>1. SUFFICES ASSUME IInv, NEW i \in DOMAIN worker, NEW j \in DOMAIN worker, i # j,
                        Alive(i), Alive(j)
                 PROVE  "wedged" \in {worker[i].phase, worker[j].phase}
    BY DEF OneTrainer
  <2>2. ShapeInv /\ StartInv /\ AliveInv
    BY <2>1 DEF IInv
  <2>3. /\ Gone(i) \/ i = proc \/ (loop \in Spawned /\ i = Newest)
        /\ Gone(j) \/ j = proc \/ (loop \in Spawned /\ j = Newest)
    BY <2>2 DEF AliveInv
  <2>4. loop \in Spawned => ~Alive(proc)
    BY <2>2 DEF StartInv, Spawned, Startings
  <2>5. QED
    BY <2>1, <2>3, <2>4 DEF Gone, Alive
<1>2. QED
  BY <1>1, InvariantHolds, PTL

=============================================================================
