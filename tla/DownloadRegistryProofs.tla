------------------------ MODULE DownloadRegistryProofs ------------------------
(***************************************************************************)
(* Proofs about the download registry and the threads that drive it, for   *)
(* any keys, any number of downloads and any of the cancels, retries and   *)
(* shutdowns that overtake each other.                                     *)
(***************************************************************************)
EXTENDS DownloadRegistry, FiniteSetTheorems, SequenceTheorems, TLAPS

-----------------------------------------------------------------------------
(* The inductive invariant.                                                *)

\* Where a worker's thread still carries the run of its key to its end.
Carrying == {"born", "wait", "asked", "dropped", "loop", "claim", "spawn"}

\* The event loop is launching the first worker of a run of k.
Starting(k) == loop.pc \in {"unmark", "launch"} /\ loop.key = k

\* The thread of i carries its run.
Carries(i) == worker[i].watch \in Carrying

\* The workers whose threads may still launch another, over HTTP.
Retriers == {i \in DOMAIN worker : Carries(i) /\ worker[i].transport = "xet"}

\* What the launch under way may still spawn: a worker and its retry.
ToCome == IF loop.pc \in {"unmark", "launch"} THEN 2 ELSE 0

\* Every run pays for its two workers when it is claimed.
RoomInv == Len(worker) + Cardinality(Retriers) + ToCome <= 2 * seq

\* A run under way is carried by one thread, or is about to be: the handler
\* that launches it or the thread of its worker.  The registered process of a
\* key is the worker of that thread.
RunInv ==
  /\ \A i \in DOMAIN worker :
       /\ Live(i) => worker[i].watch \in {"born", "wait", "refused"}
       /\ Carries(i) => /\ Active(worker[i].key)
                        /\ worker[i].gen = gen[worker[i].key]
                        /\ ~Starting(worker[i].key)
  /\ \A i, j \in DOMAIN worker :
       i # j /\ Carries(i) /\ Carries(j) => worker[i].key # worker[j].key
  /\ loop.pc # "idle" => loop.key \in Keys
  /\ doomed.live \subseteq DOMAIN worker
  /\ \A k \in Keys : Starting(k) => Active(k) /\ gen[k] # 0
  /\ \A k \in Keys : process[k] # 0 =>
       /\ process[k] \in DOMAIN worker
       /\ worker[process[k]].key = k
       /\ worker[process[k]].watch \in {"wait", "asked"}

\* A thread whose worker may write holds the slot, and slots held together
\* are of variants over one transport.
SlotInv ==
  /\ \A j, k \in slot : j # k /\ Active(j) /\ Active(k) =>
       Whole \notin {j, k} /\ transport[j] = transport[k]
  /\ \A k \in Keys : Starting(k) => k \in slot
  /\ \A i \in DOMAIN worker :
       /\ worker[i].watch \in {"born", "wait", "asked", "dropped"} =>
            worker[i].key \in slot /\ worker[i].transport = transport[worker[i].key]
       /\ worker[i].watch \in {"loop", "claim", "spawn"} => worker[i].transport = "xet"
       /\ worker[i].watch = "spawn" =>
            worker[i].key \in slot /\ transport[worker[i].key] = "http"

\* The current run of k was told to stop.
Stopped(k) == stopped[k] = gen[k]

\* A run that was told to stop is marked so for whoever carries it: by a
\* cancel that is armed where no worker can be signalled, by its state or an
\* armed cancel elsewhere.
CancelInv ==
  /\ CancelsHitTheirRun
  /\ \A k \in Keys :
       /\ gen[k] <= seq /\ stopped[k] <= gen[k]
       /\ job[k] = "cancelling" => Stopped(k)
       /\ Starting(k) /\ Stopped(k) => Armed(k)
  /\ \A i \in DOMAIN worker :
       /\ worker[i].watch \in {"asked", "dropped"} /\ worker[i].asked => Stopped(worker[i].key)
       /\ worker[i].watch \in {"wait", "asked", "dropped", "loop"} /\ Stopped(worker[i].key) =>
            CancelRequested(worker[i].key)
       /\ worker[i].watch \in {"claim", "spawn", "born"} /\ Stopped(worker[i].key) =>
            Armed(worker[i].key)

\* A worker that ended so that no retry follows, while its thread goes on.
Spent(i) ==
  /\ worker[i].watch \in {"wait", "asked", "dropped"} /\ ~Live(i)
  /\ worker[i].state = "done" \/ worker[i].transport = "http"

\* The jobs that the shutdown stopped.
DoomedKeys == doomed.idle \cup {worker[i].key : i \in doomed.live}

\* Once terminate_all took its snapshot, a run under way was told to stop or
\* its worker is spent; a registered worker that lives is one it will kill.
\* What it stopped has its marker when it returns, or a worker that completed,
\* and only such a worker's thread takes a marker away.
ShutdownInv ==
  /\ \A i \in DOMAIN worker : worker[i].watch = "unmark" => worker[i].state = "done"
  /\ server # "up" =>
       /\ loop.pc = "idle"
       /\ \A i \in DOMAIN worker : Carries(i) => Stopped(worker[i].key) \/ Spent(i)
       /\ \A k \in Keys : Live(process[k]) => server = "stopping" /\ process[k] \in doomed.live
  /\ server = "off" => \A k \in DoomedKeys :
       \/ k \in marker
       \/ \E i \in DOMAIN worker : worker[i].key = k /\ worker[i].state = "done"

\* No run is under way for what is reserved for a delete, and while deletes of
\* one scope do not overlap, a delete has its reservation until it ends.
DeleteInv ==
  /\ \A s \in deleting, k \in Keys : Active(k) => s # Whole /\ k # s
  /\ MaxDeletes <= 1 => \A s \in Scopes : deletes[s] > 0 => s \in deleting

\* The inductive invariant.
IInv ==
  /\ TypeOK /\ RoomInv /\ RunInv /\ SlotInv /\ CancelInv
  /\ ShutdownInv /\ DeleteInv

-----------------------------------------------------------------------------
(* What the steps do to the workers.                                       *)

\* Replacing an element of a sequence by another of its elements' type.
LEMMA WorkerPut ==
  ASSUME NEW S, NEW s \in Seq(S), NEW i \in DOMAIN s, NEW x \in S
  PROVE  LET t == [s EXCEPT ![i] = x] IN
         /\ t \in Seq(S) /\ Len(t) = Len(s) /\ DOMAIN t = DOMAIN s
         /\ \A j \in DOMAIN s : t[j] = IF j = i THEN x ELSE s[j]
<1>1. i \in 1 .. Len(s) /\ DOMAIN s = 1 .. Len(s)
  BY LenProperties
<1>2. QED
  BY <1>1, ExceptSeq

\* The thread of a worker goes on to w.
LEMMA WorkerWatched ==
  ASSUME TypeOK, NEW i \in DOMAIN worker, NEW w \in WatchStates, WatchAt(i, w)
  PROVE  /\ worker' \in Seq(Workers) /\ Len(worker') = Len(worker)
         /\ DOMAIN worker' = DOMAIN worker
         /\ \A j \in DOMAIN worker \ {i} : worker'[j] = worker[j]
         /\ worker'[i].key = worker[i].key /\ worker'[i].gen = worker[i].gen
         /\ worker'[i].watch = w
         /\ w # "over" => /\ worker'[i].transport = worker[i].transport
                          /\ worker'[i].state = worker[i].state
                          /\ worker'[i].asked = worker[i].asked
         /\ w = "over" => /\ worker'[i].state \in {"done", "failed"}
                          /\ worker[i].state = "done" => worker'[i].state = "done"
<1>1. worker \in Seq(Workers) /\ worker[i] \in Workers
  BY ElementOfSeq, LenProperties DEF TypeOK
<1>2. IF w = "over" THEN Gone(worker[i]) \in Workers ELSE [worker[i] EXCEPT !.watch = w] \in Workers
  BY <1>1 DEF Workers, Gone, WatchStates, ExitStates, Transports
<1> DEFINE x == IF w = "over" THEN Gone(worker[i]) ELSE [worker[i] EXCEPT !.watch = w]
<1>3. x \in Workers /\ worker' = [worker EXCEPT ![i] = x]
  BY <1>2 DEF WatchAt
<1>4. /\ x.key = worker[i].key /\ x.gen = worker[i].gen /\ x.watch = w
      /\ w # "over" => /\ x.transport = worker[i].transport /\ x.state = worker[i].state
                       /\ x.asked = worker[i].asked
      /\ w = "over" => x.state \in {"done", "failed"} /\ (worker[i].state = "done" => x.state = "done")
  BY <1>1 DEF Gone, Workers
<1> HIDE DEF x
<1>5. QED
  BY <1>1, <1>3, <1>4, WorkerPut

\* A worker ends.
LEMMA WorkerExits ==
  ASSUME TypeOK, NEW i \in DOMAIN worker, NEW s \in ExitStates,
         worker' = [worker EXCEPT ![i].state = s]
  PROVE  /\ worker' \in Seq(Workers) /\ Len(worker') = Len(worker)
         /\ DOMAIN worker' = DOMAIN worker
         /\ \A j \in DOMAIN worker \ {i} : worker'[j] = worker[j]
         /\ worker'[i] = [worker[i] EXCEPT !.state = s]
<1>1. worker \in Seq(Workers) /\ worker[i] \in Workers
  BY ElementOfSeq, LenProperties DEF TypeOK
<1>2. [worker[i] EXCEPT !.state = s] \in Workers
  BY <1>1 DEF Workers
<1>3. worker' = [worker EXCEPT ![i] = [worker[i] EXCEPT !.state = s]]
  OBVIOUS
<1>4. QED
  BY <1>1, <1>2, <1>3, WorkerPut

\* A thread notes whether a cancel was asked for.
LEMMA WorkerAsked ==
  ASSUME TypeOK, NEW i \in DOMAIN worker, NEW b \in BOOLEAN,
         worker' = [worker EXCEPT ![i].watch = "asked", ![i].asked = b]
  PROVE  /\ worker' \in Seq(Workers) /\ Len(worker') = Len(worker)
         /\ DOMAIN worker' = DOMAIN worker
         /\ \A j \in DOMAIN worker \ {i} : worker'[j] = worker[j]
         /\ worker'[i] = [worker[i] EXCEPT !.watch = "asked", !.asked = b]
<1>1. worker \in Seq(Workers) /\ worker[i] \in Workers
  BY ElementOfSeq, LenProperties DEF TypeOK
<1>2. [worker[i] EXCEPT !.watch = "asked", !.asked = b] \in Workers
  BY <1>1 DEF Workers, WatchStates
<1> DEFINE x == [worker[i] EXCEPT !.watch = "asked", !.asked = b]
<1>3. worker' = [worker EXCEPT ![i] = x]
  OBVIOUS
<1> HIDE DEF x
<1>4. x \in Workers
  BY <1>2 DEF x
<1>5. worker' \in Seq(Workers) /\ Len(worker') = Len(worker) /\ DOMAIN worker' = DOMAIN worker
      /\ \A j \in DOMAIN worker : worker'[j] = IF j = i THEN x ELSE worker[j]
  BY ONLY <1>1, <1>3, <1>4, i \in DOMAIN worker, WorkerPut
<1>6. QED
  BY <1>5 DEF x

\* Some workers are killed.
LEMMA WorkersKilled ==
  ASSUME TypeOK, NEW ws, Killed(ws)
  PROVE  /\ worker' \in Seq(Workers) /\ Len(worker') = Len(worker)
         /\ DOMAIN worker' = DOMAIN worker
         /\ \A j \in DOMAIN worker :
              /\ worker'[j].key = worker[j].key /\ worker'[j].gen = worker[j].gen
              /\ worker'[j].watch = worker[j].watch /\ worker'[j].asked = worker[j].asked
              /\ worker'[j].transport = worker[j].transport
              /\ worker'[j].state # worker[j].state => Live(j) /\ worker'[j].state = "killed"
<1>1. worker \in Seq(Workers) /\ DOMAIN worker = 1 .. Len(worker) /\ Len(worker) \in Nat
  BY LenProperties DEF TypeOK
<1>2. ASSUME NEW j \in DOMAIN worker
      PROVE  worker[j] \in Workers /\ [worker[j] EXCEPT !.state = "killed"] \in Workers
  <2>1. worker[j] \in Workers
    BY <1>1, ElementOfSeq
  <2>2. QED
    BY <2>1 DEF Workers, ExitStates
<1>3. worker' = [j \in 1 .. Len(worker) |-> IF j \in ws /\ Live(j)
                  THEN [worker[j] EXCEPT !.state = "killed"] ELSE worker[j]]
  BY <1>1 DEF Killed
<1>4. worker' \in Seq(Workers) /\ Len(worker') = Len(worker)
  BY <1>1, <1>2, <1>3, IsASeq
<1>5. QED
  BY <1>1, <1>2, <1>3, <1>4 DEF Workers

\* A worker is spawned.
LEMMA WorkerAdded ==
  ASSUME TypeOK, NEW x \in Workers, worker' = Append(worker, x)
  PROVE  /\ worker' \in Seq(Workers) /\ Len(worker') = Len(worker) + 1
         /\ Len(worker) \in Nat /\ DOMAIN worker = 1 .. Len(worker)
         /\ DOMAIN worker' = DOMAIN worker \cup {Len(worker) + 1}
         /\ Len(worker) + 1 \notin DOMAIN worker
         /\ \A j \in DOMAIN worker : worker'[j] = worker[j]
         /\ worker'[Len(worker) + 1] = x
BY AppendProperties, LenProperties DEF TypeOK

\* A thread is over and leaves a new worker behind.
LEMMA WorkerReplaced ==
  ASSUME TypeOK, NEW i \in DOMAIN worker, NEW x \in Workers,
         worker' = Append([worker EXCEPT ![i] = Gone(@)], x)
  PROVE  /\ worker' \in Seq(Workers) /\ Len(worker') = Len(worker) + 1
         /\ Len(worker) \in Nat /\ DOMAIN worker = 1 .. Len(worker)
         /\ DOMAIN worker' = DOMAIN worker \cup {Len(worker) + 1}
         /\ Len(worker) + 1 \notin DOMAIN worker
         /\ \A j \in DOMAIN worker \ {i} : worker'[j] = worker[j]
         /\ worker'[i].key = worker[i].key /\ worker'[i].gen = worker[i].gen
         /\ worker'[i].watch = "over" /\ worker'[i].state \in {"done", "failed"}
         /\ worker[i].state = "done" => worker'[i].state = "done"
         /\ worker'[Len(worker) + 1] = x
<1>1. worker \in Seq(Workers) /\ worker[i] \in Workers
  BY ElementOfSeq, LenProperties DEF TypeOK
<1>2. Gone(worker[i]) \in Workers
  BY <1>1 DEF Workers, Gone, WatchStates, ExitStates, Transports
<1> DEFINE s == [worker EXCEPT ![i] = Gone(worker[i])]
<1>3. /\ s \in Seq(Workers) /\ Len(s) = Len(worker) /\ DOMAIN s = DOMAIN worker
      /\ \A j \in DOMAIN worker : s[j] = IF j = i THEN Gone(worker[i]) ELSE worker[j]
  BY <1>1, <1>2, WorkerPut
<1>4. worker' = Append(s, x)
  OBVIOUS
<1> HIDE DEF s
<1>5. /\ Append(s, x) \in Seq(Workers) /\ Len(Append(s, x)) = Len(s) + 1
      /\ \A j \in 1 .. Len(s) : Append(s, x)[j] = s[j]
      /\ Append(s, x)[Len(s) + 1] = x
  BY <1>3, AppendProperties
<1>6. DOMAIN worker = 1 .. Len(worker) /\ Len(worker) \in Nat /\ DOMAIN worker' = 1 .. Len(worker')
  BY <1>1, <1>4, <1>5, LenProperties
<1>7. Gone(worker[i]).key = worker[i].key /\ Gone(worker[i]).gen = worker[i].gen
      /\ Gone(worker[i]).watch = "over" /\ Gone(worker[i]).state \in {"done", "failed"}
      /\ (worker[i].state = "done" => Gone(worker[i]).state = "done")
  BY <1>1 DEF Gone, Workers
<1>8. DOMAIN worker' = DOMAIN worker \cup {Len(worker) + 1} /\ Len(worker) + 1 \notin DOMAIN worker
  BY <1>3, <1>4, <1>5, <1>6
<1>9. \A j \in DOMAIN worker : worker'[j] = IF j = i THEN Gone(worker[i]) ELSE worker[j]
  BY <1>3, <1>4, <1>5, <1>6
<1>10. QED
  BY <1>3, <1>4, <1>5, <1>6, <1>7, <1>8, <1>9

\* The types that the other parts of the invariant rest on.
KeysOK ==
  /\ job \in [Keys -> {"idle"} \cup ActiveStates \cup TerminalStates]
  /\ slot \subseteq Keys
  /\ transport \in [Keys -> Transports]
  /\ gen \in [Keys -> Nat] /\ seq \in Nat
  /\ pending \in [Keys -> Nat] /\ NoCancel \in Nat
  /\ process \in [Keys -> Nat]
  /\ stopped \in [Keys -> Nat]
  /\ loop.gen # NoCancel /\ \A k \in Keys : gen[k] # NoCancel
  /\ 0 \notin DOMAIN worker
  /\ \A i \in DOMAIN worker : /\ worker[i].key \in Keys /\ worker[i].gen \in Nat
                              /\ worker[i].asked \in BOOLEAN

\* No worker is spawned, or one is.
Kept == worker' \in Seq(Workers) /\ Len(worker') = Len(worker) /\ DOMAIN worker' = DOMAIN worker

Longer == worker' \in Seq(Workers) /\ Len(worker') = Len(worker) + 1

\* What changes when the thread of worker i goes on to w.
Moved(i, w) ==
  /\ DOMAIN worker' = DOMAIN worker
  /\ \A j \in DOMAIN worker \ {i} : worker'[j] = worker[j]
  /\ worker'[i].key = worker[i].key /\ worker'[i].gen = worker[i].gen
  /\ worker'[i].watch = w
  /\ w # "over" => /\ worker'[i].transport = worker[i].transport
                   /\ worker'[i].state = worker[i].state
                   /\ worker'[i].asked = worker[i].asked
  /\ w = "over" => /\ worker'[i].state \in {"done", "failed"}
                   /\ worker[i].state = "done" => worker'[i].state = "done"

\* The types give those.
LEMMA KeysTyped == TypeOK => KeysOK
<1> SUFFICES ASSUME TypeOK PROVE KeysOK
  OBVIOUS
<1>1. MaxRuns \in Nat /\ MaxWorkers \in Nat
  BY MaxRunsAssumption DEF MaxWorkers
<1>2. 0 \notin DOMAIN worker
  BY LenProperties DEF TypeOK
<1>3. ASSUME NEW i \in DOMAIN worker
      PROVE  worker[i].key \in Keys /\ worker[i].gen \in Nat /\ worker[i].asked \in BOOLEAN
  <2>1. worker[i] \in Workers
    BY LenProperties, ElementOfSeq DEF TypeOK
  <2>2. QED
    BY <1>1, <2>1 DEF Workers
<1>4. QED
  BY <1>1, <1>2, <1>3 DEF TypeOK, KeysOK, NoCancel

\* WatchAt, seen from the workers.
LEMMA Moves ==
  TypeOK => \A i \in DOMAIN worker, w \in WatchStates : WatchAt(i, w) => Moved(i, w) /\ Kept
BY WorkerWatched DEF Moved, Kept

\* What changes in a worker that stays with its thread.
Changed(i, w, s, b) ==
  /\ DOMAIN worker' = DOMAIN worker
  /\ \A j \in DOMAIN worker \ {i} : worker'[j] = worker[j]
  /\ worker'[i].key = worker[i].key /\ worker'[i].gen = worker[i].gen
  /\ worker'[i].transport = worker[i].transport
  /\ worker'[i].watch = w /\ worker'[i].state = s /\ worker'[i].asked = b

\* Exit, seen from the workers.
LEMMA Exits ==
  TypeOK => \A i \in DOMAIN worker : Exit(i) =>
              Kept /\ \E s \in ExitStates : Changed(i, worker[i].watch, s, worker[i].asked)
<1> SUFFICES ASSUME TypeOK, NEW i \in DOMAIN worker, Exit(i)
             PROVE  Kept /\ \E s \in ExitStates : Changed(i, worker[i].watch, s, worker[i].asked)
  OBVIOUS
<1>1. PICK s \in ExitStates : worker' = [worker EXCEPT ![i].state = s]
  BY DEF Exit
<1>2. worker[i] \in Workers
  BY LenProperties, ElementOfSeq DEF TypeOK
<1>3. QED
  BY <1>1, <1>2, WorkerExits DEF Changed, Workers, Kept

\* AskCancel, seen from the workers.
LEMMA Asks ==
  TypeOK => \A i \in DOMAIN worker : AskCancel(i) =>
              Kept /\ Changed(i, "asked", worker[i].state, CancelRequested(worker[i].key))
<1> SUFFICES ASSUME TypeOK, NEW i \in DOMAIN worker, AskCancel(i)
             PROVE  Kept /\ Changed(i, "asked", worker[i].state, CancelRequested(worker[i].key))
  OBVIOUS
<1>1. worker[i] \in Workers
  BY LenProperties, ElementOfSeq DEF TypeOK
<1>2. CancelRequested(worker[i].key) \in BOOLEAN
  BY DEF CancelRequested, Armed
<1>3. worker' = [worker EXCEPT ![i].watch = "asked", ![i].asked = CancelRequested(worker[i].key)]
  BY DEF AskCancel
<1>4. QED
  BY <1>1, <1>2, <1>3, WorkerAsked DEF Changed, Workers, Kept

\* A worker of the current run of k over t was added.
Grown(k, t) ==
  \E n : /\ n \notin DOMAIN worker /\ n # 0
         /\ DOMAIN worker' = DOMAIN worker \cup {n}
         /\ worker'[n].key = k /\ worker'[n].gen = gen[k] /\ worker'[n].transport = t
         /\ worker'[n].state = "live" /\ worker'[n].watch = "born" /\ worker'[n].asked = FALSE

\* The launch of a run's first worker.
LEMMA Launches ==
  ASSUME TypeOK, NEW k \in Keys, gen[k] # 0, worker' = Append(worker, SpawnedWorker(k, transport[k]))
  PROVE  /\ Longer /\ Grown(k, transport[k])
         /\ \A j \in DOMAIN worker : worker'[j] = worker[j]
<1>1. SpawnedWorker(k, transport[k]) \in Workers
  BY DEF TypeOK, SpawnedWorker, Workers, WatchStates, ExitStates
<1>2. QED
  <2>1. /\ Longer /\ DOMAIN worker' = DOMAIN worker \cup {Len(worker) + 1}
        /\ Len(worker) + 1 \notin DOMAIN worker /\ Len(worker) + 1 # 0
        /\ \A j \in DOMAIN worker : worker'[j] = worker[j]
        /\ worker'[Len(worker) + 1] = SpawnedWorker(k, transport[k])
    BY <1>1, WorkerAdded DEF Longer
  <2>2. QED
    BY <2>1 DEF Grown, SpawnedWorker

\* The launch of its HTTP retry.
LEMMA Relaunches ==
  ASSUME TypeOK, NEW i \in DOMAIN worker, worker[i].gen = gen[worker[i].key],
         worker' = Append([worker EXCEPT ![i] = Gone(@)], SpawnedWorker(worker[i].key, "http"))
  PROVE  /\ Longer /\ Grown(worker[i].key, "http")
         /\ \A j \in DOMAIN worker \ {i} : worker'[j] = worker[j]
         /\ worker'[i].key = worker[i].key /\ worker'[i].gen = worker[i].gen
         /\ worker'[i].watch = "over" /\ worker'[i].state \in {"done", "failed"}
         /\ worker[i].state = "done" => worker'[i].state = "done"
<1>1. worker[i] \in Workers
  BY LenProperties, ElementOfSeq DEF TypeOK
<1>2. SpawnedWorker(worker[i].key, "http") \in Workers
  BY <1>1 DEF TypeOK, SpawnedWorker, Workers, WatchStates, ExitStates, Transports
<1>3. QED
  <2>1. /\ Longer /\ DOMAIN worker' = DOMAIN worker \cup {Len(worker) + 1}
        /\ Len(worker) + 1 \notin DOMAIN worker /\ Len(worker) + 1 # 0
        /\ \A j \in DOMAIN worker \ {i} : worker'[j] = worker[j]
        /\ worker'[i].key = worker[i].key /\ worker'[i].gen = worker[i].gen
        /\ worker'[i].watch = "over" /\ worker'[i].state \in {"done", "failed"}
        /\ worker[i].state = "done" => worker'[i].state = "done"
        /\ worker'[Len(worker) + 1] = SpawnedWorker(worker[i].key, "http")
    BY <1>2, WorkerReplaced DEF Longer
  <2>2. QED
    BY <2>1 DEF Grown, SpawnedWorker

\* Workers only change by being killed.
Slain == 
  /\ DOMAIN worker' = DOMAIN worker
  /\ \A j \in DOMAIN worker :
              /\ worker'[j].key = worker[j].key /\ worker'[j].gen = worker[j].gen
              /\ worker'[j].watch = worker[j].watch /\ worker'[j].asked = worker[j].asked
              /\ worker'[j].transport = worker[j].transport
              /\ worker'[j].state # worker[j].state => Live(j) /\ worker'[j].state = "killed"

\* The kills of a cancel and of the shutdown.
LEMMA Kills ==
  ASSUME TypeOK, Kill \/ KillAndReap
  PROVE  Slain /\ Kept
BY WorkersKilled DEF Slain, Kept, Kill, KillAndReap

\* After the shutdown's kills none of its snapshot lives.
LEMMA NoneLives ==
  ASSUME TypeOK, KillAndReap, NEW i \in DOMAIN worker, i \in doomed.live
  PROVE  ~(Live(i))'
BY DEF KillAndReap, Killed, Live

-----------------------------------------------------------------------------
(* Every step keeps the invariant.                                         *)

\* A handler that launches a worker launches it for a run.
LEMMA NextKeysHaveRuns ==
  ASSUME IInv, loop.pc = "launch" PROVE loop.key \in Keys /\ gen[loop.key] # 0
BY DEF IInv, RunInv, Starting

\* The retriers are finitely many.
LEMMA RetriersFacts ==
  ASSUME TypeOK
  PROVE  IsFiniteSet(Retriers) /\ Cardinality(Retriers) \in Nat /\ Len(worker) \in Nat /\ seq \in Nat
<1>1. Len(worker) \in Nat /\ DOMAIN worker = 1 .. Len(worker) /\ seq \in Nat
  BY LenProperties, MaxRunsAssumption DEF TypeOK
<1>2. IsFiniteSet(DOMAIN worker)
  BY <1>1, FS_Interval
<1>3. IsFiniteSet(Retriers)
  BY <1>2, FS_Subset DEF Retriers
<1>4. QED
  BY <1>1, <1>3, FS_CardinalityType

\* A step that spawns nothing and makes nobody a retrier leaves room.
LEMMA RoomKept ==
  ASSUME TypeOK, RoomInv, Kept, seq' = seq, ToCome' \in {0, ToCome},
         \A j \in DOMAIN worker :
           worker'[j].watch \in Carrying /\ worker'[j].transport = "xet" =>
             worker[j].watch \in Carrying /\ worker[j].transport = "xet"
  PROVE  RoomInv'
<1>1. Retriers' \subseteq Retriers
  BY DEF Kept, Retriers, Carries
<1>2. Cardinality(Retriers') <= Cardinality(Retriers) /\ Cardinality(Retriers') \in Nat
  BY <1>1, RetriersFacts, FS_Subset, FS_CardinalityType
<1>3. ToCome \in Nat /\ ToCome' \in Nat /\ ToCome' <= ToCome
  BY DEF ToCome
<1>4. QED
  BY <1>2, <1>3, RetriersFacts DEF RoomInv, Kept

\* Every step keeps one carrier per run.
LEMMA RunStep ==
  IInv /\ [Next]_vars => RunInv'
<1> SUFFICES ASSUME IInv, [Next]_vars PROVE RunInv'
  OBVIOUS
<1>a. TypeOK /\ KeysOK /\ RunInv
  BY KeysTyped DEF IInv
<1> USE <1>a
    DEF KeysOK, WatchStates, Active, ActiveStates, TerminalStates, Starting, Carries,
        Carrying, registry, RunInv, Live, ExitStates
<1>1. ASSUME NEW k \in Keys, NEW t \in Transports, Start(k, t) PROVE RunInv'
  BY <1>1 DEF Start, Claim, Conflicts, Concurrent, BeingDeleted, NoHandler
<1>2. ASSUME NEW k \in Keys, NEW g \in 0 .. gen[k], FindProcess(k, g) PROVE RunInv'
  BY <1>2 DEF FindProcess
<1>3. ASSUME ClearMarker PROVE RunInv'
  BY <1>3 DEF ClearMarker
<1>4. ASSUME Launch PROVE RunInv'
  <2>1. CASE worker' = Append(worker, SpawnedWorker(loop.key, transport[loop.key]))
             /\ loop' = [loop EXCEPT !.pc = "register"] /\ UNCHANGED <<job, slot, pending>>
    <3>1. loop.pc = "launch" /\ loop.key \in Keys /\ gen[loop.key] # 0
      BY <1>4, NextKeysHaveRuns DEF Launch
    <3>2. /\ Grown(loop.key, transport[loop.key])
          /\ \A j \in DOMAIN worker : worker'[j] = worker[j]
      BY <2>1, <3>1, Launches
    <3>3. /\ UNCHANGED <<job, slot, transport, gen, seq, pending, process, doomed, stopped>>
          /\ loop' = [loop EXCEPT !.pc = "register"]
      BY <1>4, <2>1 DEF Launch
    <3>4. QED
      BY <3>1, <3>2, <3>3 DEF Grown
  <2>2. CASE Settle(loop.key, "error") /\ loop' = NoHandler /\ UNCHANGED worker
    BY <1>4, <2>2 DEF Launch, Settle, NoHandler
  <2>3. QED
    BY <1>4, <2>1, <2>2 DEF Launch
<1>5. ASSUME ArmCancel PROVE RunInv'
  BY <1>5 DEF ArmCancel, MarkPendingCancel, Cancelling, NoHandler
<1>6. ASSUME RequestCancel PROVE RunInv'
  BY <1>6 DEF RequestCancel, Cancelling
<1>7. ASSUME Kill PROVE RunInv'
  BY <1>7, Kills DEF Kill, NoHandler, Slain
<1>8. ASSUME LeaveToWatcher PROVE RunInv'
  BY <1>8 DEF LeaveToWatcher, NoHandler
<1>9. ASSUME NEW i \in DOMAIN worker, Exit(i) PROVE RunInv'
  BY <1>9, Exits DEF Exit, ExitStates, Changed
<1>10. ASSUME NEW i \in DOMAIN worker, Register(i) PROVE RunInv'
  BY <1>10, Moves DEF Register, Settle, NoHandler, Moved
<1>11. ASSUME NEW i \in DOMAIN worker, KillRefused(i) PROVE RunInv'
  BY <1>11, Moves DEF KillRefused, Moved
<1>12. ASSUME NEW i \in DOMAIN worker, AskCancel(i) PROVE RunInv'
  <2>1. Changed(i, "asked", worker[i].state, CancelRequested(worker[i].key))
    BY <1>12, Asks
  <2>2. QED
    BY <1>12, <2>1 DEF AskCancel, Changed, registry, Exited, Live
<1>13. ASSUME NEW i \in DOMAIN worker, DropProcess(i) PROVE RunInv'
  BY <1>13, Moves DEF DropProcess, Moved
<1>14. ASSUME NEW i \in DOMAIN worker, Classify(i) PROVE RunInv'
  BY <1>14, Moves DEF Classify, Settle, ExitCancelled, Retryable, Moved
<1>15. ASSUME NEW i \in DOMAIN worker, WriteMarker(i) PROVE RunInv'
  BY <1>15, Moves DEF WriteMarker, Moved
<1>16. ASSUME NEW i \in DOMAIN worker, LookForCancel(i) PROVE RunInv'
  BY <1>16, Moves DEF LookForCancel, GiveUp, FailedState, Settle, Moved
<1>17. ASSUME NEW i \in DOMAIN worker, Reclaim(i) PROVE RunInv'
  BY <1>17, Moves
    DEF Reclaim, GiveUp, FailedState, Settle, FreeForRetry, Conflicts, Concurrent, Claim,
        BeingDeleted, Moved
<1>18. ASSUME NEW i \in DOMAIN worker, Relaunch(i) PROVE RunInv'
  <2>1. CASE /\ worker' = Append([worker EXCEPT ![i] = Gone(@)], SpawnedWorker(worker[i].key, "http"))
             /\ UNCHANGED <<job, slot, pending, transport>>
    <3>1. worker[i].watch = "spawn" /\ worker[i].gen = gen[worker[i].key]
      BY <1>18 DEF Relaunch
    <3>2. /\ Grown(worker[i].key, "http")
          /\ \A j \in DOMAIN worker \ {i} : worker'[j] = worker[j]
          /\ worker'[i].key = worker[i].key /\ worker'[i].gen = worker[i].gen
          /\ worker'[i].watch = "over" /\ worker'[i].state \in {"done", "failed"}
      BY <2>1, <3>1, Relaunches
    <3>3. UNCHANGED <<job, slot, transport, gen, seq, pending, process, loop, doomed, stopped>>
      BY <1>18, <2>1 DEF Relaunch
    <3>4. QED
      BY <3>1, <3>2, <3>3 DEF Grown
  <2>2. CASE GiveUp(i) /\ transport' = [transport EXCEPT ![worker[i].key] = "xet"]
    <3>1. worker[i].watch = "spawn" /\ UNCHANGED <<gen, seq, process, loop, doomed, stopped>>
      BY <1>18 DEF Relaunch
    <3>2. PICK w \in {"mark", "over"} :
            /\ Moved(i, w)
            /\ w = "mark" <=> FailedState(worker[i].key) = "cancelled"
      BY <2>2, Moves DEF GiveUp
    <3>3. Settle(worker[i].key, FailedState(worker[i].key))
      BY <2>2 DEF GiveUp
    <3>4. QED
      BY <2>2, <3>1, <3>2, <3>3 DEF FailedState, Settle, Moved
  <2>3. QED
    BY <1>18, <2>1, <2>2 DEF Relaunch
<1>19. ASSUME NEW s \in Scopes, BeginDelete(s) PROVE RunInv'
  BY <1>19 DEF BeginDelete
<1>20. ASSUME NEW s \in Scopes, EndDelete(s) PROVE RunInv'
  BY <1>20 DEF EndDelete
<1>21. ASSUME Snapshot PROVE RunInv'
  BY <1>21 DEF Snapshot, IdleJobs
<1>22. ASSUME KillAndReap PROVE RunInv'
  BY <1>22, Kills DEF KillAndReap, Slain
<1>23. CASE UNCHANGED vars
  BY <1>23 DEF vars
<1>24. QED
  BY <1>1, <1>2, <1>3, <1>4, <1>5, <1>6, <1>7, <1>8, <1>9, <1>10, <1>11, <1>12, <1>13,
     <1>14, <1>15, <1>16, <1>17, <1>18, <1>19, <1>20, <1>21, <1>22, <1>23
  DEF Next, Handler, Watcher

\* Every step keeps the slots apart.
LEMMA SlotStep ==
  IInv /\ [Next]_vars => SlotInv'
<1> SUFFICES ASSUME IInv, [Next]_vars PROVE SlotInv'
  OBVIOUS
<1>a. TypeOK /\ KeysOK /\ RunInv /\ SlotInv
  BY KeysTyped DEF IInv
<1> USE <1>a
    DEF KeysOK, WatchStates, Active, ActiveStates, TerminalStates, Starting, Carries,
        Carrying, registry, RunInv, SlotInv
<1>1. ASSUME NEW k \in Keys, NEW t \in Transports, Start(k, t) PROVE SlotInv'
  BY <1>1 DEF Start, Claim, Conflicts, Concurrent, BeingDeleted, NoHandler
<1>2. ASSUME NEW k \in Keys, NEW g \in 0 .. gen[k], FindProcess(k, g) PROVE SlotInv'
  BY <1>2 DEF FindProcess
<1>3. ASSUME ClearMarker PROVE SlotInv'
  BY <1>3 DEF ClearMarker
<1>4. ASSUME Launch PROVE SlotInv'
  <2>1. CASE worker' = Append(worker, SpawnedWorker(loop.key, transport[loop.key]))
             /\ loop' = [loop EXCEPT !.pc = "register"] /\ UNCHANGED <<job, slot, pending>>
    <3>1. loop.pc = "launch" /\ loop.key \in Keys /\ gen[loop.key] # 0
      BY <1>4, NextKeysHaveRuns DEF Launch
    <3>2. /\ Grown(loop.key, transport[loop.key])
          /\ \A j \in DOMAIN worker : worker'[j] = worker[j]
      BY <2>1, <3>1, Launches
    <3>3. /\ UNCHANGED <<job, slot, transport, gen, seq, pending, process, doomed, stopped>>
          /\ loop' = [loop EXCEPT !.pc = "register"]
      BY <1>4, <2>1 DEF Launch
    <3>4. QED
      BY <3>1, <3>2, <3>3 DEF Grown
  <2>2. CASE Settle(loop.key, "error") /\ loop' = NoHandler /\ UNCHANGED worker
    BY <1>4, <2>2 DEF Launch, Settle, NoHandler
  <2>3. QED
    BY <1>4, <2>1, <2>2 DEF Launch
<1>5. ASSUME ArmCancel PROVE SlotInv'
  BY <1>5 DEF ArmCancel, MarkPendingCancel, Cancelling, NoHandler
<1>6. ASSUME RequestCancel PROVE SlotInv'
  BY <1>6 DEF RequestCancel, Cancelling
<1>7. ASSUME Kill PROVE SlotInv'
  BY <1>7, Kills DEF Kill, NoHandler, Slain
<1>8. ASSUME LeaveToWatcher PROVE SlotInv'
  BY <1>8 DEF LeaveToWatcher, NoHandler
<1>9. ASSUME NEW i \in DOMAIN worker, Exit(i) PROVE SlotInv'
  BY <1>9, Exits DEF Exit, ExitStates, Changed
<1>10. ASSUME NEW i \in DOMAIN worker, Register(i) PROVE SlotInv'
  BY <1>10, Moves DEF Register, Settle, NoHandler, Moved
<1>11. ASSUME NEW i \in DOMAIN worker, KillRefused(i) PROVE SlotInv'
  BY <1>11, Moves DEF KillRefused, Moved
<1>12. ASSUME NEW i \in DOMAIN worker, AskCancel(i) PROVE SlotInv'
  <2>1. Changed(i, "asked", worker[i].state, CancelRequested(worker[i].key))
    BY <1>12, Asks
  <2>2. QED
    BY <1>12, <2>1 DEF AskCancel, Changed, registry, Exited, Live
<1>13. ASSUME NEW i \in DOMAIN worker, DropProcess(i) PROVE SlotInv'
  BY <1>13, Moves DEF DropProcess, Moved
<1>14. ASSUME NEW i \in DOMAIN worker, Classify(i) PROVE SlotInv'
  BY <1>14, Moves DEF Classify, Settle, ExitCancelled, Retryable, Moved
<1>15. ASSUME NEW i \in DOMAIN worker, WriteMarker(i) PROVE SlotInv'
  BY <1>15, Moves DEF WriteMarker, Moved
<1>16. ASSUME NEW i \in DOMAIN worker, LookForCancel(i) PROVE SlotInv'
  BY <1>16, Moves DEF LookForCancel, GiveUp, FailedState, Settle, Moved
<1>17. ASSUME NEW i \in DOMAIN worker, Reclaim(i) PROVE SlotInv'
  BY <1>17, Moves
    DEF Reclaim, GiveUp, FailedState, Settle, FreeForRetry, Conflicts, Concurrent, Claim,
        BeingDeleted, Moved
<1>18. ASSUME NEW i \in DOMAIN worker, Relaunch(i) PROVE SlotInv'
  <2>1. CASE /\ worker' = Append([worker EXCEPT ![i] = Gone(@)], SpawnedWorker(worker[i].key, "http"))
             /\ UNCHANGED <<job, slot, pending, transport>>
    <3>1. worker[i].watch = "spawn" /\ worker[i].gen = gen[worker[i].key]
      BY <1>18 DEF Relaunch
    <3>2. /\ Grown(worker[i].key, "http")
          /\ \A j \in DOMAIN worker \ {i} : worker'[j] = worker[j]
          /\ worker'[i].key = worker[i].key /\ worker'[i].gen = worker[i].gen
          /\ worker'[i].watch = "over" /\ worker'[i].state \in {"done", "failed"}
      BY <2>1, <3>1, Relaunches
    <3>3. UNCHANGED <<job, slot, transport, gen, seq, pending, process, loop, doomed, stopped>>
      BY <1>18, <2>1 DEF Relaunch
    <3>4. QED
      BY <3>1, <3>2, <3>3 DEF Grown
  <2>2. CASE GiveUp(i) /\ transport' = [transport EXCEPT ![worker[i].key] = "xet"]
    <3>1. worker[i].watch = "spawn" /\ UNCHANGED <<gen, seq, process, loop, doomed, stopped>>
      BY <1>18 DEF Relaunch
    <3>2. PICK w \in {"mark", "over"} :
            /\ Moved(i, w)
            /\ w = "mark" <=> FailedState(worker[i].key) = "cancelled"
      BY <2>2, Moves DEF GiveUp
    <3>3. Settle(worker[i].key, FailedState(worker[i].key))
      BY <2>2 DEF GiveUp
    <3>4. QED
      BY <2>2, <3>1, <3>2, <3>3 DEF FailedState, Settle, Moved
  <2>3. QED
    BY <1>18, <2>1, <2>2 DEF Relaunch
<1>19. ASSUME NEW s \in Scopes, BeginDelete(s) PROVE SlotInv'
  BY <1>19 DEF BeginDelete
<1>20. ASSUME NEW s \in Scopes, EndDelete(s) PROVE SlotInv'
  BY <1>20 DEF EndDelete
<1>21. ASSUME Snapshot PROVE SlotInv'
  BY <1>21 DEF Snapshot, IdleJobs
<1>22. ASSUME KillAndReap PROVE SlotInv'
  BY <1>22, Kills DEF KillAndReap, Slain
<1>23. CASE UNCHANGED vars
  BY <1>23 DEF vars
<1>24. QED
  BY <1>1, <1>2, <1>3, <1>4, <1>5, <1>6, <1>7, <1>8, <1>9, <1>10, <1>11, <1>12, <1>13,
     <1>14, <1>15, <1>16, <1>17, <1>18, <1>19, <1>20, <1>21, <1>22, <1>23
  DEF Next, Handler, Watcher

\* Every step keeps the cancels with their runs.
LEMMA CancelStep ==
  IInv /\ [Next]_vars => CancelInv'
<1> SUFFICES ASSUME IInv, [Next]_vars PROVE CancelInv'
  OBVIOUS
<1>a. TypeOK /\ KeysOK /\ RunInv /\ CancelInv
  BY KeysTyped DEF IInv
<1> USE <1>a
    DEF KeysOK, WatchStates, Active, ActiveStates, TerminalStates, Starting, Carries,
        Carrying, registry, RunInv, Live, Exited, ExitStates, CancelInv, CancelsHitTheirRun,
        NoStaleCancel, OnlyStoppedAreCancelled, Stopped, Armed, GenMatches, CancelRequested
<1>1. ASSUME NEW k \in Keys, NEW t \in Transports, Start(k, t) PROVE CancelInv'
  BY <1>1 DEF Start, Claim, Conflicts, Concurrent, BeingDeleted, NoHandler
<1>2. ASSUME NEW k \in Keys, NEW g \in 0 .. gen[k], FindProcess(k, g) PROVE CancelInv'
  BY <1>2 DEF FindProcess
<1>3. ASSUME ClearMarker PROVE CancelInv'
  BY <1>3 DEF ClearMarker
<1>4. ASSUME Launch PROVE CancelInv'
  <2>1. CASE worker' = Append(worker, SpawnedWorker(loop.key, transport[loop.key]))
             /\ loop' = [loop EXCEPT !.pc = "register"] /\ UNCHANGED <<job, slot, pending>>
    <3>1. loop.pc = "launch" /\ loop.key \in Keys /\ gen[loop.key] # 0
      BY <1>4, NextKeysHaveRuns DEF Launch
    <3>2. /\ Grown(loop.key, transport[loop.key])
          /\ \A j \in DOMAIN worker : worker'[j] = worker[j]
      BY <2>1, <3>1, Launches
    <3>3. /\ UNCHANGED <<job, slot, transport, gen, seq, pending, process, doomed, stopped>>
          /\ loop' = [loop EXCEPT !.pc = "register"]
      BY <1>4, <2>1 DEF Launch
    <3>4. QED
      BY <3>1, <3>2, <3>3 DEF Grown
  <2>2. CASE Settle(loop.key, "error") /\ loop' = NoHandler /\ UNCHANGED worker
    BY <1>4, <2>2 DEF Launch, Settle, NoHandler
  <2>3. QED
    BY <1>4, <2>1, <2>2 DEF Launch
<1>5. ASSUME ArmCancel PROVE CancelInv'
  BY <1>5 DEF ArmCancel, MarkPendingCancel, Cancelling, NoHandler
<1>6. ASSUME RequestCancel PROVE CancelInv'
  BY <1>6 DEF RequestCancel, Cancelling
<1>7. ASSUME Kill PROVE CancelInv'
  BY <1>7, Kills DEF Kill, NoHandler, Slain
<1>8. ASSUME LeaveToWatcher PROVE CancelInv'
  BY <1>8 DEF LeaveToWatcher, NoHandler
<1>9. ASSUME NEW i \in DOMAIN worker, Exit(i) PROVE CancelInv'
  BY <1>9, Exits DEF Exit, ExitStates, Changed
<1>10. ASSUME NEW i \in DOMAIN worker, Register(i) PROVE CancelInv'
  BY <1>10, Moves DEF Register, Settle, NoHandler, Moved
<1>11. ASSUME NEW i \in DOMAIN worker, KillRefused(i) PROVE CancelInv'
  BY <1>11, Moves DEF KillRefused, Moved
<1>12. ASSUME NEW i \in DOMAIN worker, AskCancel(i) PROVE CancelInv'
  <2>1. Changed(i, "asked", worker[i].state, CancelRequested(worker[i].key))
    BY <1>12, Asks
  <2>2. worker'[i].asked = CancelRequested(worker[i].key)
    BY <2>1 DEF Changed
  <2>3. worker'[i].asked => CancelRequested(worker[i].key)
    BY <2>2
  <2>4. worker[i].watch = "wait" /\ UNCHANGED <<registry, loop, stopped>>
    BY <1>12 DEF AskCancel
  <2>5. /\ DOMAIN worker' = DOMAIN worker
        /\ \A j \in DOMAIN worker \ {i} : worker'[j] = worker[j]
        /\ worker'[i].key = worker[i].key /\ worker'[i].watch = "asked"
    BY <2>1 DEF Changed
  <2>6. QED
    BY <2>3, <2>4, <2>5
<1>13. ASSUME NEW i \in DOMAIN worker, DropProcess(i) PROVE CancelInv'
  BY <1>13, Moves DEF DropProcess, Moved
<1>14. ASSUME NEW i \in DOMAIN worker, Classify(i) PROVE CancelInv'
  BY <1>14, Moves DEF Classify, Settle, ExitCancelled, Retryable, Moved
<1>15. ASSUME NEW i \in DOMAIN worker, WriteMarker(i) PROVE CancelInv'
  BY <1>15, Moves DEF WriteMarker, Moved
<1>16. ASSUME NEW i \in DOMAIN worker, LookForCancel(i) PROVE CancelInv'
  BY <1>16, Moves DEF LookForCancel, GiveUp, FailedState, Settle, Moved
<1>17. ASSUME NEW i \in DOMAIN worker, Reclaim(i) PROVE CancelInv'
  BY <1>17, Moves
    DEF Reclaim, GiveUp, FailedState, Settle, FreeForRetry, Conflicts, Concurrent, Claim,
        BeingDeleted, Moved
<1>18. ASSUME NEW i \in DOMAIN worker, Relaunch(i) PROVE CancelInv'
  <2>1. CASE /\ worker' = Append([worker EXCEPT ![i] = Gone(@)], SpawnedWorker(worker[i].key, "http"))
             /\ UNCHANGED <<job, slot, pending, transport>>
    <3>1. worker[i].watch = "spawn" /\ worker[i].gen = gen[worker[i].key]
      BY <1>18 DEF Relaunch
    <3>2. /\ Grown(worker[i].key, "http")
          /\ \A j \in DOMAIN worker \ {i} : worker'[j] = worker[j]
          /\ worker'[i].key = worker[i].key /\ worker'[i].gen = worker[i].gen
          /\ worker'[i].watch = "over" /\ worker'[i].state \in {"done", "failed"}
      BY <2>1, <3>1, Relaunches
    <3>3. UNCHANGED <<job, slot, transport, gen, seq, pending, process, loop, doomed, stopped>>
      BY <1>18, <2>1 DEF Relaunch
    <3>4. QED
      BY <3>1, <3>2, <3>3 DEF Grown
  <2>2. CASE GiveUp(i) /\ transport' = [transport EXCEPT ![worker[i].key] = "xet"]
    <3>1. worker[i].watch = "spawn" /\ UNCHANGED <<gen, seq, process, loop, doomed, stopped>>
      BY <1>18 DEF Relaunch
    <3>2. PICK w \in {"mark", "over"} :
            /\ Moved(i, w)
            /\ w = "mark" <=> FailedState(worker[i].key) = "cancelled"
      BY <2>2, Moves DEF GiveUp
    <3>3. Settle(worker[i].key, FailedState(worker[i].key))
      BY <2>2 DEF GiveUp
    <3>4. QED
      BY <2>2, <3>1, <3>2, <3>3 DEF FailedState, Settle, Moved
  <2>3. QED
    BY <1>18, <2>1, <2>2 DEF Relaunch
<1>19. ASSUME NEW s \in Scopes, BeginDelete(s) PROVE CancelInv'
  BY <1>19 DEF BeginDelete
<1>20. ASSUME NEW s \in Scopes, EndDelete(s) PROVE CancelInv'
  BY <1>20 DEF EndDelete
<1>21. ASSUME Snapshot PROVE CancelInv'
  <2> DEFINE live == {i \in DOMAIN worker : Live(i) /\ process[worker[i].key] = i}
             stop == {worker[i].key : i \in live} \cup IdleJobs
  <2>1. \A k \in IdleJobs :
          /\ k \in Keys /\ Active(k) /\ job'[k] = "cancelling"
          /\ pending'[k] = gen[k] /\ stopped'[k] = gen[k]
    BY <1>21 DEF Snapshot, IdleJobs
  <2>2. ASSUME NEW k \in stop \ IdleJobs
        PROVE  /\ k \in Keys /\ Active(k) /\ job'[k] = "cancelling"
               /\ pending'[k] = pending[k] /\ stopped'[k] = gen[k]
               /\ \E i \in DOMAIN worker : worker[i].key = k /\ worker[i].watch = "wait"
    <3>1. PICK i \in DOMAIN worker : Live(i) /\ worker[i].key = k /\ process[k] = i
      BY <2>2
    <3>2. worker[i].watch = "wait" /\ k \in Keys /\ Active(k)
      BY <3>1
    <3>3. job'[k] = "cancelling" /\ pending'[k] = pending[k] /\ stopped'[k] = gen[k]
      BY <1>21, <2>2, <3>2 DEF Snapshot
    <3>4. QED
      BY <3>1, <3>2, <3>3
  <2>3. \A k \in Keys \ stop :
          job'[k] = job[k] /\ pending'[k] = pending[k] /\ stopped'[k] = stopped[k]
    BY <1>21 DEF Snapshot
  <2>4. UNCHANGED <<gen, seq, worker, loop>>
    BY <1>21 DEF Snapshot
  <2> HIDE DEF live, stop
  <2>5. QED
    BY <2>1, <2>2, <2>3, <2>4
<1>22. ASSUME KillAndReap PROVE CancelInv'
  BY <1>22, Kills DEF KillAndReap, Slain
<1>23. CASE UNCHANGED vars
  BY <1>23 DEF vars
<1>24. QED
  BY <1>1, <1>2, <1>3, <1>4, <1>5, <1>6, <1>7, <1>8, <1>9, <1>10, <1>11, <1>12, <1>13,
     <1>14, <1>15, <1>16, <1>17, <1>18, <1>19, <1>20, <1>21, <1>22, <1>23
  DEF Next, Handler, Watcher

\* The kill of a refused worker takes nothing from what the shutdown left.
LEMMA RefusalsKeep ==
  ASSUME TypeOK, KeysOK, RunInv, ShutdownInv, NEW i \in DOMAIN worker, KillRefused(i)
  PROVE  ShutdownInv'
<1>1. /\ worker[i].watch = "refused" /\ marker \subseteq marker' /\ process' = process
      /\ gen' = gen /\ loop' = loop /\ server' = server /\ doomed' = doomed /\ stopped' = stopped
  BY DEF KillRefused, registry
<1>2. Moved(i, "over")
  BY Moves DEF KillRefused, WatchStates
<1>3. /\ DOMAIN worker' = DOMAIN worker /\ doomed.live \subseteq DOMAIN worker
      /\ \A j \in DOMAIN worker : /\ worker'[j].key = worker[j].key
                                  /\ worker[j].state = "done" => worker'[j].state = "done"
                                  /\ worker'[j] = worker[j] \/ worker'[j].watch = "over"
  <2>1. doomed.live \subseteq DOMAIN worker
    BY DEF RunInv
  <2>2. \A j \in DOMAIN worker : j # i => worker'[j] = worker[j]
    BY <1>2 DEF Moved
  <2>3. /\ DOMAIN worker' = DOMAIN worker /\ worker'[i].key = worker[i].key
        /\ worker[i].state = "done" => worker'[i].state = "done"
        /\ worker'[i].watch = "over"
    BY <1>2 DEF Moved
  <2>4. QED
    BY <2>1, <2>2, <2>3
<1>4. DoomedKeys' = DoomedKeys
  <2>1. \A j \in doomed.live : worker'[j].key = worker[j].key
    BY <1>3
  <2>2. QED
    BY <1>1, <2>1 DEF DoomedKeys
<1>5. \A k \in Keys : process[k] # 0 => worker'[process[k]] = worker[process[k]]
  <2>1. \A k \in Keys : process[k] # 0 => process[k] \in DOMAIN worker /\ process[k] # i
    BY <1>1 DEF RunInv
  <2>2. QED
    BY <1>2, <2>1 DEF Moved
<1>6. \A k \in Keys : Live(process[k])' => Live(process[k])
  BY <1>1, <1>5 DEF Live
<1>7. \A j \in DOMAIN worker :
        /\ (Carries(j))' => worker'[j] = worker[j]
        /\ worker'[j].watch = "unmark" => worker'[j] = worker[j]
  BY <1>3 DEF Carries, Carrying
<1>8. \A j \in DOMAIN worker : worker'[j] = worker[j] =>
        /\ (Carries(j))' => Carries(j)
        /\ Stopped(worker[j].key) \/ Spent(j) => (Stopped(worker[j].key) \/ Spent(j))'
  BY <1>1 DEF Carries, Stopped, Spent, Live
<1>9. server' = "off" => \A k \in DoomedKeys' :
        \/ k \in marker'
        \/ \E j \in DOMAIN worker' : worker'[j].key = k /\ worker'[j].state = "done"
  BY <1>1, <1>3, <1>4 DEF ShutdownInv
<1>10. QED
  BY <1>1, <1>3, <1>6, <1>7, <1>8, <1>9 DEF ShutdownInv

\* Every step keeps what the shutdown rests on.
LEMMA ShutdownStep ==
  IInv /\ [Next]_vars => ShutdownInv'
<1> SUFFICES ASSUME IInv, [Next]_vars PROVE ShutdownInv'
  OBVIOUS
<1>a. TypeOK /\ KeysOK /\ RunInv /\ ShutdownInv
  BY KeysTyped DEF IInv
<1> USE <1>a
    DEF KeysOK, WatchStates, Carries, Carrying, registry, RunInv, Live, ExitStates, ShutdownInv,
        Stopped, Spent, DoomedKeys
<1>1. ASSUME NEW k \in Keys, NEW t \in Transports, Start(k, t) PROVE ShutdownInv'
  BY <1>1 DEF Start, Claim
<1>2. ASSUME NEW k \in Keys, NEW g \in 0 .. gen[k], FindProcess(k, g) PROVE ShutdownInv'
  BY <1>2 DEF FindProcess
<1>3. ASSUME ClearMarker PROVE ShutdownInv'
  BY <1>3 DEF ClearMarker
<1>4. ASSUME Launch PROVE ShutdownInv'
  <2>1. loop.pc = "launch" /\ loop.key \in Keys /\ gen[loop.key] # 0 /\ server' = server
    BY <1>4, NextKeysHaveRuns DEF Launch
  <2>2. server = "up"
    BY <2>1
  <2>3. CASE worker' = Append(worker, SpawnedWorker(loop.key, transport[loop.key]))
    <3>1. Grown(loop.key, transport[loop.key]) /\ \A j \in DOMAIN worker : worker'[j] = worker[j]
      BY <2>1, <2>3, Launches
    <3>2. QED
      BY <2>1, <2>2, <3>1 DEF Grown
  <2>4. CASE UNCHANGED worker
    BY <2>1, <2>2, <2>4
  <2>5. QED
    BY <1>4, <2>3, <2>4 DEF Launch
<1>5. ASSUME ArmCancel PROVE ShutdownInv'
  BY <1>5 DEF ArmCancel
<1>6. ASSUME RequestCancel PROVE ShutdownInv'
  BY <1>6 DEF RequestCancel
<1>7. ASSUME Kill PROVE ShutdownInv'
  BY <1>7, Kills DEF Kill, Slain
<1>8. ASSUME LeaveToWatcher PROVE ShutdownInv'
  BY <1>8 DEF LeaveToWatcher
<1>9. ASSUME NEW i \in DOMAIN worker, Exit(i) PROVE ShutdownInv'
  BY <1>9, Exits DEF Exit, Changed
<1>10. ASSUME NEW i \in DOMAIN worker, Register(i) PROVE ShutdownInv'
  <2>1. server # "up" => Armed(worker[i].key) /\ GenMatches(worker[i].key, pending[worker[i].key])
    BY <1>10 DEF Register, IInv, CancelInv, CancelsHitTheirRun, NoStaleCancel
  <2>2. QED
    BY <1>10, <2>1, Moves DEF Register, Settle, NoHandler, Moved
<1>11. ASSUME NEW i \in DOMAIN worker, KillRefused(i) PROVE ShutdownInv'
  BY <1>11, RefusalsKeep
<1>12. ASSUME NEW i \in DOMAIN worker, AskCancel(i) PROVE ShutdownInv'
  <2>1. /\ worker[i].watch = "wait" /\ worker[i].state # "live"
        /\ UNCHANGED <<gen, process, loop, marker, server, doomed, stopped>>
    BY <1>12 DEF AskCancel, Exited
  <2>2. /\ DOMAIN worker' = DOMAIN worker
        /\ \A j \in DOMAIN worker \ {i} : worker'[j] = worker[j]
        /\ worker'[i].key = worker[i].key /\ worker'[i].transport = worker[i].transport
        /\ worker'[i].watch = "asked" /\ worker'[i].state = worker[i].state
    BY <1>12, Asks DEF Changed
  <2>3. QED
    BY <2>1, <2>2
<1>13. ASSUME NEW i \in DOMAIN worker, DropProcess(i) PROVE ShutdownInv'
  BY <1>13, Moves DEF DropProcess, Moved
<1>14. ASSUME NEW i \in DOMAIN worker, Classify(i) PROVE ShutdownInv'
  BY <1>14, Moves DEF Classify, Settle, ExitCancelled, Retryable, Moved
<1>15. ASSUME NEW i \in DOMAIN worker, WriteMarker(i) PROVE ShutdownInv'
  BY <1>15, Moves DEF WriteMarker, Moved
<1>16. ASSUME NEW i \in DOMAIN worker, LookForCancel(i) PROVE ShutdownInv'
  BY <1>16, Moves DEF LookForCancel, GiveUp, Settle, Moved
<1>17. ASSUME NEW i \in DOMAIN worker, Reclaim(i) PROVE ShutdownInv'
  BY <1>17, Moves DEF Reclaim, GiveUp, Settle, Claim, Moved
<1>18. ASSUME NEW i \in DOMAIN worker, Relaunch(i) PROVE ShutdownInv'
  <2>1. worker[i].watch = "spawn" /\ UNCHANGED <<gen, seq, process, loop, marker, server, doomed, stopped>>
    BY <1>18 DEF Relaunch
  <2>2. CASE worker' = Append([worker EXCEPT ![i] = Gone(@)], SpawnedWorker(worker[i].key, "http"))
    <3>1. worker[i].gen = gen[worker[i].key]
      BY <2>1
    <3>2. /\ Grown(worker[i].key, "http")
          /\ \A j \in DOMAIN worker \ {i} : worker'[j] = worker[j]
          /\ worker'[i].key = worker[i].key
          /\ worker'[i].watch = "over" /\ worker'[i].state \in {"done", "failed"}
          /\ worker[i].state = "done" => worker'[i].state = "done"
      BY <2>2, <3>1, Relaunches
    <3>3. QED
      BY <2>1, <3>2 DEF Grown
  <2>3. CASE GiveUp(i)
    BY <2>1, <2>3, Moves DEF GiveUp, Moved
  <2>4. QED
    BY <1>18, <2>2, <2>3 DEF Relaunch
<1>19. ASSUME NEW s \in Scopes, BeginDelete(s) PROVE ShutdownInv'
  BY <1>19 DEF BeginDelete
<1>20. ASSUME NEW s \in Scopes, EndDelete(s) PROVE ShutdownInv'
  BY <1>20 DEF EndDelete
<1>21. ASSUME Snapshot PROVE ShutdownInv'
  <2> DEFINE live == {i \in DOMAIN worker : Live(i) /\ process[worker[i].key] = i}
             stop == {worker[i].key : i \in live} \cup IdleJobs
  <2>1. /\ loop.pc = "idle" /\ server' = "stopping" /\ doomed'.live = live
        /\ \A k \in Keys : stopped'[k] = IF k \in stop THEN gen[k] ELSE stopped[k]
        /\ UNCHANGED <<gen, process, worker, loop>>
    BY <1>21 DEF Snapshot
  <2>2. ASSUME NEW i \in DOMAIN worker, Carries(i), worker[i].key \notin stop
        PROVE  Spent(i)
    <3>1. Active(worker[i].key) /\ worker[i].key \in Keys
      BY <2>2
    <3>2. process[worker[i].key] # 0 /\ (process[worker[i].key] = i => worker[i].state # "live")
      BY <2>2, <3>1 DEF IdleJobs
    <3>3. process[worker[i].key] = i /\ worker[i].watch \in {"wait", "asked"}
      BY <2>2, <3>1, <3>2
    <3>4. worker[i].state = "done" \/ transport[worker[i].key] # "xet"
      BY <2>2, <3>1, <3>2, <3>3 DEF IdleJobs, Exited
    <3>5. worker[i].transport = transport[worker[i].key]
      BY <3>3 DEF IInv, SlotInv
    <3>6. QED
      BY <3>1, <3>2, <3>3, <3>4, <3>5 DEF Transports
  <2>3. \A k \in Keys : Live(process[k]) => process[k] \in live
    OBVIOUS
  <2> HIDE DEF live, stop
  <2>4. QED
    BY <2>1, <2>2, <2>3
<1>22. ASSUME KillAndReap PROVE ShutdownInv'
  <2>1. /\ server = "stopping" /\ server' = "off"
        /\ UNCHANGED <<registry, loop, doomed, stopped>>
        /\ marker' = marker \cup doomed.idle \cup {worker[i].key : i \in Interrupted}
    BY <1>22 DEF KillAndReap
  <2>2. Slain
    BY <1>22, Kills
  <2>3. \A i \in doomed.live : ~(Live(i))'
    BY <1>22, NoneLives
  <2>4. \A k \in Keys : ~(Live(process[k]))'
    BY <2>1, <2>2, <2>3 DEF Slain
  <2>5. \A k \in DoomedKeys :
          k \in marker' \/ \E i \in DOMAIN worker : worker[i].key = k /\ worker[i].state = "done"
    BY <2>1 DEF Interrupted
  <2>6. \A i \in DOMAIN worker : worker[i].state = "done" => worker'[i].state = "done"
    BY <2>2 DEF Slain
  <2>7. DoomedKeys' = DoomedKeys
    BY <2>1, <2>2 DEF Slain
  <2>8. \A i \in DOMAIN worker : (Carries(i) => Stopped(worker[i].key) \/ Spent(i))'
    BY <2>1, <2>2 DEF Slain
  <2>9. QED
    BY <2>1, <2>2, <2>4, <2>5, <2>6, <2>7, <2>8 DEF Slain
<1>23. CASE UNCHANGED vars
  BY <1>23 DEF vars
<1>24. QED
  BY <1>1, <1>2, <1>3, <1>4, <1>5, <1>6, <1>7, <1>8, <1>9, <1>10, <1>11, <1>12, <1>13,
     <1>14, <1>15, <1>16, <1>17, <1>18, <1>19, <1>20, <1>21, <1>22, <1>23
  DEF Next, Handler, Watcher

\* A step starts no run of a key but by a handler's claim, and gives back no
\* reservation but at the end of its delete.
ActiveKept == /\ \A k \in Keys : Active(k)' => Active(k)
              /\ UNCHANGED <<deleting, deletes>>

\* Every step keeps runs and deletes apart.
LEMMA DeleteStep ==
  IInv /\ [Next]_vars => DeleteInv'
<1> SUFFICES ASSUME IInv, [Next]_vars PROVE DeleteInv'
  OBVIOUS
<1>a. KeysOK /\ RunInv /\ DeleteInv
  BY KeysTyped DEF IInv
<1>b. /\ deletes \in [Scopes -> 0 .. MaxDeletes] /\ MaxDeletes \in Nat
  BY MaxDeletesAssumption DEF IInv, TypeOK
<1>c. ActiveKept => DeleteInv'
  BY <1>a DEF ActiveKept, DeleteInv
<1> USE <1>a, <1>b
    DEF KeysOK, Active, ActiveStates, TerminalStates, RunInv, registry, Starting, Carries, Carrying
<1>1. ASSUME NEW k \in Keys, NEW t \in Transports, Start(k, t) PROVE DeleteInv'
  BY <1>1 DEF Start, Claim, BeingDeleted, DeleteInv
<1>2. ASSUME NEW k \in Keys, NEW g \in 0 .. gen[k], FindProcess(k, g) PROVE ActiveKept
  BY <1>2 DEF FindProcess, ActiveKept
<1>3. ASSUME ClearMarker PROVE ActiveKept
  BY <1>3 DEF ClearMarker, ActiveKept
<1>4. ASSUME Launch PROVE ActiveKept
  BY <1>4 DEF Launch, Settle, ActiveKept
<1>5. ASSUME ArmCancel PROVE ActiveKept
  BY <1>5 DEF ArmCancel, MarkPendingCancel, Cancelling, ActiveKept
<1>6. ASSUME RequestCancel PROVE ActiveKept
  BY <1>6 DEF RequestCancel, Cancelling, ActiveKept
<1>7. ASSUME Kill PROVE ActiveKept
  BY <1>7 DEF Kill, ActiveKept
<1>8. ASSUME LeaveToWatcher PROVE ActiveKept
  BY <1>8 DEF LeaveToWatcher, ActiveKept
<1>9. ASSUME NEW i \in DOMAIN worker, Exit(i) PROVE ActiveKept
  BY <1>9 DEF Exit, ActiveKept
<1>10. ASSUME NEW i \in DOMAIN worker, Register(i) PROVE ActiveKept
  BY <1>10 DEF Register, Settle, ActiveKept
<1>11. ASSUME NEW i \in DOMAIN worker, KillRefused(i) PROVE ActiveKept
  BY <1>11 DEF KillRefused, ActiveKept
<1>12. ASSUME NEW i \in DOMAIN worker, AskCancel(i) PROVE ActiveKept
  BY <1>12 DEF AskCancel, ActiveKept
<1>13. ASSUME NEW i \in DOMAIN worker, DropProcess(i) PROVE ActiveKept
  BY <1>13 DEF DropProcess, ActiveKept
<1>14. ASSUME NEW i \in DOMAIN worker, Classify(i) PROVE ActiveKept
  BY <1>14 DEF Classify, Settle, ActiveKept
<1>15. ASSUME NEW i \in DOMAIN worker, WriteMarker(i) PROVE ActiveKept
  BY <1>15 DEF WriteMarker, ActiveKept
<1>16. ASSUME NEW i \in DOMAIN worker, LookForCancel(i) PROVE ActiveKept
  BY <1>16 DEF LookForCancel, GiveUp, FailedState, Settle, ActiveKept
<1>17. ASSUME NEW i \in DOMAIN worker, Reclaim(i) PROVE ActiveKept
  <2>1. Active(worker[i].key)
    BY <1>17 DEF Reclaim
  <2>2. QED
    BY <1>17, <2>1 DEF Reclaim, GiveUp, FailedState, Settle, Claim, ActiveKept
<1>18. ASSUME NEW i \in DOMAIN worker, Relaunch(i) PROVE ActiveKept
  BY <1>18 DEF Relaunch, GiveUp, FailedState, Settle, ActiveKept
<1>19. ASSUME NEW s \in Scopes, BeginDelete(s) PROVE DeleteInv'
  BY <1>19 DEF BeginDelete, DeleteInv
<1>20. ASSUME NEW s \in Scopes, EndDelete(s) PROVE DeleteInv'
  BY <1>20 DEF EndDelete, DeleteInv
<1>21. ASSUME Snapshot PROVE ActiveKept
  BY <1>21 DEF Snapshot, ActiveKept
<1>22. ASSUME KillAndReap PROVE ActiveKept
  BY <1>22 DEF KillAndReap, ActiveKept
<1>23. CASE UNCHANGED vars
  BY <1>23 DEF vars, DeleteInv
<1>24. QED
  BY <1>1, <1>2, <1>3, <1>4, <1>5, <1>6, <1>7, <1>8, <1>9, <1>10, <1>11, <1>12, <1>13,
     <1>14, <1>15, <1>16, <1>17, <1>18, <1>19, <1>20, <1>21, <1>22, <1>23, <1>c
  DEF Next, Handler, Watcher

\* Every step keeps the room for the workers to come.
LEMMA RoomStep ==
  IInv /\ [Next]_vars => RoomInv'
<1> SUFFICES ASSUME IInv, [Next]_vars PROVE RoomInv'
  OBVIOUS
<1>a. TypeOK /\ KeysOK /\ RoomInv /\ SlotInv /\ RunInv
  BY KeysTyped DEF IInv
<1> USE <1>a 
<1>1. ASSUME NEW k \in Keys, NEW t \in Transports, Start(k, t) PROVE RoomInv'
  <2>1. Retriers' = Retriers /\ Len(worker') = Len(worker) /\ seq' = seq + 1
    BY <1>1 DEF Start, Retriers, Carries
  <2>2. ToCome = 0 /\ ToCome' = 2
    BY <1>1 DEF Start, ToCome, NoHandler
  <2>3. QED
    BY <2>1, <2>2, RetriersFacts DEF RoomInv
<1>2. ASSUME NEW k \in Keys, NEW g \in 0 .. gen[k], FindProcess(k, g) PROVE RoomInv'
  BY <1>2, RoomKept DEF FindProcess, Kept, ToCome, registry, TypeOK, NoHandler
<1>3. ASSUME ClearMarker PROVE RoomInv'
  BY <1>3, RoomKept DEF ClearMarker, Kept, ToCome, registry, TypeOK, NoHandler
<1>4. ASSUME Launch PROVE RoomInv'
  <2>1. CASE worker' = Append(worker, SpawnedWorker(loop.key, transport[loop.key]))
             /\ loop' = [loop EXCEPT !.pc = "register"] /\ UNCHANGED <<job, slot, pending>>
    <3>1. loop.pc = "launch" /\ loop.key \in Keys /\ gen[loop.key] # 0 /\ seq' = seq
      BY <1>4, NextKeysHaveRuns DEF Launch
    <3>2. /\ Longer /\ Grown(loop.key, transport[loop.key])
          /\ \A j \in DOMAIN worker : worker'[j] = worker[j]
      BY <2>1, <3>1, Launches
    <3>3. PICK m : Retriers' \subseteq Retriers \cup {m}
      BY <3>2 DEF Grown, Retriers, Carries
    <3>a. /\ IsFiniteSet(Retriers \cup {m})
          /\ Cardinality(Retriers \cup {m}) =
               IF m \in Retriers THEN Cardinality(Retriers) ELSE Cardinality(Retriers) + 1
      BY RetriersFacts, FS_AddElement
    <3>4. /\ Cardinality(Retriers \cup {m}) <= Cardinality(Retriers) + 1
          /\ IsFiniteSet(Retriers \cup {m})
          /\ Cardinality(Retriers \cup {m}) \in Nat
      BY <3>a, RetriersFacts
    <3>5. Cardinality(Retriers') <= Cardinality(Retriers \cup {m}) /\ Cardinality(Retriers') \in Nat
      BY <3>3, <3>4, FS_Subset, FS_CardinalityType
    <3>6. ToCome = 2 /\ ToCome' = 0
      BY <2>1, <3>1 DEF ToCome, TypeOK
    <3>7. QED
      BY <3>1, <3>2, <3>4, <3>5, <3>6, RetriersFacts DEF RoomInv, Longer
  <2>2. CASE Settle(loop.key, "error") /\ loop' = NoHandler /\ UNCHANGED worker
    BY <1>4, <2>2, RoomKept DEF Launch, NoHandler, ToCome, Kept, TypeOK
  <2>3. QED
    BY <1>4, <2>1, <2>2 DEF Launch
<1>5. ASSUME ArmCancel PROVE RoomInv'
  BY <1>5, RoomKept DEF ArmCancel, Kept, ToCome, registry, TypeOK, NoHandler
<1>6. ASSUME RequestCancel PROVE RoomInv'
  BY <1>6, RoomKept DEF RequestCancel, Kept, ToCome, registry, TypeOK, NoHandler
<1>7. ASSUME Kill PROVE RoomInv'
  BY <1>7, Kills, RoomKept DEF Kill, Slain, ToCome, NoHandler, registry
<1>8. ASSUME LeaveToWatcher PROVE RoomInv'
  BY <1>8, RoomKept DEF LeaveToWatcher, Kept, ToCome, registry, TypeOK, NoHandler
<1>9. ASSUME NEW i \in DOMAIN worker, Exit(i) PROVE RoomInv'
  <2>1. PICK s \in ExitStates : Changed(i, worker[i].watch, s, worker[i].asked)
    BY <1>9, Exits
  <2>2. Kept /\ seq' = seq /\ ToCome' = ToCome
    BY <1>9, Exits DEF Exit, registry, ToCome
  <2>3. QED
    BY <2>1, <2>2, RoomKept DEF Changed
<1>10. ASSUME NEW i \in DOMAIN worker, Register(i) PROVE RoomInv'
  <2>1. PICK w \in {"wait", "refused"} : WatchAt(i, w)
    BY <1>10 DEF Register
  <2>2. worker[i].watch = "born" /\ seq' = seq /\ ToCome' \in {0, ToCome}
    BY <1>10 DEF Register, ToCome, NoHandler
  <2>3. Moved(i, w) /\ Kept
    BY <2>1, Moves DEF WatchStates
  <2>4. QED
    BY <2>2, <2>3, RoomKept DEF Moved, Carrying
<1>11. ASSUME NEW i \in DOMAIN worker, KillRefused(i) PROVE RoomInv'
  <2>1. WatchAt(i, "over") /\ worker[i].watch \in {"asked", "refused", "mark", "unmark"}
        /\ (worker[i].watch = "asked" <=> "over" = "dropped")
    BY <1>11 DEF KillRefused
  <2>2. seq' = seq /\ ToCome' = ToCome
    BY <1>11 DEF KillRefused, ToCome, registry
  <2>3. Moved(i, "over") /\ Kept
    BY <2>1, Moves DEF WatchStates
  <2>4. QED
    BY <2>1, <2>2, <2>3, RoomKept DEF Moved, Carrying
<1>12. ASSUME NEW i \in DOMAIN worker, AskCancel(i) PROVE RoomInv'
  <2>1. Kept /\ Changed(i, "asked", worker[i].state, CancelRequested(worker[i].key))
    BY <1>12, Asks
  <2>2. worker[i].watch = "wait" /\ seq' = seq /\ ToCome' = ToCome
    BY <1>12 DEF AskCancel, registry, ToCome
  <2>3. QED
    BY <2>1, <2>2, RoomKept DEF Changed, Carrying
<1>13. ASSUME NEW i \in DOMAIN worker, DropProcess(i) PROVE RoomInv'
  <2>1. WatchAt(i, "dropped") /\ worker[i].watch \in {"asked", "refused", "mark", "unmark"}
        /\ (worker[i].watch = "asked" <=> "dropped" = "dropped")
    BY <1>13 DEF DropProcess
  <2>2. seq' = seq /\ ToCome' = ToCome
    BY <1>13 DEF DropProcess, ToCome, registry
  <2>3. Moved(i, "dropped") /\ Kept
    BY <2>1, Moves DEF WatchStates
  <2>4. QED
    BY <2>1, <2>2, <2>3, RoomKept DEF Moved, Carrying
<1>14. ASSUME NEW i \in DOMAIN worker, Classify(i) PROVE RoomInv'
  <2>1. PICK w \in {"unmark", "mark", "over", "loop"} : WatchAt(i, w)
    BY <1>14 DEF Classify
  <2>2. worker[i].watch = "dropped" /\ seq' = seq /\ ToCome' \in {0, ToCome}
    BY <1>14 DEF Classify, ToCome, NoHandler
  <2>3. Moved(i, w) /\ Kept
    BY <2>1, Moves DEF WatchStates
  <2>4. QED
    BY <2>2, <2>3, RoomKept DEF Moved, Carrying
<1>15. ASSUME NEW i \in DOMAIN worker, WriteMarker(i) PROVE RoomInv'
  <2>1. WatchAt(i, "over") /\ worker[i].watch \in {"asked", "refused", "mark", "unmark"}
        /\ (worker[i].watch = "asked" <=> "over" = "dropped")
    BY <1>15 DEF WriteMarker
  <2>2. seq' = seq /\ ToCome' = ToCome
    BY <1>15 DEF WriteMarker, ToCome, registry
  <2>3. Moved(i, "over") /\ Kept
    BY <2>1, Moves DEF WatchStates
  <2>4. QED
    BY <2>1, <2>2, <2>3, RoomKept DEF Moved, Carrying
<1>16. ASSUME NEW i \in DOMAIN worker, LookForCancel(i) PROVE RoomInv'
  <2>1. PICK w \in {"mark", "over", "claim"} : WatchAt(i, w)
    BY <1>16 DEF LookForCancel, GiveUp
  <2>2. worker[i].watch = "loop" /\ seq' = seq /\ ToCome' \in {0, ToCome}
    BY <1>16 DEF LookForCancel, ToCome, NoHandler
  <2>3. Moved(i, w) /\ Kept
    BY <2>1, Moves DEF WatchStates
  <2>4. QED
    BY <2>2, <2>3, RoomKept DEF Moved, Carrying
<1>17. ASSUME NEW i \in DOMAIN worker, Reclaim(i) PROVE RoomInv'
  <2>1. PICK w \in {"mark", "over", "loop", "spawn"} : WatchAt(i, w)
    BY <1>17 DEF Reclaim, GiveUp
  <2>2. worker[i].watch = "claim" /\ seq' = seq /\ ToCome' \in {0, ToCome}
    BY <1>17 DEF Reclaim, ToCome, NoHandler
  <2>3. Moved(i, w) /\ Kept
    BY <2>1, Moves DEF WatchStates
  <2>4. QED
    BY <2>2, <2>3, RoomKept DEF Moved, Carrying
<1>18. ASSUME NEW i \in DOMAIN worker, Relaunch(i) PROVE RoomInv'
  <2>1. CASE /\ worker' = Append([worker EXCEPT ![i] = Gone(@)], SpawnedWorker(worker[i].key, "http"))
             /\ UNCHANGED <<job, slot, pending, transport>>
    <3>1. worker[i].watch = "spawn" /\ worker[i].gen = gen[worker[i].key]
      BY <1>18 DEF Relaunch, RunInv, Carries, Carrying
    <3>2. /\ Longer /\ Grown(worker[i].key, "http")
          /\ \A j \in DOMAIN worker \ {i} : worker'[j] = worker[j]
          /\ worker'[i].watch = "over"
      BY <2>1, <3>1, Relaunches
    <3>3. Retriers' \subseteq Retriers \ {i} /\ i \in Retriers
      BY <3>1, <3>2 DEF Grown, Retriers, Carries, Carrying, SlotInv
    <3>4. /\ Cardinality(Retriers \ {i}) = Cardinality(Retriers) - 1
          /\ IsFiniteSet(Retriers \ {i})
      BY <3>3, RetriersFacts, FS_RemoveElement
    <3>5. Cardinality(Retriers') <= Cardinality(Retriers \ {i}) /\ Cardinality(Retriers') \in Nat
      BY <3>3, <3>4, FS_Subset, FS_CardinalityType
    <3>6. seq' = seq /\ ToCome' = ToCome /\ ToCome \in Nat
      BY <1>18 DEF Relaunch, ToCome
    <3>7. QED
      BY <3>2, <3>4, <3>5, <3>6, RetriersFacts DEF RoomInv, Longer
  <2>2. CASE GiveUp(i) /\ transport' = [transport EXCEPT ![worker[i].key] = "xet"]
    <3>1. PICK w \in {"mark", "over"} : WatchAt(i, w)
      BY <2>2 DEF GiveUp
    <3>2. worker[i].watch = "spawn" /\ seq' = seq /\ ToCome' = ToCome
      BY <1>18 DEF Relaunch, ToCome
    <3>3. Moved(i, w) /\ Kept
      BY <3>1, Moves DEF WatchStates
    <3>4. QED
      BY <3>2, <3>3, RoomKept DEF Moved, Carrying
  <2>3. QED
    BY <1>18, <2>1, <2>2 DEF Relaunch
<1>19. ASSUME NEW s \in Scopes, BeginDelete(s) PROVE RoomInv'
  BY <1>19, RoomKept DEF BeginDelete, Kept, ToCome, registry, TypeOK, NoHandler
<1>20. ASSUME NEW s \in Scopes, EndDelete(s) PROVE RoomInv'
  BY <1>20, RoomKept DEF EndDelete, Kept, ToCome, registry, TypeOK, NoHandler
<1>21. ASSUME Snapshot PROVE RoomInv'
  BY <1>21, RoomKept DEF Snapshot, Kept, ToCome, registry, TypeOK, NoHandler
<1>22. ASSUME KillAndReap PROVE RoomInv'
  BY <1>22, Kills, RoomKept DEF KillAndReap, Slain, ToCome, NoHandler, registry
<1>23. CASE UNCHANGED vars
  BY <1>23, RoomKept DEF vars, registry, Kept, ToCome, TypeOK
<1>24. QED
  BY <1>1, <1>2, <1>3, <1>4, <1>5, <1>6, <1>7, <1>8, <1>9, <1>10, <1>11, <1>12, <1>13,
     <1>14, <1>15, <1>16, <1>17, <1>18, <1>19, <1>20, <1>21, <1>22, <1>23
  DEF Next, Handler, Watcher

\* The parts of TypeOK.
RegistryTypes ==
  /\ job \in [Keys -> {"idle"} \cup ActiveStates \cup TerminalStates]
  /\ slot \subseteq Keys
  /\ transport \in [Keys -> Transports]
  /\ gen \in [Keys -> 0..MaxRuns] /\ seq \in 0..MaxRuns
  /\ pending \in [Keys -> 0..NoCancel]
  /\ process \in [Keys -> 0..MaxWorkers]
  /\ stopped \in [Keys -> 0..MaxRuns]

HandlerTypes ==
  /\ deleting \subseteq Scopes /\ deletes \in [Scopes -> 0..MaxDeletes]
  /\ loop \in [pc : {"idle", "unmark", "launch", "register", "found", "kill"},
               key : Keys \cup {Whole}, gen : 0..MaxRuns, proc : 0..MaxWorkers]
  /\ marker \subseteq Keys
  /\ server \in {"up", "stopping", "off"}
  /\ doomed \in [live : SUBSET (1..MaxWorkers), idle : SUBSET Keys]

WorkerTypes == worker \in Seq(Workers) /\ Len(worker) <= MaxWorkers

\* They make up TypeOK.
LEMMA TypesTogether == TypeOK <=> RegistryTypes /\ HandlerTypes /\ WorkerTypes
BY DEF TypeOK, RegistryTypes, HandlerTypes, WorkerTypes

\* The bounds are numbers, and the workers stay within theirs.
LEMMA Numbers ==
  ASSUME TypeOK
  PROVE  /\ MaxRuns \in Nat /\ MaxDeletes \in Nat /\ MaxWorkers \in Nat /\ MaxWorkers = 2 * MaxRuns
         /\ NoCancel = MaxRuns + 1
         /\ DOMAIN worker \subseteq 1 .. MaxWorkers
BY MaxRunsAssumption, MaxDeletesAssumption, LenProperties DEF TypeOK, MaxWorkers, NoCancel

\* Every step keeps the workers in their type and number.
LEMMA WorkerTypesStep ==
  IInv /\ [Next]_vars => WorkerTypes'
<1> SUFFICES ASSUME IInv, [Next]_vars PROVE WorkerTypes'
  OBVIOUS
<1>a. TypeOK /\ KeysOK /\ RoomInv /\ SlotInv /\ RunInv
  BY KeysTyped DEF IInv
<1> USE <1>a 
<1>1. ASSUME NEW k \in Keys, NEW t \in Transports, Start(k, t) PROVE WorkerTypes'
  BY <1>1 DEF Start, WorkerTypes, TypeOK
<1>2. ASSUME NEW k \in Keys, NEW g \in 0 .. gen[k], FindProcess(k, g) PROVE WorkerTypes'
  BY <1>2 DEF FindProcess, WorkerTypes, TypeOK
<1>3. ASSUME ClearMarker PROVE WorkerTypes'
  BY <1>3 DEF ClearMarker, WorkerTypes, TypeOK
<1>4. ASSUME Launch PROVE WorkerTypes'
  <2>1. CASE worker' = Append(worker, SpawnedWorker(loop.key, transport[loop.key]))
    <3>1. loop.pc = "launch" /\ loop.key \in Keys /\ gen[loop.key] # 0
      BY <1>4, NextKeysHaveRuns DEF Launch
    <3>2. Longer
      BY <2>1, <3>1, Launches
    <3>3. seq <= MaxRuns
      BY DEF TypeOK
    <3>4. ToCome = 2
      BY <3>1 DEF ToCome
    <3>5. QED
      BY <3>2, <3>3, <3>4, RetriersFacts, Numbers DEF RoomInv, Longer, WorkerTypes
  <2>2. CASE UNCHANGED worker
    BY <2>2 DEF WorkerTypes, TypeOK
  <2>3. QED
    BY <1>4, <2>1, <2>2 DEF Launch
<1>5. ASSUME ArmCancel PROVE WorkerTypes'
  BY <1>5 DEF ArmCancel, WorkerTypes, TypeOK
<1>6. ASSUME RequestCancel PROVE WorkerTypes'
  BY <1>6 DEF RequestCancel, WorkerTypes, TypeOK
<1>7. ASSUME Kill PROVE WorkerTypes'
  <2>1. Kept
    BY <1>7, Kills
  <2>2. QED
    BY <2>1 DEF Kept, WorkerTypes, TypeOK
<1>8. ASSUME LeaveToWatcher PROVE WorkerTypes'
  BY <1>8 DEF LeaveToWatcher, WorkerTypes, TypeOK
<1>9. ASSUME NEW i \in DOMAIN worker, Exit(i) PROVE WorkerTypes'
  <2>1. Kept
    BY <1>9, Exits
  <2>2. QED
    BY <2>1 DEF Kept, WorkerTypes, TypeOK
<1>10. ASSUME NEW i \in DOMAIN worker, Register(i) PROVE WorkerTypes'
  <2>1. Kept
    BY <1>10, Moves DEF Register, WatchStates
  <2>2. QED
    BY <2>1 DEF Kept, WorkerTypes, TypeOK
<1>11. ASSUME NEW i \in DOMAIN worker, KillRefused(i) PROVE WorkerTypes'
  <2>1. Kept
    BY <1>11, Moves DEF KillRefused, WatchStates
  <2>2. QED
    BY <2>1 DEF Kept, WorkerTypes, TypeOK
<1>12. ASSUME NEW i \in DOMAIN worker, AskCancel(i) PROVE WorkerTypes'
  <2>1. Kept
    BY <1>12, Asks
  <2>2. QED
    BY <2>1 DEF Kept, WorkerTypes, TypeOK
<1>13. ASSUME NEW i \in DOMAIN worker, DropProcess(i) PROVE WorkerTypes'
  <2>1. Kept
    BY <1>13, Moves DEF DropProcess, WatchStates
  <2>2. QED
    BY <2>1 DEF Kept, WorkerTypes, TypeOK
<1>14. ASSUME NEW i \in DOMAIN worker, Classify(i) PROVE WorkerTypes'
  <2>1. Kept
    BY <1>14, Moves DEF Classify, WatchStates
  <2>2. QED
    BY <2>1 DEF Kept, WorkerTypes, TypeOK
<1>15. ASSUME NEW i \in DOMAIN worker, WriteMarker(i) PROVE WorkerTypes'
  <2>1. Kept
    BY <1>15, Moves DEF WriteMarker, WatchStates
  <2>2. QED
    BY <2>1 DEF Kept, WorkerTypes, TypeOK
<1>16. ASSUME NEW i \in DOMAIN worker, LookForCancel(i) PROVE WorkerTypes'
  <2>1. Kept
    BY <1>16, Moves DEF LookForCancel, WatchStates, GiveUp
  <2>2. QED
    BY <2>1 DEF Kept, WorkerTypes, TypeOK
<1>17. ASSUME NEW i \in DOMAIN worker, Reclaim(i) PROVE WorkerTypes'
  <2>1. Kept
    BY <1>17, Moves DEF Reclaim, WatchStates, GiveUp
  <2>2. QED
    BY <2>1 DEF Kept, WorkerTypes, TypeOK
<1>18. ASSUME NEW i \in DOMAIN worker, Relaunch(i) PROVE WorkerTypes'
  <2>1. CASE worker' = Append([worker EXCEPT ![i] = Gone(@)], SpawnedWorker(worker[i].key, "http"))
    <3>1. worker[i].watch = "spawn" /\ worker[i].gen = gen[worker[i].key]
      BY <1>18 DEF Relaunch, RunInv, Carries, Carrying
    <3>2. Longer
      BY <2>1, <3>1, Relaunches
    <3>3. i \in Retriers
      BY <3>1 DEF SlotInv, Retriers, Carries, Carrying
    <3>4. Cardinality(Retriers) # 0
      BY <3>3, RetriersFacts, FS_EmptySet
    <3>5. seq <= MaxRuns
      BY DEF TypeOK
    <3>6. ToCome \in Nat
      BY DEF ToCome
    <3>7. QED
      BY <3>2, <3>4, <3>5, <3>6, RetriersFacts, Numbers DEF RoomInv, Longer, WorkerTypes
  <2>2. CASE GiveUp(i)
    <3>1. Kept
      BY <2>2, Moves DEF GiveUp, WatchStates
    <3>2. QED
      BY <3>1 DEF Kept, WorkerTypes, TypeOK
  <2>3. QED
    BY <1>18, <2>1, <2>2 DEF Relaunch
<1>19. ASSUME NEW s \in Scopes, BeginDelete(s) PROVE WorkerTypes'
  BY <1>19 DEF BeginDelete, WorkerTypes, TypeOK
<1>20. ASSUME NEW s \in Scopes, EndDelete(s) PROVE WorkerTypes'
  BY <1>20 DEF EndDelete, WorkerTypes, TypeOK
<1>21. ASSUME Snapshot PROVE WorkerTypes'
  BY <1>21 DEF Snapshot, WorkerTypes, TypeOK
<1>22. ASSUME KillAndReap PROVE WorkerTypes'
  <2>1. Kept
    BY <1>22, Kills
  <2>2. QED
    BY <2>1 DEF Kept, WorkerTypes, TypeOK
<1>23. CASE UNCHANGED vars
  BY <1>23 DEF vars, WorkerTypes, TypeOK
<1>24. QED
  BY <1>1, <1>2, <1>3, <1>4, <1>5, <1>6, <1>7, <1>8, <1>9, <1>10, <1>11, <1>12, <1>13,
     <1>14, <1>15, <1>16, <1>17, <1>18, <1>19, <1>20, <1>21, <1>22, <1>23
  DEF Next, Handler, Watcher

\* Every step keeps the registry in its types.
LEMMA RegistryTypesStep ==
  IInv /\ [Next]_vars => RegistryTypes'
<1> SUFFICES ASSUME IInv, [Next]_vars PROVE RegistryTypes'
  OBVIOUS
<1>a. KeysOK /\ RegistryTypes /\ loop.gen \in 0 .. MaxRuns /\ (loop.pc # "idle" => loop.key \in Keys)
  BY KeysTyped, TypesTogether DEF IInv, HandlerTypes, RunInv
<1>b. /\ MaxRuns \in Nat /\ MaxWorkers \in Nat /\ NoCancel = MaxRuns + 1
      /\ DOMAIN worker \subseteq 1 .. MaxWorkers
  BY Numbers DEF IInv
<1> USE <1>a, <1>b
    DEF RegistryTypes, KeysOK, Transports, ActiveStates, TerminalStates, registry
<1>1. ASSUME NEW k \in Keys, NEW t \in Transports, Start(k, t) PROVE RegistryTypes'
  BY <1>1 DEF Start, Claim, Conflicts, Concurrent, BeingDeleted, NoHandler
<1>2. ASSUME NEW k \in Keys, NEW g \in 0 .. gen[k], FindProcess(k, g) PROVE RegistryTypes'
  BY <1>2 DEF FindProcess
<1>3. ASSUME ClearMarker PROVE RegistryTypes'
  BY <1>3 DEF ClearMarker
<1>4. ASSUME Launch PROVE RegistryTypes'
  <2>1. \/ UNCHANGED <<job, slot, pending>>
        \/ Settle(loop.key, "error")
    BY <1>4 DEF Launch
  <2>2. loop.key \in Keys /\ UNCHANGED <<transport, gen, seq, process, stopped>>
    BY <1>4 DEF Launch
  <2>3. QED
    BY <2>1, <2>2 DEF Settle
<1>5. ASSUME ArmCancel PROVE RegistryTypes'
  BY <1>5 DEF ArmCancel, MarkPendingCancel, Cancelling, NoHandler
<1>6. ASSUME RequestCancel PROVE RegistryTypes'
  BY <1>6 DEF RequestCancel, Cancelling
<1>7. ASSUME Kill PROVE RegistryTypes'
  BY <1>7 DEF Kill, NoHandler
<1>8. ASSUME LeaveToWatcher PROVE RegistryTypes'
  BY <1>8 DEF LeaveToWatcher, NoHandler
<1>9. ASSUME NEW i \in DOMAIN worker, Exit(i) PROVE RegistryTypes'
  BY <1>9 DEF Exit, ExitStates
<1>10. ASSUME NEW i \in DOMAIN worker, Register(i) PROVE RegistryTypes'
  BY <1>10 DEF Register, Settle, NoHandler
<1>11. ASSUME NEW i \in DOMAIN worker, KillRefused(i) PROVE RegistryTypes'
  BY <1>11 DEF KillRefused
<1>12. ASSUME NEW i \in DOMAIN worker, AskCancel(i) PROVE RegistryTypes'
  BY <1>12 DEF AskCancel
<1>13. ASSUME NEW i \in DOMAIN worker, DropProcess(i) PROVE RegistryTypes'
  BY <1>13 DEF DropProcess
<1>14. ASSUME NEW i \in DOMAIN worker, Classify(i) PROVE RegistryTypes'
  BY <1>14 DEF Classify, Settle, ExitCancelled, Retryable
<1>15. ASSUME NEW i \in DOMAIN worker, WriteMarker(i) PROVE RegistryTypes'
  BY <1>15 DEF WriteMarker
<1>16. ASSUME NEW i \in DOMAIN worker, LookForCancel(i) PROVE RegistryTypes'
  BY <1>16 DEF LookForCancel, GiveUp, FailedState, Settle
<1>17. ASSUME NEW i \in DOMAIN worker, Reclaim(i) PROVE RegistryTypes'
  BY <1>17
    DEF Reclaim, GiveUp, FailedState, Settle, FreeForRetry, Conflicts, Concurrent, Claim,
        BeingDeleted
<1>18. ASSUME NEW i \in DOMAIN worker, Relaunch(i) PROVE RegistryTypes'
  <2>1. \/ UNCHANGED <<job, slot, pending, transport>>
        \/ /\ Settle(worker[i].key, FailedState(worker[i].key))
           /\ transport' = [transport EXCEPT ![worker[i].key] = "xet"]
    BY <1>18 DEF Relaunch, GiveUp
  <2>2. UNCHANGED <<gen, seq, process, stopped>>
    BY <1>18 DEF Relaunch
  <2>3. QED
    BY <2>1, <2>2 DEF Settle, FailedState
<1>19. ASSUME NEW s \in Scopes, BeginDelete(s) PROVE RegistryTypes'
  BY <1>19 DEF BeginDelete
<1>20. ASSUME NEW s \in Scopes, EndDelete(s) PROVE RegistryTypes'
  BY <1>20 DEF EndDelete
<1>21. ASSUME Snapshot PROVE RegistryTypes'
  BY <1>21 DEF Snapshot, IdleJobs
<1>22. ASSUME KillAndReap PROVE RegistryTypes'
  BY <1>22 DEF KillAndReap
<1>23. CASE UNCHANGED vars
  BY <1>23 DEF vars
<1>24. QED
  BY <1>1, <1>2, <1>3, <1>4, <1>5, <1>6, <1>7, <1>8, <1>9, <1>10, <1>11, <1>12, <1>13,
     <1>14, <1>15, <1>16, <1>17, <1>18, <1>19, <1>20, <1>21, <1>22, <1>23
  DEF Next, Handler, Watcher

\* Every step keeps the event loop, the deletes and the shutdown in theirs.
LEMMA HandlerTypesStep ==
  IInv /\ [Next]_vars => HandlerTypes'
<1> SUFFICES ASSUME IInv, [Next]_vars PROVE HandlerTypes'
  OBVIOUS
<1>a. KeysOK /\ HandlerTypes /\ process \in [Keys -> 0 .. MaxWorkers] /\ gen \in [Keys -> 0 .. MaxRuns]
      /\ doomed.live \subseteq DOMAIN worker
  BY KeysTyped, TypesTogether DEF IInv, RegistryTypes, RunInv
<1>b. /\ MaxRuns \in Nat /\ MaxDeletes \in Nat /\ MaxWorkers \in Nat
      /\ DOMAIN worker \subseteq 1 .. MaxWorkers
  BY Numbers DEF IInv
<1> USE <1>a, <1>b DEF HandlerTypes, KeysOK, registry
<1>1. ASSUME NEW k \in Keys, NEW t \in Transports, Start(k, t) PROVE HandlerTypes'
  <2>1. loop' = [pc |-> "unmark", key |-> k, gen |-> 0, proc |-> 0]
    BY <1>1 DEF Start, NoHandler
  <2>2. UNCHANGED <<deleting, deletes, marker, server, doomed>>
    BY <1>1 DEF Start
  <2>3. QED
    BY <2>1, <2>2
<1>2. ASSUME NEW k \in Keys, NEW g \in 0 .. gen[k], FindProcess(k, g) PROVE HandlerTypes'
  BY <1>2 DEF FindProcess
<1>3. ASSUME ClearMarker PROVE HandlerTypes'
  BY <1>3 DEF ClearMarker
<1>4. ASSUME Launch PROVE HandlerTypes'
  <2>1. \/ loop' = [loop EXCEPT !.pc = "register"]
        \/ loop' = [pc |-> "idle", key |-> Whole, gen |-> 0, proc |-> 0]
    BY <1>4 DEF Launch, NoHandler
  <2>2. UNCHANGED <<deleting, deletes, marker, server, doomed>>
    BY <1>4 DEF Launch
  <2>3. QED
    BY <2>1, <2>2
<1>5. ASSUME ArmCancel PROVE HandlerTypes'
  BY <1>5 DEF ArmCancel, MarkPendingCancel, Cancelling, NoHandler
<1>6. ASSUME RequestCancel PROVE HandlerTypes'
  BY <1>6 DEF RequestCancel, Cancelling
<1>7. ASSUME Kill PROVE HandlerTypes'
  BY <1>7 DEF Kill, NoHandler
<1>8. ASSUME LeaveToWatcher PROVE HandlerTypes'
  BY <1>8 DEF LeaveToWatcher, NoHandler
<1>9. ASSUME NEW i \in DOMAIN worker, Exit(i) PROVE HandlerTypes'
  BY <1>9 DEF Exit, ExitStates
<1>10. ASSUME NEW i \in DOMAIN worker, Register(i) PROVE HandlerTypes'
  BY <1>10 DEF Register, Settle, NoHandler
<1>11. ASSUME NEW i \in DOMAIN worker, KillRefused(i) PROVE HandlerTypes'
  BY <1>11 DEF KillRefused
<1>12. ASSUME NEW i \in DOMAIN worker, AskCancel(i) PROVE HandlerTypes'
  BY <1>12 DEF AskCancel
<1>13. ASSUME NEW i \in DOMAIN worker, DropProcess(i) PROVE HandlerTypes'
  BY <1>13 DEF DropProcess
<1>14. ASSUME NEW i \in DOMAIN worker, Classify(i) PROVE HandlerTypes'
  BY <1>14 DEF Classify, Settle, ExitCancelled, Retryable
<1>15. ASSUME NEW i \in DOMAIN worker, WriteMarker(i) PROVE HandlerTypes'
  BY <1>15 DEF WriteMarker
<1>16. ASSUME NEW i \in DOMAIN worker, LookForCancel(i) PROVE HandlerTypes'
  BY <1>16 DEF LookForCancel, GiveUp, FailedState, Settle
<1>17. ASSUME NEW i \in DOMAIN worker, Reclaim(i) PROVE HandlerTypes'
  BY <1>17
    DEF Reclaim, GiveUp, FailedState, Settle, FreeForRetry, Conflicts, Concurrent, Claim,
        BeingDeleted
<1>18. ASSUME NEW i \in DOMAIN worker, Relaunch(i) PROVE HandlerTypes'
  BY <1>18 DEF Relaunch, GiveUp, FailedState, Settle, SpawnedWorker
<1>19. ASSUME NEW s \in Scopes, BeginDelete(s) PROVE HandlerTypes'
  BY <1>19 DEF BeginDelete
<1>20. ASSUME NEW s \in Scopes, EndDelete(s) PROVE HandlerTypes'
  BY <1>20 DEF EndDelete
<1>21. ASSUME Snapshot PROVE HandlerTypes'
  BY <1>21 DEF Snapshot, IdleJobs
<1>22. ASSUME KillAndReap PROVE HandlerTypes'
  BY <1>22 DEF KillAndReap, Interrupted
<1>23. CASE UNCHANGED vars
  BY <1>23 DEF vars
<1>24. QED
  BY <1>1, <1>2, <1>3, <1>4, <1>5, <1>6, <1>7, <1>8, <1>9, <1>10, <1>11, <1>12, <1>13,
     <1>14, <1>15, <1>16, <1>17, <1>18, <1>19, <1>20, <1>21, <1>22, <1>23
  DEF Next, Handler, Watcher

-----------------------------------------------------------------------------
(* The theorems.                                                           *)

\* The initial state satisfies the invariant.
LEMMA InitInv == Init => IInv
<1> SUFFICES ASSUME Init PROVE IInv
  OBVIOUS
<1>1. worker = <<>> /\ DOMAIN worker = {} /\ Len(worker) = 0 /\ worker \in Seq(Workers)
  BY EmptySeq DEF Init
<1>2. Retriers = {}
  BY <1>1 DEF Retriers
<1>3. Cardinality(Retriers) = 0
  BY <1>2, FS_EmptySet
<1>4. MaxRuns \in Nat /\ MaxDeletes \in Nat /\ MaxWorkers \in Nat /\ NoCancel = MaxRuns + 1
  BY MaxRunsAssumption, MaxDeletesAssumption DEF MaxWorkers, NoCancel
<1>5. RegistryTypes
  BY <1>4 DEF Init, RegistryTypes, ActiveStates, TerminalStates, Transports
<1>6. HandlerTypes
  <2>1. loop = [pc |-> "idle", key |-> Whole, gen |-> 0, proc |-> 0]
    BY DEF Init, NoHandler
  <2>2. QED
    BY <1>4, <2>1 DEF Init, HandlerTypes
<1>7. WorkerTypes
  BY <1>1, <1>4 DEF WorkerTypes
<1>8. RoomInv
  BY <1>1, <1>3 DEF RoomInv, ToCome, Init, NoHandler
<1>9. RunInv /\ SlotInv
  BY <1>1 DEF Init, RunInv, SlotInv, Starting, NoHandler, Active, ActiveStates
<1>10. CancelInv
  BY <1>1, <1>4
    DEF Init, CancelInv, CancelsHitTheirRun, NoStaleCancel, OnlyStoppedAreCancelled,
     Starting, NoHandler, Armed
<1>11. ShutdownInv /\ DeleteInv
  BY <1>1 DEF Init, ShutdownInv, DeleteInv
<1>12. QED
  BY <1>5, <1>6, <1>7, <1>8, <1>9, <1>10, <1>11, TypesTogether DEF IInv

\* The invariant holds of every behaviour.
THEOREM InvariantHolds == Spec => []IInv
<1>1. IInv /\ [Next]_vars => TypeOK'
  BY RegistryTypesStep, HandlerTypesStep, WorkerTypesStep
  DEF TypeOK, RegistryTypes, HandlerTypes, WorkerTypes
<1>2. IInv /\ [Next]_vars => IInv'
  BY <1>1, RoomStep, RunStep, SlotStep, CancelStep, ShutdownStep, DeleteStep DEF IInv
<1>3. QED
  BY InitInv, <1>2, PTL DEF Spec

\* The registry, its threads and its workers keep their shape, and no number of
\* downloads is ever given more than two workers each.
THEOREM TypeCorrect == Spec => []TypeOK
<1>1. IInv => TypeOK
  BY DEF IInv
<1>2. QED
  BY InvariantHolds, <1>1, PTL

\* Two workers write into the repository at once only for two of its variants
\* over one transport (claim and _conflicts of hub/utils/download_registry.py),
\* for any variants, downloads, cancels and retries.
THEOREM WritersAreApart == Spec => []OneWriter
<1>1. IInv => OneWriter
  <2> SUFFICES ASSUME IInv, NEW i \in Writers, NEW j \in Writers, i # j
               PROVE  /\ worker[i].key # worker[j].key
                      /\ Whole \notin {worker[i].key, worker[j].key}
                      /\ worker[i].transport = worker[j].transport
    BY DEF OneWriter
  <2>1. /\ i \in DOMAIN worker /\ j \in DOMAIN worker
        /\ worker[i].watch \in {"born", "wait"} /\ worker[j].watch \in {"born", "wait"}
    BY DEF Writers, IInv, RunInv
  <2>2. /\ Active(worker[i].key) /\ Active(worker[j].key) /\ worker[i].key # worker[j].key
    BY <2>1 DEF IInv, RunInv, Carries, Carrying
  <2>3. /\ worker[i].key \in slot /\ worker[i].transport = transport[worker[i].key]
        /\ worker[j].key \in slot /\ worker[j].transport = transport[worker[j].key]
    BY <2>1 DEF IInv, SlotInv
  <2>4. QED
    BY <2>2, <2>3 DEF IInv, SlotInv
<1>2. QED
  BY InvariantHolds, <1>1, PTL

\* An armed cancel is for the run under way, and only a run that was told to
\* stop is reported cancelled.
THEOREM CancelsAreExact == Spec => []CancelsHitTheirRun
<1>1. IInv => CancelsHitTheirRun
  BY DEF IInv, CancelInv
<1>2. QED
  BY InvariantHolds, <1>1, PTL

\* register_process accepts no worker of a run that was told to stop, by a
\* cancel or by the shutdown.
THEOREM NoneStartsAfterAStop == Spec => StoppedStaysStopped
<1>1. IInv /\ [Next]_vars =>
        [\A k \in Keys : process'[k] \notin {0, process[k]} => stopped[k] # gen[k]]_vars
  <2> SUFFICES ASSUME IInv, Next, NEW k \in Keys, process'[k] \notin {0, process[k]}
               PROVE  stopped[k] # gen[k]
    BY DEF IInv
  <2>1. process \in [Keys -> Nat]
    BY KeysTyped DEF IInv, KeysOK
  <2>2. PICK i \in DOMAIN worker : Register(i) /\ k = worker[i].key /\ process' # process
    <3>1. \/ process' = process
          \/ \E i \in DOMAIN worker : DropProcess(i) \/ Register(i)
      BY DEF Next, Handler, Watcher, registry, Start, FindProcess, ClearMarker, Launch,
         ArmCancel,
             RequestCancel, Kill, LeaveToWatcher, Exit, KillRefused, AskCancel, Classify,
             WriteMarker, LookForCancel, Reclaim, Relaunch, BeginDelete, EndDelete, Snapshot,
             KillAndReap
    <3>2. \A i \in DOMAIN worker : DropProcess(i) => process'[k] \in {0, process[k]}
      BY <2>1 DEF DropProcess
    <3>3. \A i \in DOMAIN worker : Register(i) /\ worker[i].key # k => process'[k] = process[k]
      BY <2>1 DEF Register
    <3>4. QED
      BY <3>1, <3>2, <3>3
  <2>3. worker[i].watch = "born" /\ ~(Armed(k) /\ GenMatches(k, pending[k]))
    BY <2>2 DEF Register
  <2>4. Armed(k) => GenMatches(k, pending[k])
    BY DEF IInv, CancelInv, CancelsHitTheirRun, NoStaleCancel
  <2>5. stopped[k] = gen[k] => Armed(k)
    BY <2>2, <2>3 DEF IInv, CancelInv, Stopped
  <2>6. QED
    BY <2>3, <2>4, <2>5
<1>2. QED
  BY InvariantHolds, <1>1, PTL DEF Spec, StoppedStaysStopped

\* Once terminate_all has returned no registered worker lives, and what it
\* stopped has its marker or a worker that completed, whatever retries,
\* cancels and exits fell between its snapshot and its kills.
THEOREM ShutdownLeavesAllClean == Spec => []ShutdownIsClean
<1>1. IInv => ShutdownLeavesNoWorker
  BY DEF IInv, ShutdownInv, ShutdownLeavesNoWorker
<1>2. IInv => ShutdownMarksStopped
  BY DEF IInv, ShutdownInv, ShutdownMarksStopped, DoomedKeys
<1>3. QED
  BY InvariantHolds, <1>1, <1>2, PTL DEF ShutdownIsClean

\* The only worker that writes into what is reserved for a delete is a
\* download of the whole repository while one of its variants is reserved.
ReservedIsFree ==
  \A s \in deleting : \A i \in InTheWay(s) : s # Whole /\ worker[i].key = Whole

\* A reservation keeps writers out of its scope, for any variants, overlapping
\* deletes, downloads and retries, but for the whole repository's download.
THEOREM ReservationsHold == Spec => []ReservedIsFree
<1>1. IInv => ReservedIsFree
  <2> SUFFICES ASSUME IInv, NEW s \in deleting, NEW i \in InTheWay(s)
               PROVE  s # Whole /\ worker[i].key = Whole
    BY DEF ReservedIsFree
  <2>1. i \in DOMAIN worker /\ Carries(i) /\ (s = Whole \/ worker[i].key \in {s, Whole})
    BY DEF InTheWay, Writers, IInv, RunInv, Carries, Carrying
  <2>2. Active(worker[i].key) /\ worker[i].key \in Keys
    BY <2>1, KeysTyped DEF IInv, RunInv, KeysOK
  <2>3. QED
    BY <2>1, <2>2 DEF IInv, DeleteInv
<1>2. QED
  BY InvariantHolds, <1>1, PTL

\* No worker writes into what is being removed until the removal ends, if the
\* whole repository is not downloaded and deletes of a scope do not overlap:
\* the code guards against neither.
THEOREM DeletesAreAlone ==
  ASSUME Whole \notin Keys, MaxDeletes <= 1
  PROVE  Spec => []DeleteAlone
<1>1. IInv /\ ReservedIsFree => DeleteAlone
  <2> SUFFICES ASSUME IInv, ReservedIsFree, NEW s \in Scopes, deletes[s] > 0, NEW i \in InTheWay(s)
               PROVE  FALSE
    BY DEF DeleteAlone
  <2>1. s \in deleting
    BY DEF IInv, DeleteInv
  <2>2. worker[i].key = Whole /\ i \in DOMAIN worker
    BY <2>1 DEF ReservedIsFree, InTheWay, Writers
  <2>3. QED
    BY <2>2, KeysTyped DEF IInv, KeysOK
<1>2. QED
  BY InvariantHolds, ReservationsHold, <1>1, PTL

=============================================================================
