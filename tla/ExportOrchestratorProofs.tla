----------------------- MODULE ExportOrchestratorProofs -----------------------
(***************************************************************************)
(* Proofs about the export orchestrator, for any checkpoints and export    *)
(* types, any number of operations and any number of cancels, teardowns,   *)
(* crashes and deadlines.                                                  *)
(***************************************************************************)
EXTENDS ExportOrchestrator, TLAPS

-----------------------------------------------------------------------------
(* The inductive invariant.                                                *)

\* Where the operation is, and how a shutdown runs for it: it is in
\* _shutdown_subprocess while it stops a worker, and has a worker still to come
\* while it has not been through the spawn.
PlaceInv ==
  /\ op.pc # "none" => op.kind \in Kinds /\ begun # 0
  /\ stop["op"] # "off" <=> op.pc \in {"clearing", "stopping"}
  /\ op.pc \in {"clearing", "spawn"} => op.kind.type = "load"
  /\ op.pc \in {"begun", "clearing", "spawn"} => spawned < begun

\* A worker is started only when none is on show, and only one that is started
\* meanwhile can be alive when a shutdown lets go of the handle.
HandleInv ==
  /\ op.pc = "spawn" => proc = 0
  /\ \A x \in Stoppers : stop[x] \in {"gone", "ended"} => ~Alive(proc) \/ proc \in amid
  /\ proc # 0 => respQueue = proc
  /\ proc <= spawned /\ respQueue <= spawned

\* A worker that is not there yet, or dead, has nothing to do.
WorkerInv ==
  \A w \in OpIds :
    /\ w > spawned => worker[w].state = "none" /\ resps[w] = <<>>
    /\ ~Alive(w) => worker[w].cmds = <<>>

\* The flag is the operation's own once it has been reset.
RecordInv ==
  /\ active <=> op.pc # "none"
  /\ op.pc \in {"none", "recorded"} => lastOp.seq = begun
  /\ op.pc \notin {"none", "recorded"} /\ op.kind.type # "cleanup" => (cancelAsked <=> op.meant)

\* A command or answer of the operation that waits, and one of an operation
\* that waits no longer.
Outstanding(c) == op.pc = "wait" /\ c.by = begun /\ c.kind = op.kind
LeftBehind(c) == \E l \in late : l.by = c.by /\ l.kind = c.kind

\* An operation reads, or may come to read, the queue on show.
InUse ==
  /\ respQueue # 0
  /\ proc # 0 \/ op.pc = "wait" \/ (op.pc = "begun" /\ op.kind.type # "load")

\* The operation has still to send its command, or to read its answer.
Unanswered == op.pc \in {"begun", "clearing", "spawn", "wait"}
LateInv == \A l \in late : l.by <= begun /\ (Unanswered => l.by < begun)

\* The commands and the answers on show are in the order in which they were
\* sent, each once; they are the waiting operation's or were left behind.
Ordered(rs, cs) ==
  /\ \A i, j \in DOMAIN rs : i < j => rs[i].by < rs[j].by
  /\ \A i, j \in DOMAIN cs : i < j /\ cs[i].by # 0 /\ cs[j].by # 0 => cs[i].by < cs[j].by
  /\ \A i \in DOMAIN rs, j \in DOMAIN cs : cs[j].by # 0 => rs[i].by < cs[j].by

Owned(c) == Outstanding(c) \/ LeftBehind(c)

\* One that is an operation's, and not a shutdown's.
Theirs(c) == c.by # 0

QueueInv ==
  InUse =>
    /\ Ordered(resps[respQueue], worker[respQueue].cmds)
    /\ \A i \in DOMAIN resps[respQueue] : Owned(resps[respQueue][i])
    /\ \A i \in DOMAIN worker[respQueue].cmds :
         Theirs(worker[respQueue].cmds[i]) => Owned(worker[respQueue].cmds[i])

\* Nobody but a load speaks to the worker that it started, until it ends.
LoadInv ==
  op.kind.type = "load" /\ op.pc = "wait" /\ respQueue # 0 =>
    /\ \A i \in DOMAIN resps[respQueue] : resps[respQueue][i].by = begun
    /\ \A i \in DOMAIN worker[respQueue].cmds :
         Theirs(worker[respQueue].cmds[i]) => worker[respQueue].cmds[i].by = begun

\* The operation is changing what its worker holds.
Changing == op.kind.type \in {"load", "cleanup"} /\ op.pc \in {"wait", "answered", "stopping"}
Settled(w) ==
  \A i \in DOMAIN worker[w].cmds : worker[w].cmds[i].kind.type \notin {"load", "cleanup"}

\* What the worker on show holds is the checkpoint on show, and what a load that
\* was done put there.
NameInv ==
  proc # 0 =>
    /\ checkpoint # NoCheckpoint /\ ~Changing =>
         Settled(proc) /\ (Alive(proc) => worker[proc].holds = checkpoint)
    /\ op.kind.type = "load" /\ op.pc = "answered" =>
         Settled(proc) /\ (op.ok /\ Alive(proc) => worker[proc].holds = op.kind.of)
    /\ op.kind.type = "load" /\ op.pc = "wait" =>
         \A i \in DOMAIN resps[proc] :
           resps[proc][i].as = "done" /\ Alive(proc) => worker[proc].holds = op.kind.of

\* The inductive invariant.
IInv ==
  /\ TypeOK /\ PlaceInv /\ HandleInv /\ WorkerInv /\ NoLostWorker
  /\ RecordInv /\ CancelIsRecorded
  /\ LateInv /\ QueueInv /\ LoadInv /\ OwnAnswer /\ NameInv


-----------------------------------------------------------------------------
(* Kinds, commands and queues.                                              *)

\* The kinds of operations, told apart by their type and, for an export, by what
\* is exported.
LEMMA KindFacts ==
  /\ \A k \in Kinds : k.type \in {"load", "export", "cleanup"}
  /\ \A k \in Kinds : k.type = "load" => k.of \in Checkpoints
  /\ \A k \in Kinds : k.type = "cleanup" => k.of = NoCheckpoint
  /\ \A k \in Kinds : k # Shutdown /\ k # NoOp.kind
  /\ \A k, l \in Kinds :
       k.type = l.type /\ k.type # "load" /\ (k.type = "export" => k.of = l.of) => k = l
BY DEF Kinds, Shutdown, NoOp

\* A command is an operation's, or the shutdown's.
LEMMA CommandFacts ==
  /\ \A c \in Commands : c.by # 0 => c.kind \in Kinds /\ c.by \in OpIds
  /\ \A c \in Commands : c.by = 0 => c = Bye
  /\ \A c \in Commands : c.kind.type = "shutdown" <=> c.by = 0
  /\ \A k \in Kinds, n \in OpIds : [kind |-> k, by |-> n] \in Commands
  /\ Bye \in Commands
<1>1. \A k \in Kinds : k.type # "shutdown"
  BY KindFacts
<1>2. Bye.kind.type = "shutdown" /\ Bye.by = 0
  BY DEF Bye, Shutdown
<1>3. \A c \in Commands : c = Bye \/ (c.kind \in Kinds /\ c.by \in OpIds)
  BY DEF Commands
<1>4. 0 \notin OpIds
  BY DEF OpIds
<1>5. QED
  BY <1>1, <1>2, <1>3, <1>4 DEF Commands

\* What is put at the end of a queue, and what is taken from its head.
LEMMA QueueFacts ==
  ASSUME NEW S, NEW s \in Seq(S)
  PROVE  /\ \A x \in S : /\ Append(s, x) \in Seq(S)
                         /\ DOMAIN Append(s, x) = 1 .. (Len(s) + 1)
                         /\ Append(s, x)[Len(s) + 1] = x
                         /\ \A i \in 1 .. Len(s) : Append(s, x)[i] = s[i]
         /\ s # <<>> => /\ Head(s) = s[1] /\ s[1] \in S
                        /\ 1 \in DOMAIN s /\ Len(s) >= 1
                        /\ Tail(s) \in Seq(S)
                        /\ DOMAIN Tail(s) = 1 .. (Len(s) - 1)
                        /\ \A i \in 1 .. (Len(s) - 1) : Tail(s)[i] = s[i + 1]
         /\ DOMAIN s = 1 .. Len(s) /\ Len(s) \in Nat
OBVIOUS

-----------------------------------------------------------------------------
(* The order of commands and answers.                                       *)

\* A queue of answers, and one of commands.
Rs == Seq(Responses)
Cs == Seq(Commands)

\* Numbers of operations, as they stand in queues.
LEMMA Numbers ==
  /\ \A s \in Rs : \A i \in DOMAIN s : s[i].by \in Nat /\ s[i].by # 0 /\ s[i] \in Responses
  /\ \A s \in Cs : \A i \in DOMAIN s : s[i].by \in Nat /\ s[i] \in Commands
<1>1. \A r \in Responses : r.by \in Nat /\ r.by # 0
  BY DEF Responses, OpIds
<1>2. \A c \in Commands : c.by \in Nat
  BY MaxOpsAssumption DEF Commands, OpIds, Bye
<1>3. QED
  BY <1>1, <1>2 DEF Rs, Cs

\* Taking the first answer keeps the order.
LEMMA OrderedRead ==
  ASSUME NEW rs \in Rs, NEW cs \in Cs, Ordered(rs, cs), rs # <<>>
  PROVE  Ordered(Tail(rs), cs)
<1> DEFINE rest == Tail(rs)
<1>1. /\ DOMAIN rs = 1 .. Len(rs) /\ Len(rs) \in Nat
      /\ DOMAIN rest = 1 .. (Len(rs) - 1)
      /\ \A i \in DOMAIN rest : rest[i] = rs[i + 1]
  BY QueueFacts DEF Rs
<1>2. \A i \in DOMAIN rest : i \in Int /\ i + 1 \in DOMAIN rs
  BY <1>1
<1> HIDE DEF rest
<1>3. \A i, j \in DOMAIN rest : i < j => rest[i].by < rest[j].by
  BY <1>1, <1>2 DEF Ordered
<1>4. \A i \in DOMAIN rest, j \in DOMAIN cs : cs[j].by # 0 => rest[i].by < cs[j].by
  BY <1>1, <1>2 DEF Ordered
<1>5. Ordered(rest, cs)
  BY <1>3, <1>4 DEF Ordered
<1>6. QED
  BY <1>5 DEF rest

\* So does a command that is later than all that is there.
LEMMA OrderedSend ==
  ASSUME NEW rs \in Rs, NEW cs \in Cs, Ordered(rs, cs), NEW c \in Commands, c.by # 0,
         \A i \in DOMAIN rs : rs[i].by < c.by,
         \A i \in DOMAIN cs : cs[i].by < c.by
  PROVE  Ordered(rs, Append(cs, c))
BY QueueFacts, Numbers DEF Ordered, Rs, Cs

\* So does a command that belongs to nobody.
LEMMA OrderedBye ==
  ASSUME NEW rs \in Rs, NEW cs \in Cs, Ordered(rs, cs)
  PROVE  Ordered(rs, Append(cs, Bye))
<1> DEFINE more == Append(cs, Bye)
<1>1. Bye \in Commands /\ Bye.by = 0
  BY CommandFacts DEF Bye
<1>2. /\ DOMAIN cs = 1 .. Len(cs) /\ Len(cs) \in Nat
      /\ DOMAIN more = 1 .. (Len(cs) + 1)
      /\ more[Len(cs) + 1] = Bye
      /\ \A i \in 1 .. Len(cs) : more[i] = cs[i]
  BY <1>1, QueueFacts DEF Cs
<1> HIDE DEF more
<1>3. \A i \in DOMAIN more : more[i].by # 0 => i \in DOMAIN cs /\ more[i] = cs[i]
  BY <1>1, <1>2
<1>4. Ordered(rs, more)
  BY <1>3 DEF Ordered
<1>5. QED
  BY <1>4 DEF more

\* So does a worker that takes a command and answers it.
LEMMA OrderedWork ==
  ASSUME NEW rs \in Rs, NEW cs \in Cs, Ordered(rs, cs), cs # <<>>, Head(cs).by # 0,
         NEW r \in Responses, r.by = Head(cs).by
  PROVE  Ordered(Append(rs, r), Tail(cs))
<1> DEFINE answers == Append(rs, r)
           rest == Tail(cs)
<1>1. /\ DOMAIN rs = 1 .. Len(rs) /\ Len(rs) \in Nat
      /\ DOMAIN answers = 1 .. (Len(rs) + 1)
      /\ answers[Len(rs) + 1] = r
      /\ \A i \in 1 .. Len(rs) : answers[i] = rs[i]
  BY QueueFacts DEF Rs
<1>2. /\ DOMAIN cs = 1 .. Len(cs) /\ Len(cs) \in Nat /\ 1 \in DOMAIN cs
      /\ cs[1] = Head(cs)
      /\ DOMAIN rest = 1 .. (Len(cs) - 1)
      /\ \A i \in DOMAIN rest : rest[i] = cs[i + 1]
  BY QueueFacts DEF Cs
<1>3. \A i \in DOMAIN rest : i \in Int /\ i + 1 \in DOMAIN cs /\ 1 < i + 1
  BY <1>2
<1>4. \A i \in DOMAIN answers : i \in Int /\ (i \in DOMAIN rs \/ i = Len(rs) + 1)
  BY <1>1
<1> HIDE DEF answers, rest
<1>5. \A i \in DOMAIN rs : rs[i].by < r.by
  BY <1>2 DEF Ordered
<1>6. \A j \in DOMAIN rest : rest[j].by # 0 => r.by < rest[j].by
  BY <1>2, <1>3 DEF Ordered
<1>7. \A i, j \in DOMAIN answers : i < j => answers[i].by < answers[j].by
  <2>1. SUFFICES ASSUME NEW i \in DOMAIN answers, NEW j \in DOMAIN answers, i < j
                 PROVE  answers[i].by < answers[j].by
    OBVIOUS
  <2>2. i \in DOMAIN rs
    BY <2>1, <1>1
  <2>3. CASE j \in DOMAIN rs
    BY <2>1, <2>2, <2>3, <1>1 DEF Ordered
  <2>4. CASE j = Len(rs) + 1
    BY <2>2, <2>4, <1>1, <1>5
  <2>5. QED
    BY <2>3, <2>4, <1>4
<1>8. \A i, j \in DOMAIN rest : i < j /\ rest[i].by # 0 /\ rest[j].by # 0
                                  => rest[i].by < rest[j].by
  BY <1>2, <1>3 DEF Ordered
<1>9. \A i \in DOMAIN answers, j \in DOMAIN rest :
        rest[j].by # 0 => answers[i].by < rest[j].by
  BY <1>1, <1>2, <1>3, <1>4, <1>6 DEF Ordered
<1>10. Ordered(answers, rest)
  BY <1>7, <1>8, <1>9 DEF Ordered
<1>11. QED
  BY <1>10 DEF answers, rest

\* What is not there is in order.
LEMMA OrderedNone ==
  ASSUME NEW rs, NEW cs, Ordered(rs, cs)
  PROVE  Ordered(rs, <<>>) /\ Ordered(<<>>, cs)
BY DEF Ordered

-----------------------------------------------------------------------------
(* What the actions do to the workers.                                      *)

QueueTypes == worker \in [OpIds -> Workers] /\ resps \in [OpIds -> Seq(Responses)]

\* A step in which workers die or wedge, and nothing else happens to them.
Declined ==
  /\ worker' \in [OpIds -> Workers]
  /\ \A v \in OpIds :
       /\ worker'[v].state = "none" <=> worker[v].state = "none"
       /\ Alive(v)' => /\ Alive(v)
                       /\ worker'[v].cmds = worker[v].cmds
                       /\ worker'[v].holds = worker[v].holds
       /\ ~Alive(v)' => worker'[v].cmds = <<>>

\* The numbers of the workers.
LEMMA Ids ==
  /\ OpIds \subseteq Nat /\ 0 \notin OpIds
  /\ \A n \in 0 .. MaxOps : n # 0 => n \in OpIds
BY MaxOpsAssumption DEF OpIds

\* A dead worker.
LEMMA CorpseFacts ==
  /\ Corpse \in Workers
  /\ Corpse.state = "dead" /\ Corpse.cmds = <<>>
BY DEF Corpse, Workers

\* One worker dies, or wedges, or none.
LEMMA Falls ==
  ASSUME QueueTypes, WorkerInv, NEW w \in OpIds, worker[w].state # "none",
         \/ worker' = [worker EXCEPT ![w] = Corpse]
         \/ Alive(w) /\ worker' = [worker EXCEPT ![w] = [worker[w] EXCEPT !.state = "wedged"]]
         \/ worker' = worker
  PROVE  Declined
<1> USE DEF QueueTypes, Declined, Alive
<1>1. 0 \notin OpIds
  BY Ids
<1>2. \A v \in OpIds : ~Alive(v) => worker[v].cmds = <<>>
  BY DEF WorkerInv
<1>3. CASE worker' = [worker EXCEPT ![w] = Corpse]
  BY <1>1, <1>2, <1>3, CorpseFacts
<1>4. CASE Alive(w) /\ worker' = [worker EXCEPT ![w] = [worker[w] EXCEPT !.state = "wedged"]]
  <2>1. [worker[w] EXCEPT !.state = "wedged"] \in Workers
    BY DEF Workers
  <2>2. /\ [worker[w] EXCEPT !.state = "wedged"].state = "wedged"
        /\ [worker[w] EXCEPT !.state = "wedged"].cmds = worker[w].cmds
        /\ [worker[w] EXCEPT !.state = "wedged"].holds = worker[w].holds
    BY DEF Workers
  <2>3. QED
    BY <1>1, <1>2, <1>4, <2>1, <2>2
<1>5. CASE worker' = worker
  BY <1>1, <1>2, <1>5
<1>6. QED
  BY <1>3, <1>4, <1>5

\* What a step that kills a worker, or in which one falls, does.
LEMMA Declines ==
  ASSUME TypeOK, WorkerInv,
         \/ \E x \in Stoppers : StopForces(x)
         \/ CancelKills
         \/ \E w \in OpIds : Fall(w) \/ Unwedge(w)
  PROVE  Declined
<1>1. QueueTypes
  BY DEF TypeOK, QueueTypes
<1>2. ASSUME NEW w \in 0 .. MaxOps, Killed(w) PROVE Declined
  <2>1. CASE Alive(w)
    BY <1>1, <1>2, <2>1, Ids, Falls DEF Killed, Alive
  <2>2. CASE ~Alive(w)
    <3>1. worker' = worker
      BY <1>2, <2>2 DEF Killed
    <3>2. \A v \in OpIds : ~Alive(v) => worker[v].cmds = <<>>
      BY DEF WorkerInv
    <3>3. QED
      BY <1>1, <3>1, <3>2 DEF Declined, Alive, QueueTypes
  <2>3. QED
    BY <2>1, <2>2
<1>3. proc \in 0 .. MaxOps /\ canceller \in 0 .. MaxOps
  BY DEF TypeOK
<1>4. CASE (\E x \in Stoppers : StopForces(x)) \/ CancelKills
  BY <1>2, <1>3, <1>4 DEF StopForces, CancelKills
<1>5. ASSUME NEW w \in OpIds, Fall(w) PROVE Declined
  BY <1>1, <1>5, Ids, Falls DEF Fall, Alive
<1>6. ASSUME NEW w \in OpIds, Unwedge(w) PROVE Declined
  BY <1>1, <1>6, Ids, Falls DEF Unwedge
<1>7. QED
  BY <1>4, <1>5, <1>6

\* A command is put on the queue of a worker.
SentTo(w, c) ==
  /\ worker' \in [OpIds -> Workers]
  /\ \A v \in OpIds :
       /\ worker'[v].state = worker[v].state
       /\ worker'[v].holds = worker[v].holds
       /\ worker'[v].cmds = IF v = w /\ Alive(w) THEN Append(worker[v].cmds, c)
                                                 ELSE worker[v].cmds

\* What putting a command on a queue does.
LEMMA Sends ==
  ASSUME QueueTypes, NEW w \in OpIds, NEW kind, NEW by,
         [kind |-> kind, by |-> by] \in Commands,
         worker' = Sent(w, kind, by)
  PROVE  SentTo(w, [kind |-> kind, by |-> by])
<1> DEFINE c == [kind |-> kind, by |-> by]
<1> DEFINE new == [worker[w] EXCEPT !.cmds = Append(@, c)]
<1>1. CASE Alive(w)
  <2>1. worker[w].cmds \in Seq(Commands) /\ worker[w] \in Workers
    BY DEF QueueTypes, Workers
  <2>2. Append(worker[w].cmds, c) \in Seq(Commands)
    BY <2>1
  <2>3. new \in Workers
    BY <2>1, <2>2 DEF Workers
  <2>4. new.state = worker[w].state /\ new.holds = worker[w].holds
        /\ new.cmds = Append(worker[w].cmds, c)
    BY <2>1 DEF Workers
  <2>5. worker' = [worker EXCEPT ![w] = new]
    BY <1>1 DEF Sent
  <2> HIDE DEF new
  <2>6. QED
    BY <1>1, <2>3, <2>4, <2>5 DEF QueueTypes, SentTo
<1>2. CASE ~Alive(w)
  BY <1>2 DEF Sent, QueueTypes, SentTo
<1>3. QED
  BY <1>1, <1>2

\* The operation's command and the shutdown's.
LEMMA SendEffect ==
  ASSUME TypeOK, PlaceInv, Send
  PROVE  /\ respQueue \in OpIds /\ begun \in OpIds
         /\ [kind |-> op.kind, by |-> begun] \in Commands
         /\ SentTo(respQueue, [kind |-> op.kind, by |-> begun])
<1>1. respQueue \in OpIds /\ begun \in OpIds /\ op.kind \in Kinds
  BY Ids DEF TypeOK, PlaceInv, Send
<1>2. [kind |-> op.kind, by |-> begun] \in Commands
  BY <1>1, CommandFacts
<1>3. worker' = Sent(respQueue, op.kind, begun) /\ QueueTypes
  BY DEF Send, TypeOK, QueueTypes
<1>4. QED
  BY <1>1, <1>2, <1>3, Sends

\* The command to end goes to the worker on show, whose answers are thrown away.
LEMMA AskEffect ==
  ASSUME TypeOK, HandleInv, NEW x \in Stoppers, StopAsks(x)
  PROVE  respQueue \in OpIds /\ proc = respQueue /\ Alive(respQueue)
         /\ SentTo(respQueue, Bye)
         /\ resps' = [resps EXCEPT ![respQueue] = <<>>]
<1>1. proc # 0 /\ Alive(proc)
  BY DEF StopAsks, Alive
<1>2. proc = respQueue /\ respQueue \in OpIds
  BY <1>1, Ids DEF HandleInv, TypeOK
<1>3. [kind |-> Shutdown, by |-> 0] \in Commands
  BY CommandFacts DEF Bye
<1>4. worker' = Sent(respQueue, Shutdown, 0) /\ QueueTypes
        /\ resps' = [resps EXCEPT ![respQueue] = <<>>]
  BY DEF StopAsks, TypeOK, QueueTypes
<1>5. SentTo(respQueue, Bye)
  BY <1>2, <1>3, <1>4, Sends DEF Bye
<1>6. QED
  BY <1>1, <1>2, <1>4, <1>5

\* A worker takes a command, and answers it unless it was told to end.
Answers(w, r) ==
  LET c == Head(worker[w].cmds) IN
    /\ Alive(w) /\ worker[w].cmds # <<>>
    /\ r \in Responses /\ r.kind = c.kind /\ r.by = c.by /\ c.by # 0
    /\ worker' \in [OpIds -> Workers]
    /\ resps' \in [OpIds -> Seq(Responses)]
    /\ resps' = [resps EXCEPT ![w] = Append(@, r)]
    /\ \A v \in OpIds : v # w => worker'[v] = worker[v]
    /\ worker'[w].state # "none"
    /\ worker'[w].cmds = IF Alive(w)' THEN Tail(worker[w].cmds) ELSE <<>>
    /\ Alive(w)' => worker'[w].holds = IF c.kind.type \in {"load", "cleanup"} /\ r.as = "done"
                                       THEN c.kind.of ELSE worker[w].holds

\* A worker ends, or answers.
LEMMA Works ==
  ASSUME TypeOK, WorkerInv, NEW w \in OpIds, Work(w)
  PROVE  \/ Declined /\ UNCHANGED resps
         \/ \E r \in Responses : Answers(w, r)
<1> DEFINE c == Head(worker[w].cmds)
<1> DEFINE idle == [worker[w] EXCEPT !.cmds = Tail(@)]
<1>1. QueueTypes /\ 0 \notin OpIds
  BY Ids DEF TypeOK, QueueTypes
<1>2. /\ worker[w].state = "running" /\ Alive(w) /\ worker[w].cmds # <<>>
      /\ worker[w] \in Workers /\ worker[w].cmds \in Seq(Commands)
      /\ resps[w] \in Seq(Responses)
      /\ worker[w].holds \in Checkpoints \cup {NoCheckpoint}
  BY <1>1 DEF Work, QueueTypes, Workers, Alive
<1>3. c \in Commands /\ Tail(worker[w].cmds) \in Seq(Commands)
  BY <1>2, QueueFacts
<1>4. CASE c.kind.type = "shutdown"
  <2>1. worker' = [worker EXCEPT ![w] = Corpse] /\ UNCHANGED resps
    BY <1>4 DEF Work
  <2>2. QED
    BY <1>1, <1>2, <2>1, Falls
<1>5. CASE c.kind.type # "shutdown"
  <2>1. c.by # 0 /\ c.kind \in Kinds /\ c.by \in OpIds
    BY <1>3, <1>5, CommandFacts
  <2>2. idle \in Workers /\ idle.cmds = Tail(worker[w].cmds) /\ idle.holds = worker[w].holds
        /\ idle.state = "running"
    BY <1>2, <1>3 DEF Workers
  <2>3. PICK as \in {"done", "failed", "error"} :
          /\ resps' = [resps EXCEPT ![w] = Append(@, [kind |-> c.kind, by |-> c.by, as |-> as])]
          /\ worker' = [worker EXCEPT ![w] =
                CASE c.kind.type = "load" /\ as = "error" -> Corpse
                  [] c.kind.type \in {"load", "cleanup"} /\ as = "done" ->
                       [idle EXCEPT !.holds = c.kind.of]
                  [] OTHER -> idle]
    BY <1>5 DEF Work
  <2> DEFINE r == [kind |-> c.kind, by |-> c.by, as |-> as]
  <2>4. r \in Responses /\ r.kind = c.kind /\ r.by = c.by /\ r.as = as
    BY <2>1 DEF Responses
  <2>5. Append(resps[w], r) \in Seq(Responses)
    BY <1>2, <2>4
  <2>6. resps' = [resps EXCEPT ![w] = Append(@, r)] /\ resps' \in [OpIds -> Seq(Responses)]
    BY <1>1, <2>3, <2>5 DEF QueueTypes
  <2> HIDE DEF r
  <2>7. CASE c.kind.type = "load" /\ as = "error"
    <3>1. worker' = [worker EXCEPT ![w] = Corpse]
      BY <2>3, <2>7
    <3>2. worker'[w] = Corpse /\ ~Alive(w)' /\ worker' \in [OpIds -> Workers]
          /\ \A v \in OpIds : v # w => worker'[v] = worker[v]
      BY <1>1, <3>1, CorpseFacts DEF QueueTypes, Alive
    <3>3. Answers(w, r)
      BY <1>2, <2>1, <2>4, <2>6, <3>2, CorpseFacts DEF Answers
    <3>4. QED
      BY <2>4, <3>3
  <2>8. CASE c.kind.type \in {"load", "cleanup"} /\ as = "done"
    <3> DEFINE new == [idle EXCEPT !.holds = c.kind.of]
    <3>1. c.kind.of \in Checkpoints \cup {NoCheckpoint}
      BY <2>1, <2>8, KindFacts
    <3>2. new \in Workers /\ new.cmds = Tail(worker[w].cmds) /\ new.holds = c.kind.of
          /\ new.state = "running"
      BY <2>2, <3>1 DEF Workers
    <3>3. worker' = [worker EXCEPT ![w] = new]
      BY <2>3, <2>8
    <3> HIDE DEF new, idle, c
    <3>4. worker'[w] = new /\ worker' \in [OpIds -> Workers]
          /\ \A v \in OpIds : v # w => worker'[v] = worker[v]
      BY <1>1, <3>2, <3>3 DEF QueueTypes
    <3>5. Alive(w)'
      BY <1>1, <3>2, <3>4 DEF Alive
    <3>6. Answers(w, r)
      BY <1>2, <2>1, <2>4, <2>6, <2>8, <3>2, <3>4, <3>5 DEF Answers, c
    <3>7. QED
      BY <2>4, <3>6
  <2>9. CASE /\ ~(c.kind.type = "load" /\ as = "error")
             /\ ~(c.kind.type \in {"load", "cleanup"} /\ as = "done")
    <3>1. worker' = [worker EXCEPT ![w] = idle]
      BY <2>3, <2>9
    <3> HIDE DEF idle, c
    <3>2. worker'[w] = idle /\ worker' \in [OpIds -> Workers]
          /\ \A v \in OpIds : v # w => worker'[v] = worker[v]
      BY <1>1, <2>2, <3>1 DEF QueueTypes
    <3>3. Alive(w)'
      BY <1>1, <2>2, <3>2 DEF Alive
    <3>4. Answers(w, r)
      BY <1>2, <2>1, <2>2, <2>4, <2>6, <2>9, <3>2, <3>3 DEF Answers, c
    <3>5. QED
      BY <2>4, <3>4
  <2>10. QED
    BY <2>7, <2>8, <2>9
<1>6. QED
  BY <1>4, <1>5

\* A worker starts, with the load to do.
LEMMA SpawnEffect ==
  ASSUME TypeOK, PlaceInv, WorkerInv, Spawn
  PROVE  /\ spawned + 1 \in OpIds /\ begun \in OpIds
         /\ worker' \in [OpIds -> Workers]
         /\ worker'[spawned + 1].state = "running"
         /\ worker'[spawned + 1].cmds = <<[kind |-> op.kind, by |-> begun]>>
         /\ [kind |-> op.kind, by |-> begun] \in Commands
         /\ resps[spawned + 1] = <<>>
         /\ \A v \in OpIds : v # spawned + 1 => worker'[v] = worker[v]
<1> DEFINE w == spawned + 1
<1> DEFINE c == [kind |-> op.kind, by |-> begun]
<1>1. w \in OpIds /\ w > spawned
  BY MaxOpsAssumption DEF TypeOK, PlaceInv, Spawn, OpIds
<1>2. begun \in OpIds /\ op.kind \in Kinds
  BY Ids DEF TypeOK, PlaceInv, Spawn
<1>3. c \in Commands
  BY <1>2, CommandFacts
<1>4. <<c>> \in Seq(Commands)
  BY <1>3
<1>5. QueueTypes
  BY DEF TypeOK, QueueTypes
<1>6. resps[w] = <<>>
  BY <1>1 DEF WorkerInv
<1>7. worker' = [worker EXCEPT ![w].state = "running", ![w].cmds = <<c>>]
  BY DEF Spawn
<1> DEFINE new == [worker[w] EXCEPT !.state = "running", !.cmds = <<c>>]
<1>8. worker[w] \in Workers
  BY <1>1, <1>5 DEF QueueTypes
<1>9. new \in Workers /\ new.state = "running" /\ new.cmds = <<c>>
  BY <1>4, <1>8 DEF Workers
<1>10. worker' = [worker EXCEPT ![w] = new]
  BY <1>1, <1>5, <1>7, <1>8 DEF QueueTypes, Workers
<1> HIDE DEF new, w, c
<1>11. worker' \in [OpIds -> Workers] /\ worker'[w] = new
       /\ \A v \in OpIds : v # w => worker'[v] = worker[v]
  BY <1>1, <1>5, <1>9, <1>10 DEF QueueTypes
<1>12. QED
  BY <1>1, <1>2, <1>3, <1>6, <1>9, <1>11 DEF w, c

-----------------------------------------------------------------------------
(* Types.                                                                   *)

\* The types of the variables, by what they are about.
OpTypes ==
  /\ active \in BOOLEAN /\ cancelAsked \in BOOLEAN
  /\ lastOp \in [seq : 0 .. MaxOps, status : {"none", "success", "error", "cancelled"}]
  /\ op \in Operations
  /\ stop \in [Stoppers -> StopPlaces]

HandleTypes ==
  /\ proc \in 0 .. MaxOps /\ respQueue \in 0 .. MaxOps /\ canceller \in 0 .. MaxOps
  /\ checkpoint \in Checkpoints \cup {NoCheckpoint}

CountTypes ==
  /\ begun \in 0 .. MaxOps
  /\ spawned \in 0 .. begun
  /\ late \subseteq [by : OpIds, kind : Kinds]
  /\ amid \subseteq OpIds

\* No operation, and a new one.
LEMMA NoOperation ==
  /\ NoOp \in Operations /\ NoOp.pc = "none" /\ NoOp.took = 0
  /\ \A kind \in Kinds :
       LET new == [NoOp EXCEPT !.pc = "begun", !.kind = kind] IN
         new \in Operations /\ new.pc = "begun" /\ new.kind = kind /\ new.took = 0
         /\ new.meant = FALSE
<1>1. 0 \in 0 .. MaxOps
  BY MaxOpsAssumption
<1>2. /\ NoOp.pc = "none" /\ NoOp.took = 0 /\ NoOp.meant = FALSE /\ NoOp.ok = FALSE
      /\ NoOp = [pc |-> "none", kind |-> NoOp.kind, ok |-> FALSE, meant |-> FALSE, took |-> 0]
  BY DEF NoOp
<1>3. NoOp \in Operations
  BY <1>1, <1>2 DEF Operations, Places
<1>4. ASSUME NEW kind \in Kinds
      PROVE  LET new == [NoOp EXCEPT !.pc = "begun", !.kind = kind] IN
               new \in Operations /\ new.pc = "begun" /\ new.kind = kind /\ new.took = 0
               /\ new.meant = FALSE
  BY <1>2, <1>3 DEF Operations, Places
<1>5. QED
  BY <1>2, <1>3, <1>4

\* The answer that is read.
LEMMA ReadEffect ==
  ASSUME TypeOK, ReadAnswer
  PROVE  /\ respQueue \in OpIds /\ resps[respQueue] \in Seq(Responses) /\ resps[respQueue] # <<>>
         /\ Head(resps[respQueue]) \in Responses
         /\ Head(resps[respQueue]).by \in OpIds
         /\ Head(resps[respQueue]).kind \in Kinds
<1>1. respQueue \in OpIds /\ resps[respQueue] # <<>>
  BY Ids DEF ReadAnswer, TypeOK
<1>2. resps[respQueue] \in Seq(Responses)
  BY <1>1 DEF TypeOK
<1>3. Head(resps[respQueue]) \in Responses
  BY <1>1, <1>2, QueueFacts
<1>4. QED
  BY <1>1, <1>2, <1>3 DEF Responses

\* Together they are the types.
LEMMA TypesTogether == TypeOK <=> OpTypes /\ HandleTypes /\ QueueTypes /\ CountTypes
BY DEF TypeOK, OpTypes, HandleTypes, QueueTypes, CountTypes

\* The next worker has a number.
LEMMA SpawnNumber ==
  ASSUME CountTypes, PlaceInv, Spawn
  PROVE  spawned + 1 \in OpIds /\ spawned + 1 \in 0 .. MaxOps /\ spawned + 1 \in 0 .. begun
BY MaxOpsAssumption DEF CountTypes, PlaceInv, Spawn, OpIds


\* The handles keep their types.
LEMMA HandleTypesStep ==
  IInv /\ [Next]_vars => HandleTypes'
<1> SUFFICES ASSUME HandleTypes, CountTypes, OpTypes, PlaceInv, [Next]_vars
             PROVE  HandleTypes'
  BY TypesTogether DEF IInv
<1>1. ASSUME CleanNothing PROVE HandleTypes'
  BY <1>1
     DEF CleanNothing, handles, HandleTypes
<1>2. ASSUME Spawn PROVE HandleTypes'
  BY <1>2, SpawnNumber
     DEF Spawn, HandleTypes
<1>3. ASSUME SpawnFails PROVE HandleTypes'
  BY <1>3
     DEF SpawnFails, handles, HandleTypes
<1>4. ASSUME Answered PROVE HandleTypes'
  <2>1. op.pc = "answered" /\ op.kind \in Kinds
    BY <1>4 DEF Answered, PlaceInv
  <2>2. op.kind.type = "load" => op.kind.of \in Checkpoints
    BY <2>1, KindFacts
  <2>3. QED
    BY <1>4, <2>2 DEF HandleTypes, Answered, handles
<1>5. ASSUME NEW x \in Stoppers, StopEnds(x) PROVE HandleTypes'
  <2>1. proc' = 0 /\ respQueue' \in {0, respQueue} /\ canceller' = canceller
        /\ checkpoint' \in {checkpoint, NoCheckpoint}
    BY <1>5 DEF StopEnds, Stopped
  <2>2. 0 \in 0 .. MaxOps
    BY MaxOpsAssumption
  <2>3. QED
    BY <2>1, <2>2 DEF HandleTypes
<1>6. ASSUME NEW x \in Stoppers, StopSurvivor(x) PROVE HandleTypes'
  BY <1>6
     DEF StopSurvivor, Stopped, handles, HandleTypes
<1>7. ASSUME Cancel PROVE HandleTypes'
  BY <1>7 DEF HandleTypes, Cancel, handles, Alive
<1>8. ASSUME CancelKills PROVE HandleTypes'
  <2>1. 0 \in 0 .. MaxOps
    BY MaxOpsAssumption
  <2>2. QED
    BY <1>8, <2>1 DEF HandleTypes, CancelKills, handles
<1>9. ASSUME \/ (\E kind \in Kinds : Begin(kind))
              \/ Refused
              \/ LoadStops
              \/ Send
              \/ SendFails
              \/ ReadAnswer
              \/ ReadCrash
              \/ WaitTimesOut
              \/ Record
              \/ Over
              \/ (\E x \in Stoppers : StopSees(x))
              \/ (\E x \in Stoppers : StopAsks(x))
              \/ (\E x \in Stoppers : StopForces(x))
              \/ Teardown
              \/ (\E w \in OpIds : Work(w))
              \/ (\E w \in OpIds : Fall(w))
              \/ (\E w \in OpIds : Unwedge(w))
              \/ UNCHANGED vars
       PROVE  HandleTypes'
  <2>1. UNCHANGED <<proc, respQueue, canceller, checkpoint>>
    BY <1>9 DEF Begin, Refused, LoadStops, Send, SendFails, ReadAnswer, ReadCrash,
           WaitTimesOut, Record, Over, StopSees, StopAsks, StopForces, Teardown,
           Work, Fall, Unwedge, vars, handles, workerVars, history
  <2>2. QED
    BY <2>1 DEF HandleTypes
<1>10. QED
  BY <1>1, <1>2, <1>3, <1>4, <1>5, <1>6, <1>7, <1>8, <1>9
     DEF Next, OpStep, StopStep

\* The queues keep their types.
LEMMA QueueTypesStep ==
  IInv /\ [Next]_vars => QueueTypes'
<1> SUFFICES ASSUME TypeOK, QueueTypes, PlaceInv, HandleInv, WorkerInv, [Next]_vars
             PROVE  QueueTypes'
  BY TypesTogether DEF IInv
<1>1. ASSUME Spawn PROVE QueueTypes'
  BY <1>1, SpawnEffect DEF Spawn, QueueTypes
<1>2. ASSUME Send PROVE QueueTypes'
  BY <1>2, SendEffect DEF Send, SentTo, QueueTypes
<1>3. ASSUME ReadAnswer PROVE QueueTypes'
  <2>1. respQueue \in OpIds /\ resps[respQueue] # <<>>
    BY <1>3, Ids DEF ReadAnswer, TypeOK
  <2>2. Tail(resps[respQueue]) \in Seq(Responses)
    BY <2>1, QueueFacts DEF QueueTypes
  <2>3. QED
    BY <1>3, <2>1, <2>2 DEF ReadAnswer, QueueTypes
<1>4. ASSUME NEW x \in Stoppers, StopAsks(x) PROVE QueueTypes'
  <2>1. /\ SentTo(respQueue, Bye) /\ respQueue \in OpIds
        /\ resps' = [resps EXCEPT ![respQueue] = <<>>]
    BY <1>4, AskEffect
  <2>2. QED
    BY <2>1 DEF SentTo, QueueTypes
<1>5. ASSUME NEW x \in Stoppers, StopForces(x) PROVE QueueTypes'
  BY <1>5, Declines DEF Declined, QueueTypes, StopForces
<1>6. ASSUME CancelKills PROVE QueueTypes'
  BY <1>6, Declines DEF Declined, QueueTypes, CancelKills
<1>7. ASSUME NEW w \in OpIds, Work(w) PROVE QueueTypes'
  BY <1>7, Works DEF Declined, Answers, QueueTypes
<1>8. ASSUME NEW w \in OpIds, Fall(w) PROVE QueueTypes'
  BY <1>8, Declines DEF Declined, QueueTypes, Fall
<1>9. ASSUME NEW w \in OpIds, Unwedge(w) PROVE QueueTypes'
  BY <1>9, Declines DEF Declined, QueueTypes, Unwedge
<1>10. ASSUME \/ (\E kind \in Kinds : Begin(kind))
              \/ CleanNothing
              \/ Refused
              \/ LoadStops
              \/ SpawnFails
              \/ SendFails
              \/ ReadCrash
              \/ WaitTimesOut
              \/ Answered
              \/ Record
              \/ Over
              \/ (\E x \in Stoppers : StopSees(x))
              \/ (\E x \in Stoppers : StopEnds(x))
              \/ (\E x \in Stoppers : StopSurvivor(x))
              \/ Teardown
              \/ Cancel
              \/ UNCHANGED vars
       PROVE  QueueTypes'
  <2>1. UNCHANGED <<worker, resps>>
    BY <1>10 DEF Begin, CleanNothing, Refused, LoadStops, SpawnFails, SendFails,
           ReadCrash, WaitTimesOut, Answered, Record, Over, StopSees, StopEnds,
           StopSurvivor, Teardown, Cancel, vars, handles, workerVars, history
  <2>2. QED
    BY <2>1 DEF QueueTypes
<1>11. QED
  BY <1>1, <1>2, <1>3, <1>4, <1>5, <1>6, <1>7, <1>8, <1>9, <1>10
     DEF Next, OpStep, StopStep

\* The operation and the shutdowns keep their types.
LEMMA OpTypesStep ==
  IInv /\ [Next]_vars => OpTypes'
<1> SUFFICES ASSUME OpTypes, CountTypes, HandleTypes, QueueTypes, [Next]_vars
             PROVE  OpTypes'
  BY TypesTogether DEF IInv
<1>1. ASSUME NEW kind \in Kinds, Begin(kind) PROVE OpTypes'
  <2>1. active' = TRUE /\ cancelAsked' \in {cancelAsked, FALSE} /\ lastOp' = lastOp /\ stop' = stop
    BY <1>1 DEF Begin, ForgetCancel
  <2>2. op' \in Operations
    BY <1>1, NoOperation DEF Begin
  <2>3. QED
    BY <2>1, <2>2 DEF OpTypes
<1>2. ASSUME Refused PROVE OpTypes'
  BY <1>2
     DEF Refused, Fails, OpTypes, Operations, Places, StopPlaces, Stoppers
<1>3. ASSUME LoadStops PROVE OpTypes'
  BY <1>3
     DEF LoadStops, Goes, OpTypes, Operations, Places, StopPlaces, Stoppers
<1>4. ASSUME Spawn PROVE OpTypes'
  BY <1>4
     DEF Spawn, Goes, OpTypes, Operations, Places, StopPlaces, Stoppers
<1>5. ASSUME SpawnFails PROVE OpTypes'
  BY <1>5
     DEF SpawnFails, Fails, OpTypes, Operations, Places, StopPlaces, Stoppers
<1>6. ASSUME Send PROVE OpTypes'
  BY <1>6
     DEF Send, Goes, OpTypes, Operations, Places, StopPlaces, Stoppers
<1>7. ASSUME SendFails PROVE OpTypes'
  BY <1>7
     DEF SendFails, Wrecked, Goes, OpTypes, Operations, Places, StopPlaces, Stoppers
<1>8. ASSUME ReadAnswer PROVE OpTypes'
  <2>1. active' = active /\ cancelAsked' = cancelAsked /\ lastOp' = lastOp
    BY <1>8 DEF ReadAnswer
  <2>2. Head(resps[respQueue]).by \in 0 .. MaxOps
    BY <1>8, ReadEffect, TypesTogether DEF OpIds
  <2>3. op' \in Operations
    BY <1>8, <2>2 DEF ReadAnswer, Wrecked, Goes, OpTypes, Operations, Places
  <2>4. stop' \in [Stoppers -> StopPlaces]
    BY <1>8 DEF ReadAnswer, Wrecked, OpTypes, StopPlaces, Stoppers
  <2>5. QED
    BY <2>1, <2>3, <2>4 DEF OpTypes
<1>9. ASSUME ReadCrash PROVE OpTypes'
  BY <1>9
     DEF ReadCrash, Wrecked, Goes, OpTypes, Operations, Places, StopPlaces, Stoppers
<1>10. ASSUME WaitTimesOut PROVE OpTypes'
  BY <1>10
     DEF WaitTimesOut, Wrecked, Goes, OpTypes, Operations, Places, StopPlaces,
         Stoppers
<1>11. ASSUME Answered PROVE OpTypes'
  BY <1>11
     DEF Answered, Goes, OpTypes, Operations, Places, StopPlaces, Stoppers
<1>12. ASSUME Record PROVE OpTypes'
  <2>1. /\ lastOp'.seq \in 0 .. MaxOps /\ lastOp' = [seq |-> lastOp'.seq, status |-> lastOp'.status]
        /\ lastOp'.status \in {"success", "error", "cancelled"}
    BY <1>12 DEF Record, CountTypes
  <2>2. op' \in Operations
    BY <1>12 DEF Record, Goes, OpTypes, Operations, Places
  <2>3. QED
    BY <1>12, <2>1, <2>2 DEF Record, OpTypes
<1>13. ASSUME Over PROVE OpTypes'
  BY <1>13, NoOperation DEF Over, OpTypes
<1>14. ASSUME NEW x \in Stoppers, StopSees(x) PROVE OpTypes'
  BY <1>14
     DEF StopSees, StopGoes, OpTypes, Operations, Places, StopPlaces, Stoppers
<1>15. ASSUME NEW x \in Stoppers, StopEnds(x) PROVE OpTypes'
  BY <1>15
     DEF StopEnds, Stopped, Goes, OpTypes, Operations, Places, StopPlaces, Stoppers
<1>16. ASSUME NEW x \in Stoppers, StopAsks(x) PROVE OpTypes'
  BY <1>16
     DEF StopAsks, StopGoes, OpTypes, Operations, Places, StopPlaces, Stoppers
<1>17. ASSUME NEW x \in Stoppers, StopForces(x) PROVE OpTypes'
  BY <1>17
     DEF StopForces, StopGoes, OpTypes, Operations, Places, StopPlaces, Stoppers
<1>18. ASSUME NEW x \in Stoppers, StopSurvivor(x) PROVE OpTypes'
  BY <1>18
     DEF StopSurvivor, Stopped, Goes, OpTypes, Operations, Places, StopPlaces,
         Stoppers
<1>19. ASSUME Teardown PROVE OpTypes'
  BY <1>19
     DEF Teardown, StopGoes, OpTypes, Operations, Places, StopPlaces, Stoppers
<1>20. ASSUME Cancel PROVE OpTypes'
  BY <1>20
     DEF Cancel, OpTypes, Operations, Places, StopPlaces, Stoppers
<1>21. ASSUME \/ CleanNothing
              \/ CancelKills
              \/ (\E w \in OpIds : Work(w))
              \/ (\E w \in OpIds : Fall(w))
              \/ (\E w \in OpIds : Unwedge(w))
              \/ UNCHANGED vars
       PROVE  OpTypes'
  <2>1. UNCHANGED <<active, cancelAsked, lastOp, op, stop>>
    BY <1>21 DEF CleanNothing, CancelKills, Work, Fall, Unwedge, vars, handles,
           workerVars, history
  <2>2. QED
    BY <2>1 DEF OpTypes
<1>22. QED
  BY <1>1, <1>2, <1>3, <1>4, <1>5, <1>6, <1>7, <1>8, <1>9, <1>10, <1>11, <1>12,
     <1>13, <1>14, <1>15, <1>16, <1>17, <1>18, <1>19, <1>20, <1>21
     DEF Next, OpStep, StopStep

\* The counts and the histories keep their types.
LEMMA CountTypesStep ==
  IInv /\ [Next]_vars => CountTypes'
<1> SUFFICES ASSUME OpTypes, CountTypes, PlaceInv, [Next]_vars
             PROVE  CountTypes'
  BY TypesTogether DEF IInv
<1>1. ASSUME NEW kind \in Kinds, Begin(kind) PROVE CountTypes'
  BY <1>1, MaxOpsAssumption
     DEF Begin, CountTypes
<1>2. ASSUME Spawn PROVE CountTypes'
  BY <1>2, MaxOpsAssumption, SpawnNumber
     DEF Spawn, CountTypes
<1>3. ASSUME ReadAnswer PROVE CountTypes'
  <2>1. op.pc = "wait"
    BY <1>3 DEF ReadAnswer
  <2>2. begun \in OpIds /\ op.kind \in Kinds
    BY <2>1, Ids DEF CountTypes, PlaceInv
  <2>3. late' \in {late, late \cup {[by |-> begun, kind |-> op.kind]}}
        /\ UNCHANGED <<begun, spawned, amid>>
    BY <1>3 DEF ReadAnswer, Outlived
  <2>4. QED
    BY <2>2, <2>3 DEF CountTypes
<1>4. ASSUME WaitTimesOut PROVE CountTypes'
  <2>1. op.pc = "wait"
    BY <1>4 DEF WaitTimesOut
  <2>2. begun \in OpIds /\ op.kind \in Kinds
    BY <2>1, Ids DEF CountTypes, PlaceInv
  <2>3. late' = late \cup {[by |-> begun, kind |-> op.kind]} /\ UNCHANGED <<begun, spawned, amid>>
    BY <1>4 DEF WaitTimesOut, Outlived
  <2>4. QED
    BY <2>2, <2>3 DEF CountTypes
<1>5. ASSUME \/ CleanNothing
              \/ Refused
              \/ LoadStops
              \/ SpawnFails
              \/ Send
              \/ SendFails
              \/ ReadCrash
              \/ Answered
              \/ Record
              \/ Over
              \/ (\E x \in Stoppers : StopSees(x))
              \/ (\E x \in Stoppers : StopEnds(x))
              \/ (\E x \in Stoppers : StopAsks(x))
              \/ (\E x \in Stoppers : StopForces(x))
              \/ (\E x \in Stoppers : StopSurvivor(x))
              \/ Teardown
              \/ Cancel
              \/ CancelKills
              \/ (\E w \in OpIds : Work(w))
              \/ (\E w \in OpIds : Fall(w))
              \/ (\E w \in OpIds : Unwedge(w))
              \/ UNCHANGED vars
       PROVE  CountTypes'
  <2>1. UNCHANGED <<begun, spawned, late, amid>>
    BY <1>5 DEF CleanNothing, Refused, LoadStops, SpawnFails, Send, SendFails,
           ReadCrash, Answered, Record, Over, StopSees, StopEnds, StopAsks,
           StopForces, StopSurvivor, Teardown, Cancel, CancelKills, Work, Fall,
           Unwedge, vars, handles, workerVars, history
  <2>2. QED
    BY <2>1 DEF CountTypes
<1>6. QED
  BY <1>1, <1>2, <1>3, <1>4, <1>5
     DEF Next, OpStep, StopStep

-----------------------------------------------------------------------------
(* What the actions do to the operation.                                    *)

\* The types, as far as most steps need them.
LEMMA Plain ==
  ASSUME TypeOK
  PROVE  /\ op \in Operations /\ stop \in [Stoppers -> StopPlaces]
         /\ proc \in Nat /\ respQueue \in Nat /\ begun \in Nat /\ spawned \in Nat
         /\ spawned <= begun /\ \A l \in late : l.by \in Nat
         /\ Stoppers = {"op", "teardown"} /\ "op" \in Stoppers
<1>1. \A l \in late : l.by \in Nat
  BY Ids DEF TypeOK
<1>2. QED
  BY <1>1 DEF TypeOK, Stoppers

\* A dead worker stays dead.
LEMMA NoneRises ==
  ASSUME TypeOK, WorkerInv,
         \/ \E x \in Stoppers : StopForces(x)
         \/ CancelKills
         \/ \E w \in OpIds : Work(w) \/ Fall(w) \/ Unwedge(w)
  PROVE  /\ \A v \in OpIds : Alive(v)' => Alive(v)
         /\ proc' = proc /\ (Alive(proc)' => Alive(proc))
<1>1. ASSUME NEW v \in OpIds PROVE Alive(v)' => Alive(v)
  <2>1. ASSUME Declined PROVE Alive(v)' => Alive(v)
    BY <2>1 DEF Declined
  <2>2. ASSUME NEW w \in OpIds, NEW r \in Responses, Answers(w, r) PROVE Alive(v)' => Alive(v)
    BY <2>2 DEF Answers, Alive
  <2>3. QED
    BY <2>1, <2>2, Declines, Works
<1>2. proc' = proc
  BY DEF StopForces, CancelKills, Work, Fall, Unwedge, handles
<1>3. Alive(proc)' => Alive(proc)
  <2>1. CASE proc = 0
    BY <1>2, <2>1 DEF Alive
  <2>2. CASE proc # 0
    BY <1>1, <1>2, <2>2, Ids DEF TypeOK, Alive
  <2>3. QED
    BY <2>1, <2>2
<1>4. QED
  BY <1>1, <1>2, <1>3

\* The operation goes on, and remains what it was.
SameOp == op'.kind = op.kind /\ (op'.meant <=> op.meant) /\ op'.took = op.took

\* An operation begins.
LEMMA BeginEffect ==
  ASSUME TypeOK, NEW kind \in Kinds, Begin(kind)
  PROVE  /\ op.pc = "none" /\ op'.pc = "begun" /\ op'.kind = kind
         /\ ~op'.meant /\ op'.took = 0
         /\ begun' = begun + 1 /\ active' = TRUE
         /\ kind.type # "load" => Alive(proc)
         /\ kind.type # "cleanup" => cancelAsked' = FALSE
         /\ UNCHANGED <<proc, respQueue, worker, resps, spawned, late, amid, stop, lastOp>>
<1>1. kind.type # "load" => kind.type \in {"export", "cleanup"}
  BY KindFacts
<1>2. op' = [NoOp EXCEPT !.pc = "begun", !.kind = kind]
  BY DEF Begin
<1>3. op'.pc = "begun" /\ op'.kind = kind /\ ~op'.meant /\ op'.took = 0
  BY <1>2, NoOperation
<1>4. QED
  BY <1>1, <1>3 DEF Begin, ForgetCancel, handles, workerVars

\* It is over.
LEMMA OverEffect ==
  ASSUME Over
  PROVE  /\ op.pc = "recorded" /\ op'.pc = "none" /\ op'.took = 0 /\ active' = FALSE
         /\ UNCHANGED <<proc, respQueue, worker, resps, spawned, begun, late, amid, stop,
                        lastOp, cancelAsked, checkpoint>>
BY NoOperation DEF Over, handles, workerVars, history

\* A wait that failed.
Failed ==
  /\ op'.pc \in {"record", "stopping"} /\ SameOp
  /\ op'.pc = "record" <=> op.kind.type = "export"
  /\ stop' = IF op'.pc = "record" THEN stop ELSE [stop EXCEPT !["op"] = "enter"]

\* What a failed wait does.
LEMMA WreckedFails ==
  ASSUME TypeOK, Wrecked PROVE Failed
BY Plain DEF Wrecked, Goes, Failed, SameOp, Operations

\* The answer ends the wait by its error, is taken, or is skipped.
LEMMA ReadCases ==
  ASSUME TypeOK, ReadAnswer
  PROVE  LET r == Head(resps[respQueue]) IN
         /\ op.pc = "wait"
         /\ \/ Failed /\ r.as = "error"
            \/ /\ r.as # "error" /\ Expected(r)
               /\ op'.pc = "answered" /\ op'.kind = op.kind /\ (op'.meant <=> op.meant)
               /\ op'.took = r.by /\ (op'.ok <=> r.as = "done")
               /\ stop' = stop
            \/ r.as # "error" /\ ~Expected(r) /\ op' = op /\ stop' = stop
         /\ IF r.by # begun /\ (r.as = "error" \/ Expected(r)) THEN Outlived ELSE late' = late
         /\ UNCHANGED <<proc, respQueue, worker, spawned, begun, amid, lastOp, active,
                        cancelAsked, checkpoint>>
<1> DEFINE r == Head(resps[respQueue])
<1>1. CASE r.as = "error"
  BY <1>1, WreckedFails DEF ReadAnswer, handles
<1>2. CASE r.as # "error" /\ Expected(r)
  BY <1>2, Plain DEF ReadAnswer, handles, Operations
<1>3. CASE r.as # "error" /\ ~Expected(r)
  BY <1>3 DEF ReadAnswer, handles
<1>4. QED
  BY <1>1, <1>2, <1>3

\* The answer is put to use.
LEMMA AnsweredEffect ==
  ASSUME TypeOK, Answered
  PROVE  /\ op.pc = "answered" /\ op'.pc \in {"record", "stopping"} /\ SameOp
         /\ op'.pc = "stopping" <=> op.kind.type = "cleanup"
         /\ stop' = IF op'.pc = "record" THEN stop ELSE [stop EXCEPT !["op"] = "enter"]
         /\ checkpoint' = IF op.kind.type # "load" THEN checkpoint
                          ELSE IF op.ok THEN op.kind.of ELSE NoCheckpoint
         /\ UNCHANGED <<proc, respQueue, worker, resps, spawned, begun, late, amid, lastOp,
                        active, cancelAsked>>
BY Plain DEF Answered, Goes, SameOp, Operations, handles, workerVars, history

\* A shutdown ends: its caller goes on.
Returns(x) ==
  /\ stop' = [stop EXCEPT ![x] = "off"]
  /\ x = "teardown" => op' = op
  /\ x = "op" => op.pc \in {"clearing", "stopping"} /\ op'.pc \in {"spawn", "record"} /\ SameOp
  /\ op'.pc = "spawn" => op.pc \in {"clearing", "spawn"}
  /\ checkpoint' = IF x = "teardown" \/ op.pc = "stopping" THEN NoCheckpoint ELSE checkpoint
  /\ UNCHANGED <<worker, resps, spawned, begun, late, amid, lastOp, active, cancelAsked>>

\* A shutdown ends with the handle let go of ...
LEMMA EndsEffect ==
  ASSUME TypeOK, PlaceInv, NEW x \in Stoppers, StopEnds(x)
  PROVE  /\ Returns(x) /\ stop[x] \in {"gone", "ended"}
         /\ proc' = 0 /\ respQueue' \in {0, respQueue}
<1>1. CASE x = "op"
  <2>1. stop[x] # "off" /\ stop[x] \in {"gone", "ended"}
    BY DEF StopEnds
  <2>2. op.pc \in {"clearing", "stopping"}
    BY <1>1, <2>1 DEF PlaceInv
  <2>3. QED
    BY <1>1, <2>1, <2>2, Plain DEF StopEnds, Stopped, Goes, Returns, SameOp, Operations,
       workerVars, history
<1>2. CASE x = "teardown"
  BY <1>2 DEF StopEnds, Stopped, Goes, Returns, workerVars, history
<1>3. QED
  BY <1>1, <1>2 DEF Stoppers

\* ... or with the worker that survives it.
LEMMA SurvivorEffect ==
  ASSUME TypeOK, PlaceInv, NEW x \in Stoppers, StopSurvivor(x)
  PROVE  /\ Returns(x) /\ (x = "op" => op'.pc = "record")
         /\ UNCHANGED <<proc, respQueue>> /\ stop[x] = "check"
<1>1. CASE x = "op"
  <2>1. stop[x] # "off"
    BY DEF StopSurvivor
  <2>2. op.pc \in {"clearing", "stopping"}
    BY <1>1, <2>1 DEF PlaceInv
  <2>3. QED
    BY <1>1, <2>1, <2>2, Plain DEF StopSurvivor, Stopped, Goes, Returns, SameOp, Operations,
       workerVars, history, handles
<1>2. CASE x = "teardown"
  BY <1>2 DEF StopSurvivor, Stopped, Goes, Returns, workerVars, history, handles
<1>3. QED
  BY <1>1, <1>2 DEF Stoppers

-----------------------------------------------------------------------------
(* The handle and the workers.                                              *)

\* The operation keeps to its way.
LEMMA PlaceStep ==
  IInv /\ [Next]_vars => PlaceInv'
<1> SUFFICES ASSUME TypeOK, PlaceInv, [Next]_vars
             PROVE  PlaceInv'
  BY DEF IInv
<1>1. ASSUME NEW kind \in Kinds, Begin(kind) PROVE PlaceInv'
  <2>1. /\ op.pc = "none" /\ op'.pc = "begun" /\ op'.kind \in Kinds
        /\ begun' = begun + 1 /\ spawned' = spawned /\ stop' = stop
    BY <1>1, BeginEffect
  <2>2. begun' # 0 /\ spawned' < begun'
    BY <2>1, Plain
  <2>3. stop'["op"] = "off"
    BY <2>1 DEF PlaceInv
  <2>4. QED
    BY <2>1, <2>2, <2>3 DEF PlaceInv
<1>2. ASSUME Refused PROVE PlaceInv'
  BY <1>2, Plain
     DEF Refused, Fails, history, PlaceInv
<1>3. ASSUME LoadStops PROVE PlaceInv'
  BY <1>3, Plain
     DEF LoadStops, Goes, history, PlaceInv
<1>4. ASSUME Spawn PROVE PlaceInv'
  BY <1>4, SpawnEffect, Plain
     DEF Spawn, Goes, PlaceInv
<1>5. ASSUME SpawnFails PROVE PlaceInv'
  BY <1>5, Plain
     DEF SpawnFails, Fails, history, PlaceInv
<1>6. ASSUME Send PROVE PlaceInv'
  BY <1>6, SendEffect, Plain
     DEF SentTo, Send, Goes, handles, history, PlaceInv
<1>7. ASSUME SendFails PROVE PlaceInv'
  BY <1>7, Plain
     DEF SendFails, Wrecked, Goes, history, PlaceInv
<1>8. ASSUME ReadAnswer PROVE PlaceInv'
  BY <1>8, ReadCases, Plain
     DEF Failed, SameOp, Outlived, PlaceInv
<1>9. ASSUME ReadCrash PROVE PlaceInv'
  BY <1>9, Plain
     DEF ReadCrash, Wrecked, Goes, history, PlaceInv
<1>10. ASSUME WaitTimesOut PROVE PlaceInv'
  BY <1>10, Plain
     DEF WaitTimesOut, Wrecked, Goes, PlaceInv
<1>11. ASSUME Answered PROVE PlaceInv'
  BY <1>11, AnsweredEffect, Plain
     DEF SameOp, PlaceInv
<1>12. ASSUME Record PROVE PlaceInv'
  BY <1>12, Plain
     DEF Record, Goes, history, PlaceInv
<1>13. ASSUME Over PROVE PlaceInv'
  BY <1>13, OverEffect, Plain
     DEF PlaceInv
<1>14. ASSUME NEW x \in Stoppers, StopSees(x) PROVE PlaceInv'
  BY <1>14, Plain
     DEF StopSees, StopGoes, history, PlaceInv
<1>15. ASSUME NEW x \in Stoppers, StopEnds(x) PROVE PlaceInv'
  BY <1>15, EndsEffect, Plain
     DEF Returns, SameOp, PlaceInv
<1>16. ASSUME NEW x \in Stoppers, StopAsks(x) PROVE PlaceInv'
  BY <1>16, AskEffect, Plain
     DEF SentTo, StopAsks, StopGoes, handles, history, PlaceInv
<1>17. ASSUME NEW x \in Stoppers, StopForces(x) PROVE PlaceInv'
  BY <1>17, Declines, Plain
     DEF Declined, StopForces, StopGoes, handles, history, PlaceInv
<1>18. ASSUME NEW x \in Stoppers, StopSurvivor(x) PROVE PlaceInv'
  BY <1>18, SurvivorEffect, Plain
     DEF Returns, SameOp, PlaceInv
<1>19. ASSUME Teardown PROVE PlaceInv'
  BY <1>19, Plain
     DEF Teardown, StopGoes, history, PlaceInv
<1>20. ASSUME Cancel PROVE PlaceInv'
  BY <1>20, Plain
     DEF Cancel, history, PlaceInv
<1>21. ASSUME \/ CleanNothing
              \/ CancelKills
              \/ (\E w \in OpIds : Work(w))
              \/ (\E w \in OpIds : Fall(w))
              \/ (\E w \in OpIds : Unwedge(w))
              \/ UNCHANGED vars
       PROVE  PlaceInv'
  <2>1. UNCHANGED <<op, stop, spawned, begun>>
    BY <1>21 DEF CleanNothing, CancelKills, Work, Fall, Unwedge, vars, handles,
           workerVars, history
  <2>2. QED
    BY <2>1 DEF PlaceInv
<1>22. QED
  BY <1>1, <1>2, <1>3, <1>4, <1>5, <1>6, <1>7, <1>8, <1>9, <1>10, <1>11, <1>12,
     <1>13, <1>14, <1>15, <1>16, <1>17, <1>18, <1>19, <1>20, <1>21
     DEF Next, OpStep, StopStep

\* The handle is let go of only for the dead, and for what was started meanwhile.
LEMMA HandleStep ==
  IInv /\ [Next]_vars => HandleInv'
<1> SUFFICES ASSUME TypeOK, PlaceInv, HandleInv, WorkerInv, [Next]_vars
             PROVE  HandleInv'
  BY DEF IInv
<1>1. ASSUME NEW kind \in Kinds, Begin(kind) PROVE HandleInv'
  BY <1>1, BeginEffect, Plain
     DEF HandleInv, Alive
<1>2. ASSUME Refused PROVE HandleInv'
  BY <1>2, Plain
     DEF Refused, Fails, handles, workerVars, history, HandleInv, Alive
<1>3. ASSUME LoadStops PROVE HandleInv'
  BY <1>3, Plain
     DEF LoadStops, Goes, handles, workerVars, history, HandleInv, Alive
<1>4. ASSUME Spawn PROVE HandleInv'
  <2>1. \A x \in Stoppers : stop'[x] \in {"gone", "ended"} => proc' \in amid'
    <3>1. stop["op"] = "off" /\ stop' = stop
      BY <1>4 DEF PlaceInv, Spawn
    <3>2. proc' = spawned + 1 /\ (stop["teardown"] # "off" => spawned + 1 \in amid')
      BY <1>4 DEF Spawn
    <3>3. QED
      BY <3>1, <3>2 DEF Stoppers
  <2>2. op'.pc = "wait"
    BY <1>4, Plain DEF Spawn, Goes, Operations
  <2>3. spawned' = spawned + 1 /\ proc' = spawned + 1 /\ respQueue' = spawned + 1
    BY <1>4 DEF Spawn
  <2>4. QED
    BY <2>1, <2>2, <2>3, Plain DEF HandleInv
<1>5. ASSUME SpawnFails PROVE HandleInv'
  BY <1>5, Plain
     DEF SpawnFails, Fails, handles, workerVars, history, HandleInv, Alive
<1>6. ASSUME Send PROVE HandleInv'
  BY <1>6, SendEffect, Plain
     DEF SentTo, Send, Goes, handles, history, HandleInv, Alive
<1>7. ASSUME SendFails PROVE HandleInv'
  BY <1>7, Plain
     DEF SendFails, Wrecked, Goes, handles, workerVars, history, HandleInv, Alive
<1>8. ASSUME ReadAnswer PROVE HandleInv'
  BY <1>8, ReadCases, Plain
     DEF Failed, SameOp, Outlived, HandleInv, Alive
<1>9. ASSUME ReadCrash PROVE HandleInv'
  BY <1>9, Plain
     DEF ReadCrash, Wrecked, Goes, handles, workerVars, history, HandleInv, Alive
<1>10. ASSUME WaitTimesOut PROVE HandleInv'
  BY <1>10, Plain
     DEF WaitTimesOut, Wrecked, Goes, handles, workerVars, HandleInv, Alive
<1>11. ASSUME Answered PROVE HandleInv'
  BY <1>11, AnsweredEffect, Plain
     DEF SameOp, HandleInv, Alive
<1>12. ASSUME Record PROVE HandleInv'
  BY <1>12, Plain
     DEF Record, Goes, handles, workerVars, history, HandleInv, Alive
<1>13. ASSUME Over PROVE HandleInv'
  BY <1>13, OverEffect, Plain
     DEF HandleInv, Alive
<1>14. ASSUME NEW x \in Stoppers, StopSees(x) PROVE HandleInv'
  BY <1>14, Plain
     DEF StopSees, StopGoes, handles, workerVars, history, HandleInv, Alive
<1>15. ASSUME NEW x \in Stoppers, StopEnds(x) PROVE HandleInv'
  BY <1>15, EndsEffect, Plain
     DEF Returns, SameOp, HandleInv, Alive
<1>16. ASSUME NEW x \in Stoppers, StopAsks(x) PROVE HandleInv'
  BY <1>16, AskEffect, Plain
     DEF SentTo, StopAsks, StopGoes, handles, history, HandleInv, Alive
<1>17. ASSUME NEW x \in Stoppers, StopForces(x) PROVE HandleInv'
  <2>1. (Alive(proc)' => Alive(proc)) /\ UNCHANGED <<proc, respQueue, op, spawned, amid>>
    BY <1>17, NoneRises DEF StopForces, handles, history
  <2>2. QED
    BY <1>17, <2>1, Plain DEF HandleInv, StopForces, StopGoes
<1>18. ASSUME NEW x \in Stoppers, StopSurvivor(x) PROVE HandleInv'
  BY <1>18, SurvivorEffect, Plain
     DEF Returns, SameOp, HandleInv, Alive
<1>19. ASSUME Teardown PROVE HandleInv'
  BY <1>19, Plain
     DEF Teardown, StopGoes, handles, workerVars, history, HandleInv, Alive
<1>20. ASSUME Cancel PROVE HandleInv'
  BY <1>20, Plain
     DEF Cancel, handles, workerVars, history, HandleInv, Alive
<1>21. ASSUME CancelKills PROVE HandleInv'
  <2>1. (Alive(proc)' => Alive(proc)) /\ UNCHANGED <<proc, respQueue, op, spawned, amid>>
    BY <1>21, NoneRises DEF CancelKills, handles, history
  <2>2. QED
    BY <1>21, <2>1 DEF HandleInv, CancelKills
<1>22. ASSUME NEW w \in OpIds, Work(w) PROVE HandleInv'
  <2>1. (Alive(proc)' => Alive(proc)) /\ UNCHANGED <<proc, respQueue, op, spawned, amid>>
    BY <1>22, NoneRises DEF Work, handles, history
  <2>2. QED
    BY <1>22, <2>1 DEF HandleInv, Work
<1>23. ASSUME NEW w \in OpIds, Fall(w) PROVE HandleInv'
  <2>1. (Alive(proc)' => Alive(proc)) /\ UNCHANGED <<proc, respQueue, op, spawned, amid>>
    BY <1>23, NoneRises DEF Fall, handles, history
  <2>2. QED
    BY <1>23, <2>1 DEF HandleInv, Fall
<1>24. ASSUME NEW w \in OpIds, Unwedge(w) PROVE HandleInv'
  <2>1. (Alive(proc)' => Alive(proc)) /\ UNCHANGED <<proc, respQueue, op, spawned, amid>>
    BY <1>24, NoneRises DEF Unwedge, handles, history
  <2>2. QED
    BY <1>24, <2>1 DEF HandleInv, Unwedge
<1>25. ASSUME \/ CleanNothing
              \/ UNCHANGED vars
       PROVE  HandleInv'
  <2>1. UNCHANGED <<op, proc, respQueue, stop, worker, spawned, amid>>
    BY <1>25 DEF CleanNothing, vars, handles, workerVars, history
  <2>2. QED
    BY <2>1 DEF HandleInv, Alive
<1>26. QED
  BY <1>1, <1>2, <1>3, <1>4, <1>5, <1>6, <1>7, <1>8, <1>9, <1>10, <1>11, <1>12,
     <1>13, <1>14, <1>15, <1>16, <1>17, <1>18, <1>19, <1>20, <1>21, <1>22, <1>23,
     <1>24, <1>25
     DEF Next, OpStep, StopStep

\* Only workers that live have something to do.
LEMMA WorkerStep ==
  IInv /\ [Next]_vars => WorkerInv'
<1> SUFFICES ASSUME TypeOK, PlaceInv, HandleInv, WorkerInv, [Next]_vars
             PROVE  WorkerInv'
  BY DEF IInv
<1>1. ASSUME Spawn PROVE WorkerInv'
  BY <1>1, SpawnEffect, Plain, Ids DEF Spawn, WorkerInv, Alive
<1>2. ASSUME Send PROVE WorkerInv'
  BY <1>2, SendEffect, Plain
     DEF SentTo, Send, Goes, handles, history, WorkerInv, Alive
<1>3. ASSUME ReadAnswer PROVE WorkerInv'
  <2>1. respQueue <= spawned /\ UNCHANGED <<worker, spawned>>
    BY <1>3 DEF HandleInv, ReadAnswer
  <2>2. respQueue \in OpIds /\ \A v \in OpIds : v # respQueue => resps'[v] = resps[v]
    BY <1>3, ReadEffect DEF ReadAnswer, TypeOK
  <2>3. ASSUME NEW v \in OpIds, v > spawned'
        PROVE  worker'[v].state = "none" /\ resps'[v] = <<>>
    <3>1. v # respQueue /\ v > spawned
      BY <2>1, <2>3, Plain, Ids
    <3>2. QED
      BY <2>1, <2>2, <3>1 DEF WorkerInv
  <2>4. QED
    BY <2>1, <2>3 DEF WorkerInv, Alive
<1>4. ASSUME NEW x \in Stoppers, StopAsks(x) PROVE WorkerInv'
  <2>1. respQueue <= spawned /\ UNCHANGED spawned
    BY <1>4 DEF HandleInv, StopAsks
  <2>2. /\ respQueue \in OpIds /\ Alive(respQueue) /\ SentTo(respQueue, Bye)
        /\ \A v \in OpIds : v # respQueue => resps'[v] = resps[v]
    BY <1>4, AskEffect DEF TypeOK
  <2>3. ASSUME NEW v \in OpIds, v > spawned'
        PROVE  worker'[v].state = "none" /\ resps'[v] = <<>>
    <3>1. v # respQueue /\ v > spawned
      BY <2>1, <2>3, Plain, Ids
    <3>2. QED
      BY <2>2, <3>1 DEF WorkerInv, SentTo
  <2>4. ASSUME NEW v \in OpIds, ~Alive(v)' PROVE worker'[v].cmds = <<>>
    <3>1. ~Alive(v)
      BY <2>2, <2>4 DEF SentTo, Alive
    <3>2. QED
      BY <2>2, <3>1 DEF WorkerInv, SentTo
  <2>5. QED
    BY <2>3, <2>4 DEF WorkerInv
<1>5. ASSUME NEW x \in Stoppers, StopForces(x) PROVE WorkerInv'
  BY <1>5, Declines, Plain
     DEF Declined, StopForces, StopGoes, handles, history, WorkerInv, Alive
<1>6. ASSUME CancelKills PROVE WorkerInv'
  BY <1>6, Declines, Plain
     DEF Declined, CancelKills, handles, history, WorkerInv, Alive
<1>7. ASSUME NEW w \in OpIds, Work(w) PROVE WorkerInv'
  <2>1. spawned' = spawned
    BY <1>7 DEF Work
  <2>2. ASSUME Declined, UNCHANGED resps PROVE WorkerInv'
    BY <2>1, <2>2 DEF Declined, WorkerInv, Alive
  <2>3. ASSUME NEW r \in Responses, Answers(w, r) PROVE WorkerInv'
    <3>1. ~(w > spawned)
      BY <2>3 DEF Answers, WorkerInv, Alive
    <3>2. \A v \in OpIds : v # w => worker'[v] = worker[v] /\ resps'[v] = resps[v]
      BY <2>3 DEF Answers, TypeOK
    <3>3. ~Alive(w)' => worker'[w].cmds = <<>>
      BY <2>3 DEF Answers
    <3>4. QED
      BY <2>1, <3>1, <3>2, <3>3 DEF WorkerInv, Alive
  <2>4. QED
    BY <1>7, <2>2, <2>3, Works
<1>8. ASSUME NEW w \in OpIds, Fall(w) PROVE WorkerInv'
  BY <1>8, Declines, Plain
     DEF Declined, Fall, handles, history, WorkerInv, Alive
<1>9. ASSUME NEW w \in OpIds, Unwedge(w) PROVE WorkerInv'
  BY <1>9, Declines, Plain
     DEF Declined, Unwedge, handles, history, WorkerInv, Alive
<1>10. ASSUME \/ (\E kind \in Kinds : Begin(kind))
              \/ CleanNothing
              \/ Refused
              \/ LoadStops
              \/ SpawnFails
              \/ SendFails
              \/ ReadCrash
              \/ WaitTimesOut
              \/ Answered
              \/ Record
              \/ Over
              \/ (\E x \in Stoppers : StopSees(x))
              \/ (\E x \in Stoppers : StopEnds(x))
              \/ (\E x \in Stoppers : StopSurvivor(x))
              \/ Teardown
              \/ Cancel
              \/ UNCHANGED vars
       PROVE  WorkerInv'
  <2>1. UNCHANGED <<worker, resps, spawned>>
    BY <1>10 DEF Begin, CleanNothing, Refused, LoadStops, SpawnFails, SendFails,
           ReadCrash, WaitTimesOut, Answered, Record, Over, StopSees, StopEnds,
           StopSurvivor, Teardown, Cancel, vars, handles, workerVars, history
  <2>2. QED
    BY <2>1 DEF WorkerInv, Alive
<1>11. QED
  BY <1>1, <1>2, <1>3, <1>4, <1>5, <1>6, <1>7, <1>8, <1>9, <1>10
     DEF Next, OpStep, StopStep

\* No worker is lost.
LEMMA LostStep ==
  IInv /\ [Next]_vars => NoLostWorker'
<1> SUFFICES ASSUME TypeOK, PlaceInv, HandleInv, WorkerInv, NoLostWorker,
                 [Next]_vars
             PROVE  NoLostWorker'
  BY DEF IInv
<1>1. ASSUME Spawn PROVE NoLostWorker'
  BY <1>1, SpawnEffect, Plain
     DEF Spawn, Goes, NoLostWorker, Alive, HandleInv
<1>2. ASSUME Send PROVE NoLostWorker'
  BY <1>2, SendEffect, Plain
     DEF SentTo, Send, Goes, handles, history, NoLostWorker, Alive, HandleInv
<1>3. ASSUME NEW x \in Stoppers, StopEnds(x) PROVE NoLostWorker'
  BY <1>3, EndsEffect, Plain
     DEF Returns, SameOp, NoLostWorker, Alive, HandleInv
<1>4. ASSUME NEW x \in Stoppers, StopAsks(x) PROVE NoLostWorker'
  BY <1>4, AskEffect, Plain
     DEF SentTo, StopAsks, StopGoes, handles, history, NoLostWorker, Alive,
         HandleInv
<1>5. ASSUME NEW x \in Stoppers, StopForces(x) PROVE NoLostWorker'
  BY <1>5, Declines, Plain
     DEF Declined, StopForces, StopGoes, handles, history, NoLostWorker, Alive,
         HandleInv
<1>6. ASSUME CancelKills PROVE NoLostWorker'
  BY <1>6, Declines, Plain
     DEF Declined, CancelKills, handles, history, NoLostWorker, Alive, HandleInv
<1>7. ASSUME NEW w \in OpIds, Work(w) PROVE NoLostWorker'
  BY <1>7, Works, Plain
     DEF Declined, Answers, Work, handles, history, NoLostWorker, Alive, HandleInv
<1>8. ASSUME NEW w \in OpIds, Fall(w) PROVE NoLostWorker'
  BY <1>8, Declines, Plain
     DEF Declined, Fall, handles, history, NoLostWorker, Alive, HandleInv
<1>9. ASSUME NEW w \in OpIds, Unwedge(w) PROVE NoLostWorker'
  BY <1>9, Declines, Plain
     DEF Declined, Unwedge, handles, history, NoLostWorker, Alive, HandleInv
<1>10. ASSUME \/ (\E kind \in Kinds : Begin(kind))
              \/ CleanNothing
              \/ Refused
              \/ LoadStops
              \/ SpawnFails
              \/ SendFails
              \/ ReadAnswer
              \/ ReadCrash
              \/ WaitTimesOut
              \/ Answered
              \/ Record
              \/ Over
              \/ (\E x \in Stoppers : StopSees(x))
              \/ (\E x \in Stoppers : StopSurvivor(x))
              \/ Teardown
              \/ Cancel
              \/ UNCHANGED vars
       PROVE  NoLostWorker'
  <2>1. UNCHANGED <<proc, worker, amid>>
    BY <1>10 DEF Begin, CleanNothing, Refused, LoadStops, SpawnFails, SendFails,
           ReadAnswer, ReadCrash, WaitTimesOut, Answered, Record, Over, StopSees,
           StopSurvivor, Teardown, Cancel, vars, handles, workerVars, history
  <2>2. QED
    BY <2>1 DEF NoLostWorker, Alive
<1>11. QED
  BY <1>1, <1>2, <1>3, <1>4, <1>5, <1>6, <1>7, <1>8, <1>9, <1>10
     DEF Next, OpStep, StopStep

\* The record of the operations is in step with them.
LEMMA RecordStep ==
  IInv /\ [Next]_vars => RecordInv'
<1> SUFFICES ASSUME TypeOK, PlaceInv, RecordInv, [Next]_vars
             PROVE  RecordInv'
  BY DEF IInv
<1>1. ASSUME NEW kind \in Kinds, Begin(kind) PROVE RecordInv'
  BY <1>1, BeginEffect, Plain
     DEF RecordInv
<1>2. ASSUME Refused PROVE RecordInv'
  BY <1>2, Plain
     DEF Refused, Fails, history, RecordInv
<1>3. ASSUME LoadStops PROVE RecordInv'
  BY <1>3, Plain
     DEF LoadStops, Goes, history, RecordInv
<1>4. ASSUME Spawn PROVE RecordInv'
  BY <1>4, SpawnEffect, Plain
     DEF Spawn, Goes, RecordInv
<1>5. ASSUME SpawnFails PROVE RecordInv'
  BY <1>5, Plain
     DEF SpawnFails, Fails, history, RecordInv
<1>6. ASSUME Send PROVE RecordInv'
  BY <1>6, SendEffect, Plain
     DEF SentTo, Send, Goes, handles, history, RecordInv
<1>7. ASSUME SendFails PROVE RecordInv'
  BY <1>7, Plain
     DEF SendFails, Wrecked, Goes, history, RecordInv
<1>8. ASSUME ReadAnswer PROVE RecordInv'
  BY <1>8, ReadCases, Plain
     DEF Failed, SameOp, Outlived, RecordInv
<1>9. ASSUME ReadCrash PROVE RecordInv'
  BY <1>9, Plain
     DEF ReadCrash, Wrecked, Goes, history, RecordInv
<1>10. ASSUME WaitTimesOut PROVE RecordInv'
  BY <1>10, Plain
     DEF WaitTimesOut, Wrecked, Goes, RecordInv
<1>11. ASSUME Answered PROVE RecordInv'
  BY <1>11, AnsweredEffect, Plain
     DEF SameOp, RecordInv
<1>12. ASSUME Record PROVE RecordInv'
  BY <1>12, Plain
     DEF Record, Goes, history, RecordInv
<1>13. ASSUME Over PROVE RecordInv'
  BY <1>13, OverEffect, Plain
     DEF RecordInv
<1>14. ASSUME NEW x \in Stoppers, StopEnds(x) PROVE RecordInv'
  BY <1>14, EndsEffect, Plain
     DEF Returns, SameOp, RecordInv
<1>15. ASSUME NEW x \in Stoppers, StopSurvivor(x) PROVE RecordInv'
  BY <1>15, SurvivorEffect, Plain
     DEF Returns, SameOp, RecordInv
<1>16. ASSUME Cancel PROVE RecordInv'
  BY <1>16, Plain
     DEF Cancel, history, RecordInv
<1>17. ASSUME \/ CleanNothing
              \/ (\E x \in Stoppers : StopSees(x))
              \/ (\E x \in Stoppers : StopAsks(x))
              \/ (\E x \in Stoppers : StopForces(x))
              \/ Teardown
              \/ CancelKills
              \/ (\E w \in OpIds : Work(w))
              \/ (\E w \in OpIds : Fall(w))
              \/ (\E w \in OpIds : Unwedge(w))
              \/ UNCHANGED vars
       PROVE  RecordInv'
  <2>1. UNCHANGED <<active, op, lastOp, begun, cancelAsked>>
    BY <1>17 DEF CleanNothing, StopSees, StopAsks, StopForces, Teardown,
           CancelKills, Work, Fall, Unwedge, vars, handles, workerVars, history
  <2>2. QED
    BY <2>1 DEF RecordInv
<1>18. QED
  BY <1>1, <1>2, <1>3, <1>4, <1>5, <1>6, <1>7, <1>8, <1>9, <1>10, <1>11, <1>12,
     <1>13, <1>14, <1>15, <1>16, <1>17
     DEF Next, OpStep, StopStep

\* What is recorded as cancelled was cancelled.
LEMMA CancelledStep ==
  IInv /\ [Next]_vars => CancelIsRecorded'
<1> SUFFICES ASSUME TypeOK, PlaceInv, RecordInv, CancelIsRecorded, [Next]_vars
             PROVE  CancelIsRecorded'
  BY DEF IInv
<1>1. ASSUME NEW kind \in Kinds, Begin(kind) PROVE CancelIsRecorded'
  BY <1>1, BeginEffect, Plain
     DEF CancelIsRecorded, RecordInv
<1>2. ASSUME Refused PROVE CancelIsRecorded'
  BY <1>2, Plain
     DEF Refused, Fails, CancelIsRecorded, RecordInv
<1>3. ASSUME LoadStops PROVE CancelIsRecorded'
  BY <1>3, Plain
     DEF LoadStops, Goes, CancelIsRecorded, RecordInv
<1>4. ASSUME Spawn PROVE CancelIsRecorded'
  BY <1>4, SpawnEffect, Plain
     DEF Spawn, Goes, CancelIsRecorded, RecordInv
<1>5. ASSUME SpawnFails PROVE CancelIsRecorded'
  BY <1>5, Plain
     DEF SpawnFails, Fails, CancelIsRecorded, RecordInv
<1>6. ASSUME Send PROVE CancelIsRecorded'
  BY <1>6, SendEffect, Plain
     DEF SentTo, Send, Goes, handles, history, CancelIsRecorded, RecordInv
<1>7. ASSUME SendFails PROVE CancelIsRecorded'
  BY <1>7, Plain
     DEF SendFails, Wrecked, Goes, CancelIsRecorded, RecordInv
<1>8. ASSUME ReadAnswer PROVE CancelIsRecorded'
  BY <1>8, ReadCases, Plain
     DEF Failed, SameOp, Outlived, CancelIsRecorded, RecordInv
<1>9. ASSUME ReadCrash PROVE CancelIsRecorded'
  BY <1>9, Plain
     DEF ReadCrash, Wrecked, Goes, CancelIsRecorded, RecordInv
<1>10. ASSUME WaitTimesOut PROVE CancelIsRecorded'
  BY <1>10, Plain
     DEF WaitTimesOut, Wrecked, Goes, CancelIsRecorded, RecordInv
<1>11. ASSUME Answered PROVE CancelIsRecorded'
  BY <1>11, AnsweredEffect, Plain
     DEF SameOp, CancelIsRecorded, RecordInv
<1>12. ASSUME Record PROVE CancelIsRecorded'
  BY <1>12, Plain
     DEF Record, Goes, CancelIsRecorded, RecordInv
<1>13. ASSUME Over PROVE CancelIsRecorded'
  BY <1>13, OverEffect, Plain
     DEF CancelIsRecorded, RecordInv
<1>14. ASSUME NEW x \in Stoppers, StopEnds(x) PROVE CancelIsRecorded'
  <2>1. op'.pc # "recorded" \/ (op' = op /\ lastOp' = lastOp)
    BY <1>14, EndsEffect DEF Returns, Stoppers
  <2>2. QED
    BY <2>1 DEF CancelIsRecorded
<1>15. ASSUME NEW x \in Stoppers, StopSurvivor(x) PROVE CancelIsRecorded'
  <2>1. op'.pc # "recorded" \/ (op' = op /\ lastOp' = lastOp)
    BY <1>15, SurvivorEffect DEF Returns, Stoppers
  <2>2. QED
    BY <2>1 DEF CancelIsRecorded
<1>16. ASSUME Cancel PROVE CancelIsRecorded'
  BY <1>16, Plain
     DEF Cancel, CancelIsRecorded, RecordInv
<1>17. ASSUME \/ CleanNothing
              \/ (\E x \in Stoppers : StopSees(x))
              \/ (\E x \in Stoppers : StopAsks(x))
              \/ (\E x \in Stoppers : StopForces(x))
              \/ Teardown
              \/ CancelKills
              \/ (\E w \in OpIds : Work(w))
              \/ (\E w \in OpIds : Fall(w))
              \/ (\E w \in OpIds : Unwedge(w))
              \/ UNCHANGED vars
       PROVE  CancelIsRecorded'
  <2>1. UNCHANGED <<op, lastOp>>
    BY <1>17 DEF CleanNothing, StopSees, StopAsks, StopForces, Teardown,
           CancelKills, Work, Fall, Unwedge, vars, handles, workerVars, history
  <2>2. QED
    BY <2>1 DEF CancelIsRecorded
<1>18. QED
  BY <1>1, <1>2, <1>3, <1>4, <1>5, <1>6, <1>7, <1>8, <1>9, <1>10, <1>11, <1>12,
     <1>13, <1>14, <1>15, <1>16, <1>17
     DEF Next, OpStep, StopStep

\* Only operations before this one were outlived while it waits.
LEMMA LateStep ==
  IInv /\ [Next]_vars => LateInv'
<1> SUFFICES ASSUME TypeOK, PlaceInv, LateInv, [Next]_vars
             PROVE  LateInv'
  BY DEF IInv
<1>1. ASSUME NEW kind \in Kinds, Begin(kind) PROVE LateInv'
  <2>1. begun' = begun + 1 /\ late' = late
    BY <1>1, BeginEffect
  <2>2. \A l \in late : l.by < begun + 1
    BY Plain DEF LateInv
  <2>3. QED
    BY <2>1, <2>2, Plain DEF LateInv
<1>2. ASSUME Refused PROVE LateInv'
  BY <1>2, Plain
     DEF Refused, Fails, history, LateInv, Unanswered
<1>3. ASSUME LoadStops PROVE LateInv'
  BY <1>3, Plain
     DEF LoadStops, Goes, history, LateInv, Unanswered
<1>4. ASSUME Spawn PROVE LateInv'
  BY <1>4, SpawnEffect, Plain
     DEF Spawn, Goes, LateInv, Unanswered
<1>5. ASSUME SpawnFails PROVE LateInv'
  BY <1>5, Plain
     DEF SpawnFails, Fails, history, LateInv, Unanswered
<1>6. ASSUME Send PROVE LateInv'
  BY <1>6, SendEffect, Plain
     DEF SentTo, Send, Goes, handles, history, LateInv, Unanswered
<1>7. ASSUME SendFails PROVE LateInv'
  BY <1>7, Plain
     DEF SendFails, Wrecked, Goes, history, LateInv, Unanswered
<1>8. ASSUME ReadAnswer PROVE LateInv'
  BY <1>8, ReadCases, Plain
     DEF Failed, SameOp, Outlived, LateInv, Unanswered
<1>9. ASSUME ReadCrash PROVE LateInv'
  BY <1>9, Plain
     DEF ReadCrash, Wrecked, Goes, history, LateInv, Unanswered
<1>10. ASSUME WaitTimesOut PROVE LateInv'
  BY <1>10, Plain
     DEF WaitTimesOut, Outlived, Wrecked, Goes, LateInv, Unanswered
<1>11. ASSUME Answered PROVE LateInv'
  BY <1>11, AnsweredEffect, Plain
     DEF SameOp, LateInv, Unanswered
<1>12. ASSUME Record PROVE LateInv'
  BY <1>12, Plain
     DEF Record, Goes, history, LateInv, Unanswered
<1>13. ASSUME Over PROVE LateInv'
  BY <1>13, OverEffect, Plain
     DEF LateInv, Unanswered
<1>14. ASSUME NEW x \in Stoppers, StopEnds(x) PROVE LateInv'
  BY <1>14, EndsEffect, Plain
     DEF Returns, SameOp, LateInv, Unanswered
<1>15. ASSUME NEW x \in Stoppers, StopSurvivor(x) PROVE LateInv'
  BY <1>15, SurvivorEffect, Plain
     DEF Returns, SameOp, LateInv, Unanswered
<1>16. ASSUME Cancel PROVE LateInv'
  BY <1>16, Plain
     DEF Cancel, history, LateInv, Unanswered
<1>17. ASSUME \/ CleanNothing
              \/ (\E x \in Stoppers : StopSees(x))
              \/ (\E x \in Stoppers : StopAsks(x))
              \/ (\E x \in Stoppers : StopForces(x))
              \/ Teardown
              \/ CancelKills
              \/ (\E w \in OpIds : Work(w))
              \/ (\E w \in OpIds : Fall(w))
              \/ (\E w \in OpIds : Unwedge(w))
              \/ UNCHANGED vars
       PROVE  LateInv'
  <2>1. UNCHANGED <<late, begun, op>>
    BY <1>17 DEF CleanNothing, StopSees, StopAsks, StopForces, Teardown,
           CancelKills, Work, Fall, Unwedge, vars, handles, workerVars, history
  <2>2. QED
    BY <2>1 DEF LateInv, Unanswered
<1>18. QED
  BY <1>1, <1>2, <1>3, <1>4, <1>5, <1>6, <1>7, <1>8, <1>9, <1>10, <1>11, <1>12,
     <1>13, <1>14, <1>15, <1>16, <1>17
     DEF Next, OpStep, StopStep

-----------------------------------------------------------------------------
(* Whose the commands and the answers are.                                  *)

\* The queues on show.
LEMMA Shown ==
  ASSUME TypeOK, respQueue # 0
  PROVE  respQueue \in OpIds /\ resps[respQueue] \in Rs /\ worker[respQueue].cmds \in Cs
<1>1. respQueue \in OpIds
  BY Ids DEF TypeOK
<1>2. worker[respQueue] \in Workers /\ resps[respQueue] \in Seq(Responses)
  BY <1>1 DEF TypeOK
<1>3. QED
  BY <1>1, <1>2 DEF Workers, Rs, Cs

\* Whose it is after the step.
OwnedNext(c) ==
  \/ op'.pc = "wait" /\ c.by = begun' /\ c.kind = op'.kind
  \/ \E l \in late' : l.by = c.by /\ l.kind = c.kind

\* What a step has to show of the queues on show, after it ...
LEMMA QueueNext ==
  ASSUME NEW rs, NEW cs, resps'[respQueue'] = rs, worker'[respQueue'].cmds = cs, Ordered(rs, cs),
         \A i \in DOMAIN rs : OwnedNext(rs[i]),
         \A i \in DOMAIN cs : Theirs(cs[i]) => OwnedNext(cs[i])
  PROVE  QueueInv'
BY DEF QueueInv, Owned, OwnedNext, Outstanding, LeftBehind, Theirs, Ordered

\* ... and when it leaves no answers.
LEMMA NoAnswers ==
  ASSUME NEW cs, resps'[respQueue'] = <<>>, worker'[respQueue'].cmds = cs, Ordered(<<>>, cs),
         \A i \in DOMAIN cs : Theirs(cs[i]) => OwnedNext(cs[i])
  PROVE  QueueInv'
<1>1. \A i \in DOMAIN <<>> : OwnedNext(<<>>[i])
  OBVIOUS
<1>2. QED
  BY <1>1, QueueNext

\* A command that was left behind, or whose operation waits on, remains so.
LEMMA OwnedStays ==
  ASSUME \/ op.pc # "wait"
         \/ op'.pc = op.pc /\ op'.kind = op.kind /\ begun' = begun
         \/ Outlived,
         late' = late \/ Outlived
  PROVE  \A c : Owned(c) => OwnedNext(c)
<1> SUFFICES ASSUME NEW c, Owned(c) PROVE OwnedNext(c)
  OBVIOUS
<1>1. CASE LeftBehind(c)
  BY <1>1 DEF Outlived, OwnedNext, LeftBehind
<1>2. CASE Outstanding(c) /\ Outlived
  <2>1. [by |-> begun, kind |-> op.kind] \in late'
    BY <1>2 DEF Outlived
  <2>2. QED
    BY <1>2, <2>1 DEF OwnedNext, Outstanding
<1>3. CASE Outstanding(c) /\ ~Outlived
  BY <1>3 DEF OwnedNext, Outstanding
<1>4. QED
  BY <1>1, <1>2, <1>3 DEF Owned

\* A step that leaves the queues on show alone, or empties that of the commands.
LEMMA QueueKept ==
  ASSUME TypeOK, QueueInv, InUse' => InUse, respQueue' = respQueue,
         respQueue # 0 => /\ resps'[respQueue] = resps[respQueue]
                          /\ worker'[respQueue].cmds \in {worker[respQueue].cmds, <<>>},
         \A c : Owned(c) => OwnedNext(c)
  PROVE  QueueInv'
<1> SUFFICES ASSUME InUse' PROVE QueueInv'
  BY DEF QueueInv
<1>1. InUse /\ respQueue # 0
  BY DEF InUse
<1>2. /\ Ordered(resps[respQueue], worker[respQueue].cmds)
      /\ \A i \in DOMAIN resps[respQueue] : Owned(resps[respQueue][i])
      /\ \A i \in DOMAIN worker[respQueue].cmds :
           Theirs(worker[respQueue].cmds[i]) => Owned(worker[respQueue].cmds[i])
  BY <1>1 DEF QueueInv
<1> DEFINE rs == resps[respQueue]
           cs == worker'[respQueue'].cmds
<1>3. resps'[respQueue'] = rs /\ Ordered(rs, cs)
  BY <1>1, <1>2, OrderedNone
<1>4. /\ \A i \in DOMAIN rs : OwnedNext(rs[i])
      /\ \A i \in DOMAIN cs : Theirs(cs[i]) => OwnedNext(cs[i])
  BY <1>1, <1>2 DEF Theirs
<1> HIDE DEF rs
<1>5. QED
  BY <1>3, <1>4, QueueNext


\* A queue with one command is in order.
LEMMA OneCommand ==
  ASSUME NEW c
  PROVE  Ordered(<<>>, <<c>>) /\ DOMAIN <<c>> = {1} /\ <<c>>[1] = c
BY DEF Ordered


\* What is in the queues on show stays in order, and somebody's.
LEMMA QueueStep ==
  IInv /\ [Next]_vars => QueueInv'
<1> SUFFICES ASSUME TypeOK, PlaceInv, HandleInv, WorkerInv, LateInv, QueueInv,
                 [Next]_vars
             PROVE  QueueInv'
  BY DEF IInv
<1>1. ASSUME NEW kind \in Kinds, Begin(kind) PROVE QueueInv'
  <2>1. /\ UNCHANGED <<respQueue, proc, worker, resps, late>> /\ op.pc = "none"
        /\ op'.pc = "begun" /\ op'.kind = kind /\ (kind.type # "load" => Alive(proc))
    BY <1>1, BeginEffect
  <2>2. InUse' => InUse
    BY <2>1 DEF InUse, Alive
  <2>3. QED
    BY <2>1, <2>2, OwnedStays, QueueKept
<1>2. ASSUME Refused PROVE QueueInv'
  <2>1. UNCHANGED <<respQueue, proc, worker, resps, begun, late>>
    BY <1>2 DEF Refused, handles, workerVars, history
  <2>2. op.pc # "wait" /\ op'.pc \notin {"wait", "begun"}
    BY <1>2, Plain DEF Refused, Fails, Operations
  <2>3. InUse' => InUse
    BY <2>1, <2>2 DEF InUse
  <2>4. QED
    BY <2>1, <2>2, <2>3, OwnedStays, QueueKept
<1>3. ASSUME LoadStops PROVE QueueInv'
  <2>1. UNCHANGED <<respQueue, proc, worker, resps, begun, late>>
    BY <1>3 DEF LoadStops, handles, workerVars, history
  <2>2. op.pc # "wait" /\ op'.pc \notin {"wait", "begun"}
    BY <1>3, Plain DEF LoadStops, Goes, Operations
  <2>3. InUse' => InUse
    BY <2>1, <2>2 DEF InUse
  <2>4. QED
    BY <2>1, <2>2, <2>3, OwnedStays, QueueKept
<1>4. ASSUME Spawn PROVE QueueInv'
  <2>1. /\ respQueue' = spawned + 1 /\ resps' = resps /\ begun' = begun
        /\ worker'[respQueue'].cmds = <<[kind |-> op.kind, by |-> begun]>>
        /\ resps'[respQueue'] = <<>>
    BY <1>4, SpawnEffect DEF Spawn
  <2>2. op'.pc = "wait" /\ op'.kind = op.kind
    BY <1>4, Plain DEF Spawn, Goes, Operations
  <2>3. OwnedNext([kind |-> op.kind, by |-> begun])
    BY <2>1, <2>2 DEF OwnedNext
  <2> DEFINE c == [kind |-> op.kind, by |-> begun]
             cs == <<c>>
  <2>4. Ordered(<<>>, cs) /\ \A i \in DOMAIN cs : cs[i] = c
    BY OneCommand
  <2>5. resps'[respQueue'] = <<>> /\ worker'[respQueue'].cmds = cs
    BY <2>1
  <2>6. OwnedNext(c)
    BY <2>3
  <2> HIDE DEF c, cs
  <2>7. \A i \in DOMAIN cs : Theirs(cs[i]) => OwnedNext(cs[i])
    BY <2>4, <2>6
  <2>8. QED
    BY <2>4, <2>5, <2>7, NoAnswers
<1>5. ASSUME SpawnFails PROVE QueueInv'
  <2>1. UNCHANGED <<respQueue, proc, worker, resps, begun, late>>
    BY <1>5 DEF SpawnFails, handles, workerVars, history
  <2>2. op.pc # "wait" /\ op'.pc \notin {"wait", "begun"}
    BY <1>5, Plain DEF SpawnFails, Fails, Operations
  <2>3. InUse' => InUse
    BY <2>1, <2>2 DEF InUse
  <2>4. QED
    BY <2>1, <2>2, <2>3, OwnedStays, QueueKept
<1>6. ASSUME Send PROVE QueueInv'
  <2> DEFINE c == [kind |-> op.kind, by |-> begun]
             rs == resps[respQueue]
             cs == worker[respQueue].cmds
  <2>1. /\ op.pc = "begun" /\ op.kind.type # "load" /\ respQueue # 0
        /\ UNCHANGED <<respQueue, proc, resps, begun, late>>
        /\ op'.pc = "wait" /\ op'.kind = op.kind
    BY <1>6, Plain DEF Send, Goes, handles, history, Operations
  <2>2. InUse /\ respQueue \in OpIds /\ rs \in Rs /\ cs \in Cs
    BY <2>1, Shown DEF InUse
  <2>3. c \in Commands /\ c.by = begun /\ c.by # 0 /\ SentTo(respQueue, c)
    BY <1>6, SendEffect, Ids
  <2>4. (InUse' => InUse) /\ \A d : Owned(d) => OwnedNext(d) /\ d.by < begun
    <3>1. \A d : Owned(d) => OwnedNext(d)
      BY <2>1, OwnedStays
    <3>2. \A d : Owned(d) => d.by < begun
      BY <2>1 DEF Owned, Outstanding, LeftBehind, LateInv, Unanswered
    <3>3. QED
      BY <2>2, <3>1, <3>2
  <2>5. OwnedNext(c)
    BY <2>1 DEF OwnedNext
  <2>6. CASE worker'[respQueue].cmds = cs
    <3>1. QED
      BY <2>1, <2>2, <2>4, <2>6, QueueKept
  <2>7. CASE worker'[respQueue].cmds = Append(cs, c)
    <3>1. /\ Ordered(rs, cs)
          /\ \A i \in DOMAIN rs : Owned(rs[i])
          /\ \A i \in DOMAIN cs : Theirs(cs[i]) => Owned(cs[i])
      BY <2>2 DEF QueueInv
    <3>2. \A i \in DOMAIN cs : cs[i].by < begun
      BY <2>2, <2>3, <2>4, <3>1, Numbers, Ids, Plain DEF Theirs
    <3>3. Ordered(rs, Append(cs, c))
      BY <2>2, <2>3, <2>4, <3>1, <3>2, OrderedSend
    <3>4. \A i \in DOMAIN Append(cs, c) :
            (i \in DOMAIN cs /\ Append(cs, c)[i] = cs[i]) \/ Append(cs, c)[i] = c
      BY <2>2, <2>3, QueueFacts DEF Cs
    <3> HIDE DEF c, rs, cs
    <3>5. \A i \in DOMAIN rs : OwnedNext(rs[i])
      BY <2>4, <3>1
    <3>6. \A i \in DOMAIN Append(cs, c) : Theirs(Append(cs, c)[i]) => OwnedNext(Append(cs, c)[i])
      BY <2>4, <2>5, <3>1, <3>4
    <3>7. resps'[respQueue'] = rs /\ worker'[respQueue'].cmds = Append(cs, c)
      BY <2>1, <2>7 DEF rs
    <3>8. QED
      BY <3>3, <3>5, <3>6, <3>7, QueueNext
  <2>8. QED
    BY <2>2, <2>3, <2>6, <2>7 DEF SentTo
<1>7. ASSUME SendFails PROVE QueueInv'
  <2>1. UNCHANGED <<respQueue, proc, worker, resps, begun, late>>
    BY <1>7 DEF SendFails, handles, workerVars, history
  <2>2. op.pc # "wait" /\ op'.pc \notin {"wait", "begun"}
    BY <1>7, Plain DEF SendFails, Wrecked, Goes, Operations
  <2>3. InUse' => InUse
    BY <2>1, <2>2 DEF InUse
  <2>4. QED
    BY <2>1, <2>2, <2>3, OwnedStays, QueueKept
<1>8. ASSUME ReadAnswer PROVE QueueInv'
  <2> DEFINE r == Head(resps[respQueue])
             rs == resps[respQueue]
             rest == Tail(resps[respQueue])
             cs == worker[respQueue].cmds
  <2>1. /\ op.pc = "wait" /\ UNCHANGED <<respQueue, proc, worker, begun>>
        /\ respQueue \in OpIds /\ respQueue # 0 /\ rs \in Rs /\ cs \in Cs /\ rs # <<>>
        /\ resps'[respQueue] = rest
    BY <1>8, ReadCases, ReadEffect, Ids, Shown DEF ReadAnswer, TypeOK
  <2>2. InUse
    BY <2>1 DEF InUse
  <2>3. /\ Ordered(rs, cs)
        /\ \A i \in DOMAIN rs : Owned(rs[i])
        /\ \A i \in DOMAIN cs : Theirs(cs[i]) => Owned(cs[i])
    BY <2>2 DEF QueueInv
  <2>4. /\ 1 \in DOMAIN rs /\ rs[1] = r
        /\ \A i \in DOMAIN rest : i + 1 \in DOMAIN rs /\ 1 < i + 1 /\ rest[i] = rs[i + 1]
    BY <2>1, QueueFacts DEF Rs
  <2>5. Ordered(rest, cs)
    BY <2>1, <2>3, OrderedRead
  <2>6. /\ \A i \in DOMAIN rest : Owned(rest[i]) /\ r.by < rest[i].by /\ rest[i].by \in Nat
        /\ \A i \in DOMAIN cs : Theirs(cs[i]) => Owned(cs[i]) /\ r.by < cs[i].by /\ cs[i].by \in Nat
    <3> HIDE DEF rs, rest, cs, r
    <3>1. QED
      BY <2>1, <2>3, <2>4, Numbers DEF Ordered, Theirs
  <2>7. ASSUME NEW d, Owned(d), r.by < d.by, d.by \in Nat PROVE OwnedNext(d)
    <3>1. CASE op' = op \/ Outlived
      BY <1>8, <2>1, <2>7, <3>1, OwnedStays, ReadCases
    <3>2. CASE op' # op /\ ~Outlived
      <4>1. r.by = begun /\ late' = late
        BY <1>8, <3>2, ReadCases
      <4>2. ~Outstanding(d)
        BY <4>1, <2>7, Plain DEF Outstanding
      <4>3. QED
        BY <4>1, <4>2, <2>7 DEF Owned, OwnedNext, LeftBehind
    <3>3. QED
      BY <3>1, <3>2
  <2>8. resps'[respQueue'] = rest /\ worker'[respQueue'].cmds = cs
    BY <2>1
  <2> HIDE DEF rs, rest, cs, r
  <2>9. QED
    BY <2>5, <2>6, <2>7, <2>8, QueueNext
<1>9. ASSUME ReadCrash PROVE QueueInv'
  <2>1. UNCHANGED <<respQueue, proc, worker, resps, begun, late>> /\ Failed /\ op.pc = "wait"
    BY <1>9, WreckedFails DEF ReadCrash, handles, workerVars, history
  <2>2. ASSUME InUse' PROVE QueueInv'
    <3>1. respQueue # 0 /\ respQueue = proc
      BY <2>1, <2>2 DEF InUse, Failed, HandleInv
    <3>2. resps[respQueue] = <<>> /\ ~Alive(respQueue)
      BY <1>9, <3>1 DEF ReadCrash
    <3>3. worker[respQueue].cmds = <<>>
      BY <3>1, <3>2, Shown DEF WorkerInv
    <3>4. QED
      BY <2>1, <3>2, <3>3 DEF QueueInv, Ordered
  <2>3. QED
    BY <2>2 DEF QueueInv
<1>10. ASSUME WaitTimesOut PROVE QueueInv'
  <2>1. UNCHANGED <<respQueue, proc, worker, resps>> /\ Outlived /\ Failed
    BY <1>10, WreckedFails DEF WaitTimesOut, handles, workerVars
  <2>2. InUse' => InUse
    BY <2>1 DEF InUse, Failed
  <2>3. QED
    BY <2>1, <2>2, OwnedStays, QueueKept
<1>11. ASSUME Answered PROVE QueueInv'
  <2>1. UNCHANGED <<respQueue, proc, worker, resps, begun, late>>
    BY <1>11 DEF Answered, handles, workerVars, history
  <2>2. op.pc # "wait" /\ op'.pc \notin {"wait", "begun"}
    BY <1>11, Plain, AnsweredEffect
  <2>3. InUse' => InUse
    BY <2>1, <2>2 DEF InUse
  <2>4. QED
    BY <2>1, <2>2, <2>3, OwnedStays, QueueKept
<1>12. ASSUME Record PROVE QueueInv'
  <2>1. UNCHANGED <<respQueue, proc, worker, resps, begun, late>>
    BY <1>12 DEF Record, handles, workerVars, history
  <2>2. op.pc # "wait" /\ op'.pc \notin {"wait", "begun"}
    BY <1>12, Plain DEF Record, Goes, Operations
  <2>3. InUse' => InUse
    BY <2>1, <2>2 DEF InUse
  <2>4. QED
    BY <2>1, <2>2, <2>3, OwnedStays, QueueKept
<1>13. ASSUME Over PROVE QueueInv'
  <2>1. UNCHANGED <<respQueue, proc, worker, resps, begun, late>>
    BY <1>13 DEF Over, handles, workerVars, history
  <2>2. op.pc # "wait" /\ op'.pc \notin {"wait", "begun"}
    BY <1>13, Plain, OverEffect
  <2>3. InUse' => InUse
    BY <2>1, <2>2 DEF InUse
  <2>4. QED
    BY <2>1, <2>2, <2>3, OwnedStays, QueueKept
<1>14. ASSUME NEW x \in Stoppers, StopEnds(x) PROVE QueueInv'
  <2>1. proc' = 0 /\ respQueue' \in {0, respQueue} /\ Returns(x)
    BY <1>14, EndsEffect
  <2>2. CASE x = "op" \/ respQueue' = 0
    BY <2>1, <2>2 DEF QueueInv, InUse, Returns
  <2>3. CASE x = "teardown" /\ respQueue' = respQueue
    <3>1. UNCHANGED <<respQueue, worker, resps, begun, late, op>>
      BY <2>1, <2>3 DEF Returns
    <3>2. InUse' => InUse
      BY <2>1, <3>1 DEF InUse
    <3>3. QED
      BY <3>1, <3>2, OwnedStays, QueueKept
  <2>4. QED
    BY <2>1, <2>2, <2>3 DEF Stoppers
<1>15. ASSUME NEW x \in Stoppers, StopAsks(x) PROVE QueueInv'
  <2> DEFINE cs == worker[respQueue].cmds
  <2>1. /\ respQueue \in OpIds /\ SentTo(respQueue, Bye) /\ Alive(respQueue)
        /\ resps' = [resps EXCEPT ![respQueue] = <<>>] /\ respQueue = proc
    BY <1>15, AskEffect
  <2>2. UNCHANGED <<respQueue, proc, op, begun, late>>
    BY <1>15 DEF StopAsks, handles, history
  <2>3. InUse /\ cs \in Cs /\ respQueue # 0
    BY <2>1, Ids, Shown DEF InUse
  <2>4. Ordered(resps[respQueue], cs) /\ \A i \in DOMAIN cs : Theirs(cs[i]) => Owned(cs[i])
    BY <2>3 DEF QueueInv
  <2>5. worker'[respQueue'].cmds = Append(cs, Bye) /\ resps'[respQueue'] = <<>>
    BY <2>1, <2>2 DEF SentTo, TypeOK
  <2>6. Bye \in Commands /\ Bye.by = 0
    BY CommandFacts DEF Bye
  <2>7. Ordered(<<>>, Append(cs, Bye))
    <3>1. Ordered(<<>>, cs) /\ <<>> \in Rs
      BY <2>4, OrderedNone DEF Rs
    <3>2. QED
      BY <2>3, <3>1, OrderedBye
  <2>8. \A i \in DOMAIN Append(cs, Bye) :
          (i \in DOMAIN cs /\ Append(cs, Bye)[i] = cs[i]) \/ Append(cs, Bye)[i] = Bye
    BY <2>3, <2>6, QueueFacts DEF Cs
  <2>9. \A c : Owned(c) => OwnedNext(c)
    BY <2>2, OwnedStays
  <2> HIDE DEF cs
  <2>10. \A i \in DOMAIN Append(cs, Bye) :
           Theirs(Append(cs, Bye)[i]) => OwnedNext(Append(cs, Bye)[i])
    BY <2>4, <2>6, <2>8, <2>9 DEF Theirs
  <2>11. QED
    BY <2>5, <2>7, <2>10, NoAnswers
<1>16. ASSUME NEW x \in Stoppers, StopForces(x) PROVE QueueInv'
  <2>1. UNCHANGED <<resps, respQueue, proc, begun, late>> /\ op'.pc = op.pc /\ op'.kind = op.kind
    BY <1>16, Plain DEF StopForces, handles, workerVars, history
  <2>2. InUse' => InUse
    BY <2>1 DEF InUse
  <2>3. respQueue # 0 => worker'[respQueue].cmds \in {worker[respQueue].cmds, <<>>}
    BY <1>16, Declines, Shown DEF Declined
  <2>4. QED
    BY <2>1, <2>2, <2>3, OwnedStays, QueueKept
<1>17. ASSUME NEW x \in Stoppers, StopSurvivor(x) PROVE QueueInv'
  <2>1. UNCHANGED <<respQueue, proc, worker, resps, begun, late>> /\ Returns(x)
    BY <1>17, SurvivorEffect DEF Returns
  <2>2. CASE x = "op"
    <3>1. op.pc # "wait" /\ op'.pc = "record"
      BY <1>17, <2>1, <2>2, SurvivorEffect DEF Returns
    <3>2. InUse' => InUse
      BY <2>1, <3>1 DEF InUse
    <3>3. QED
      BY <2>1, <3>1, <3>2, OwnedStays, QueueKept
  <2>3. CASE x = "teardown"
    <3>1. op' = op
      BY <2>1, <2>3 DEF Returns
    <3>2. InUse' => InUse
      BY <2>1, <3>1 DEF InUse
    <3>3. QED
      BY <2>1, <3>1, <3>2, OwnedStays, QueueKept
  <2>4. QED
    BY <2>2, <2>3 DEF Stoppers
<1>18. ASSUME Cancel PROVE QueueInv'
  <2>1. UNCHANGED <<worker, resps, respQueue, proc, begun, late>>
        /\ op'.pc = op.pc /\ op'.kind = op.kind
    BY <1>18, Plain DEF Cancel, Operations, handles, workerVars, history
  <2>2. InUse' => InUse
    BY <2>1 DEF InUse
  <2>3. QED
    BY <2>1, <2>2, OwnedStays, QueueKept
<1>19. ASSUME CancelKills PROVE QueueInv'
  <2>1. UNCHANGED <<resps, respQueue, proc, begun, late>> /\ op'.pc = op.pc /\ op'.kind = op.kind
    BY <1>19, Plain DEF CancelKills, handles, workerVars, history
  <2>2. InUse' => InUse
    BY <2>1 DEF InUse
  <2>3. respQueue # 0 => worker'[respQueue].cmds \in {worker[respQueue].cmds, <<>>}
    BY <1>19, Declines, Shown DEF Declined
  <2>4. QED
    BY <2>1, <2>2, <2>3, OwnedStays, QueueKept
<1>20. ASSUME NEW w \in OpIds, Work(w) PROVE QueueInv'
  <2>1. UNCHANGED <<respQueue, proc, op, begun, late>>
    BY <1>20 DEF Work, handles, history
  <2>2. (InUse' => InUse) /\ \A c : Owned(c) => OwnedNext(c)
    BY <2>1, OwnedStays DEF InUse
  <2>3. ASSUME Declined, UNCHANGED resps PROVE QueueInv'
    <3>1. respQueue # 0 => worker'[respQueue].cmds \in {worker[respQueue].cmds, <<>>}
      BY <2>3, Shown DEF Declined
    <3>2. QED
      BY <2>1, <2>2, <2>3, <3>1, QueueKept
  <2>4. ASSUME NEW r \in Responses, Answers(w, r) PROVE QueueInv'
    <3>1. CASE respQueue # w
      <4>1. respQueue # 0 => resps'[respQueue] = resps[respQueue]
                             /\ worker'[respQueue].cmds = worker[respQueue].cmds
        BY <2>4, <3>1, Shown DEF Answers, TypeOK
      <4>2. QED
        BY <2>1, <2>2, <4>1, QueueKept
    <3>2. CASE respQueue = w
      <4> DEFINE rs == resps[respQueue]
                 cs == worker[respQueue].cmds
                 more == Append(rs, r)
                 left == worker'[respQueue].cmds
      <4>0. SUFFICES ASSUME InUse' PROVE QueueInv'
        BY DEF QueueInv
      <4>1. rs \in Rs /\ cs \in Cs /\ cs # <<>> /\ r.by = Head(cs).by /\ r.by # 0
            /\ r.kind = Head(cs).kind
        BY <2>4, <3>2, Ids, Shown DEF Answers
      <4>2. /\ Ordered(rs, cs)
            /\ \A i \in DOMAIN rs : Owned(rs[i])
            /\ \A i \in DOMAIN cs : Theirs(cs[i]) => Owned(cs[i])
        BY <2>2, <4>0 DEF QueueInv
      <4>3. resps'[respQueue'] = more /\ worker'[respQueue'].cmds = left
            /\ left \in {Tail(cs), <<>>}
        BY <2>1, <2>4, <3>2 DEF Answers, TypeOK
      <4>4. Ordered(more, left)
        BY <4>1, <4>2, <4>3, OrderedWork, OrderedNone
      <4>5. cs[1] = Head(cs) /\ 1 \in DOMAIN cs
        BY <4>1, QueueFacts DEF Cs
      <4>6. OwnedNext(r)
        <5>1. Owned(cs[1])
          BY <4>1, <4>2, <4>5 DEF Theirs
        <5>2. Owned(r)
          BY <5>1, <4>1, <4>5 DEF Owned, Outstanding, LeftBehind
        <5>3. QED
          BY <5>2, <2>2
      <4>7. \A i \in DOMAIN more : (i \in DOMAIN rs /\ more[i] = rs[i]) \/ more[i] = r
        BY <4>1, QueueFacts DEF Rs
      <4>8. \A i \in DOMAIN left : i + 1 \in DOMAIN cs /\ left[i] = cs[i + 1]
        <5>1. CASE left = <<>>
          BY <5>1
        <5>2. CASE left = Tail(cs)
          <6>1. DOMAIN cs = 1 .. Len(cs) /\ Len(cs) \in Nat /\ DOMAIN Tail(cs) = 1 .. (Len(cs) - 1)
                /\ \A i \in 1 .. (Len(cs) - 1) : Tail(cs)[i] = cs[i + 1]
            BY <4>1, QueueFacts DEF Cs
          <6> HIDE DEF cs, left
          <6>2. QED
            BY <5>2, <6>1
        <5>3. QED
          BY <4>3, <5>1, <5>2
      <4> HIDE DEF rs, cs, more, left
      <4>9. \A i \in DOMAIN more : OwnedNext(more[i])
        BY <2>2, <4>2, <4>6, <4>7
      <4>10. \A i \in DOMAIN left : Theirs(left[i]) => OwnedNext(left[i])
        BY <2>2, <4>2, <4>8
      <4>11. QED
        BY <4>3, <4>4, <4>9, <4>10, QueueNext
    <3>3. QED
      BY <3>1, <3>2
  <2>5. QED
    BY <1>20, <2>3, <2>4, Works
<1>21. ASSUME NEW w \in OpIds, Fall(w) PROVE QueueInv'
  <2>1. UNCHANGED <<resps, respQueue, proc, begun, late>> /\ op'.pc = op.pc /\ op'.kind = op.kind
    BY <1>21, Plain DEF Fall, handles, workerVars, history
  <2>2. InUse' => InUse
    BY <2>1 DEF InUse
  <2>3. respQueue # 0 => worker'[respQueue].cmds \in {worker[respQueue].cmds, <<>>}
    BY <1>21, Declines, Shown DEF Declined
  <2>4. QED
    BY <2>1, <2>2, <2>3, OwnedStays, QueueKept
<1>22. ASSUME NEW w \in OpIds, Unwedge(w) PROVE QueueInv'
  <2>1. UNCHANGED <<resps, respQueue, proc, begun, late>> /\ op'.pc = op.pc /\ op'.kind = op.kind
    BY <1>22, Plain DEF Unwedge, handles, workerVars, history
  <2>2. InUse' => InUse
    BY <2>1 DEF InUse
  <2>3. respQueue # 0 => worker'[respQueue].cmds \in {worker[respQueue].cmds, <<>>}
    BY <1>22, Declines, Shown DEF Declined
  <2>4. QED
    BY <2>1, <2>2, <2>3, OwnedStays, QueueKept
<1>23. ASSUME \/ CleanNothing
              \/ (\E x \in Stoppers : StopSees(x))
              \/ Teardown
              \/ UNCHANGED vars
       PROVE  QueueInv'
  <2>1. UNCHANGED <<proc, respQueue, op, begun, late, worker, resps>>
    BY <1>23 DEF CleanNothing, StopSees, Teardown, vars, handles, workerVars,
           history
  <2>2. QED
    BY <2>1 DEF QueueInv, InUse, Ordered, Owned, Outstanding, LeftBehind, Theirs
<1>24. QED
  BY <1>1, <1>2, <1>3, <1>4, <1>5, <1>6, <1>7, <1>8, <1>9, <1>10, <1>11, <1>12,
     <1>13, <1>14, <1>15, <1>16, <1>17, <1>18, <1>19, <1>20, <1>21, <1>22, <1>23
     DEF Next, OpStep, StopStep

-----------------------------------------------------------------------------
(* Whose answer is taken, and what the worker holds.                        *)

\* What a step has to show of a load that waits.
LEMMA LoadNext ==
  ASSUME NEW rs, NEW cs,
         op'.kind.type = "load" /\ op'.pc = "wait" /\ respQueue' # 0 =>
           /\ resps'[respQueue'] = rs /\ worker'[respQueue'].cmds = cs
           /\ \A i \in DOMAIN rs : rs[i].by = begun'
           /\ \A i \in DOMAIN cs : Theirs(cs[i]) => cs[i].by = begun'
  PROVE  LoadInv'
BY DEF LoadInv, Theirs

\* A step that leaves the queues on show alone, or empties that of the commands.
LEMMA LoadKept ==
  ASSUME LoadInv, begun' = begun,
         op'.kind.type = "load" /\ op'.pc = "wait" /\ respQueue' # 0 =>
           /\ op.kind.type = "load" /\ op.pc = "wait" /\ respQueue' = respQueue
           /\ resps'[respQueue] = resps[respQueue]
           /\ worker'[respQueue].cmds \in {worker[respQueue].cmds, <<>>}
  PROVE  LoadInv'
<1> DEFINE rs == resps[respQueue]
           cs == worker'[respQueue].cmds
<1>1. op'.kind.type = "load" /\ op'.pc = "wait" /\ respQueue' # 0 =>
        /\ resps'[respQueue'] = rs /\ worker'[respQueue'].cmds = cs
        /\ \A i \in DOMAIN rs : rs[i].by = begun'
        /\ \A i \in DOMAIN cs : Theirs(cs[i]) => cs[i].by = begun'
  BY DEF LoadInv, Theirs
<1> HIDE DEF rs, cs
<1>2. QED
  BY <1>1, LoadNext


\* The worker answers the first of its commands.
TheAnswer(rs, cs, r) ==
  /\ rs \in Rs /\ cs \in Cs /\ r \in Responses /\ cs # <<>>
  /\ r.by = Head(cs).by /\ r.kind = Head(cs).kind /\ r.by # 0

\* What that does to the two queues.
LEMMA AnswerQueues ==
  ASSUME NEW rs, NEW cs, NEW r, TheAnswer(rs, cs, r), NEW left \in {Tail(cs), <<>>}
  PROVE  /\ \A i \in DOMAIN Append(rs, r) :
              (i \in DOMAIN rs /\ Append(rs, r)[i] = rs[i]) \/ Append(rs, r)[i] = r
         /\ \A i \in DOMAIN left : i + 1 \in DOMAIN cs /\ left[i] = cs[i + 1]
         /\ 1 \in DOMAIN cs /\ cs[1] = Head(cs) /\ cs[1].by = r.by /\ r.by # 0
<1> DEFINE more == Append(rs, r)
<1>1. \A i \in DOMAIN more : (i \in DOMAIN rs /\ more[i] = rs[i]) \/ more[i] = r
  <2>1. /\ DOMAIN rs = 1 .. Len(rs) /\ Len(rs) \in Nat /\ DOMAIN more = 1 .. (Len(rs) + 1)
        /\ more[Len(rs) + 1] = r /\ \A i \in 1 .. Len(rs) : more[i] = rs[i]
    BY QueueFacts DEF TheAnswer, Rs
  <2> HIDE DEF more
  <2>2. QED
    BY <2>1
<1>2. 1 \in DOMAIN cs /\ cs[1] = Head(cs)
  BY QueueFacts DEF TheAnswer, Cs
<1>3. CASE left = <<>>
  BY <1>1, <1>2, <1>3 DEF TheAnswer
<1>4. CASE left = Tail(cs)
  <2>1. DOMAIN cs = 1 .. Len(cs) /\ Len(cs) \in Nat /\ DOMAIN left = 1 .. (Len(cs) - 1)
        /\ \A i \in 1 .. (Len(cs) - 1) : left[i] = cs[i + 1]
    BY <1>4, QueueFacts DEF TheAnswer, Cs
  <2>2. \A i \in DOMAIN left : i + 1 \in DOMAIN cs /\ left[i] = cs[i + 1]
    BY <2>1
  <2>3. QED
    BY <1>1, <1>2, <2>2 DEF TheAnswer
<1>5. QED
  BY <1>3, <1>4


\* Only the load speaks to the worker that it started.
LEMMA LoadStep ==
  IInv /\ [Next]_vars => LoadInv'
<1> SUFFICES ASSUME TypeOK, PlaceInv, HandleInv, WorkerInv, LoadInv, [Next]_vars
             PROVE  LoadInv'
  BY DEF IInv
<1>1. ASSUME NEW kind \in Kinds, Begin(kind) PROVE LoadInv'
  <2>1. op'.pc # "wait"
    BY <1>1, BeginEffect
  <2>2. QED
    BY <2>1 DEF LoadInv
<1>2. ASSUME Refused PROVE LoadInv'
  <2>1. op'.pc # "wait"
    BY <1>2, Plain DEF Refused, Fails, Operations
  <2>2. QED
    BY <2>1 DEF LoadInv
<1>3. ASSUME LoadStops PROVE LoadInv'
  <2>1. op'.pc # "wait"
    BY <1>3, Plain DEF LoadStops, Goes, Operations
  <2>2. QED
    BY <2>1 DEF LoadInv
<1>4. ASSUME Spawn PROVE LoadInv'
  <2> DEFINE c == [kind |-> op.kind, by |-> begun]
             cs == <<c>>
  <2>1. /\ respQueue' = spawned + 1 /\ resps' = resps /\ begun' = begun
        /\ worker'[respQueue'].cmds = cs /\ resps'[respQueue'] = <<>>
    BY <1>4, SpawnEffect DEF Spawn
  <2>2. c.by = begun /\ \A i \in DOMAIN cs : cs[i] = c
    BY OneCommand
  <2> HIDE DEF c, cs
  <2>3. \A i \in DOMAIN <<>> : <<>>[i].by = begun'
    OBVIOUS
  <2>4. QED
    BY <2>1, <2>2, <2>3, LoadNext
<1>5. ASSUME SpawnFails PROVE LoadInv'
  <2>1. op'.pc # "wait"
    BY <1>5, Plain DEF SpawnFails, Fails, Operations
  <2>2. QED
    BY <2>1 DEF LoadInv
<1>6. ASSUME Send PROVE LoadInv'
  <2>1. op'.kind = op.kind /\ op.kind.type # "load"
    BY <1>6, Plain DEF Send, Goes, Operations
  <2>2. QED
    BY <2>1 DEF LoadInv
<1>7. ASSUME SendFails PROVE LoadInv'
  <2>1. op'.pc # "wait"
    BY <1>7, WreckedFails DEF SendFails, Failed
  <2>2. QED
    BY <2>1 DEF LoadInv
<1>8. ASSUME ReadAnswer PROVE LoadInv'
  <2> DEFINE rs == resps[respQueue]
             rest == Tail(resps[respQueue])
             cs == worker[respQueue].cmds
  <2>1. /\ op.pc = "wait" /\ UNCHANGED <<respQueue, worker, begun>>
        /\ respQueue \in OpIds /\ respQueue # 0 /\ rs \in Rs /\ rs # <<>>
        /\ resps'[respQueue'] = rest /\ worker'[respQueue'].cmds = cs
        /\ op'.kind = op.kind
    BY <1>8, ReadCases, ReadEffect, Ids, Shown DEF ReadAnswer, TypeOK, Failed, SameOp
  <2>2. \A i \in DOMAIN rest : i + 1 \in DOMAIN rs /\ rest[i] = rs[i + 1]
    <3>1. /\ DOMAIN rs = 1 .. Len(rs) /\ Len(rs) \in Nat /\ DOMAIN rest = 1 .. (Len(rs) - 1)
          /\ \A i \in 1 .. (Len(rs) - 1) : rest[i] = rs[i + 1]
      BY <2>1, QueueFacts DEF Rs
    <3> HIDE DEF rs, rest
    <3>2. QED
      BY <3>1
  <2>3. op.kind.type = "load" => /\ \A i \in DOMAIN rs : rs[i].by = begun
                                 /\ \A i \in DOMAIN cs : Theirs(cs[i]) => cs[i].by = begun
    BY <2>1 DEF LoadInv
  <2> HIDE DEF rs, rest, cs
  <2>4. QED
    BY <2>1, <2>2, <2>3, LoadNext
<1>9. ASSUME ReadCrash PROVE LoadInv'
  <2>1. op'.pc # "wait"
    BY <1>9, WreckedFails DEF ReadCrash, Failed
  <2>2. QED
    BY <2>1 DEF LoadInv
<1>10. ASSUME WaitTimesOut PROVE LoadInv'
  <2>1. op'.pc # "wait"
    BY <1>10, WreckedFails DEF WaitTimesOut, Failed
  <2>2. QED
    BY <2>1 DEF LoadInv
<1>11. ASSUME Answered PROVE LoadInv'
  <2>1. op'.pc # "wait"
    BY <1>11, AnsweredEffect
  <2>2. QED
    BY <2>1 DEF LoadInv
<1>12. ASSUME Record PROVE LoadInv'
  <2>1. op'.pc # "wait"
    BY <1>12, Plain DEF Record, Goes, Operations
  <2>2. QED
    BY <2>1 DEF LoadInv
<1>13. ASSUME Over PROVE LoadInv'
  <2>1. op'.pc # "wait"
    BY <1>13, OverEffect
  <2>2. QED
    BY <2>1 DEF LoadInv
<1>14. ASSUME NEW x \in Stoppers, StopEnds(x) PROVE LoadInv'
  <2>1. respQueue' \in {0, respQueue} /\ Returns(x)
    BY <1>14, EndsEffect
  <2>2. UNCHANGED <<worker, resps, begun>> /\ (op' = op \/ op'.pc # "wait")
    BY <2>1 DEF Returns, Stoppers
  <2>3. QED
    BY <2>1, <2>2, LoadKept
<1>15. ASSUME NEW x \in Stoppers, StopAsks(x) PROVE LoadInv'
  <2> DEFINE cs == worker[respQueue].cmds
             more == Append(cs, Bye)
  <2>1. /\ respQueue \in OpIds /\ SentTo(respQueue, Bye) /\ Alive(respQueue)
        /\ resps' = [resps EXCEPT ![respQueue] = <<>>] /\ respQueue # 0
    BY <1>15, AskEffect, Ids
  <2>2. UNCHANGED <<respQueue, op, begun>>
    BY <1>15 DEF StopAsks, handles, history
  <2>3. worker'[respQueue'].cmds = more /\ resps'[respQueue'] = <<>>
    BY <2>1, <2>2 DEF SentTo, TypeOK
  <2>4. Bye \in Commands /\ Bye.by = 0 /\ cs \in Cs
    BY <2>1, CommandFacts, Shown DEF Bye
  <2>5. \A i \in DOMAIN more : (i \in DOMAIN cs /\ more[i] = cs[i]) \/ more[i] = Bye
    BY <2>4, QueueFacts DEF Cs
  <2>6. op.kind.type = "load" /\ op.pc = "wait" =>
          \A i \in DOMAIN cs : Theirs(cs[i]) => cs[i].by = begun
    BY <2>1 DEF LoadInv
  <2> HIDE DEF cs, more
  <2>7. op.kind.type = "load" /\ op.pc = "wait" =>
          \A i \in DOMAIN more : Theirs(more[i]) => more[i].by = begun
    BY <2>4, <2>5, <2>6 DEF Theirs
  <2>8. \A i \in DOMAIN <<>> : <<>>[i].by = begun'
    OBVIOUS
  <2>9. QED
    BY <2>2, <2>3, <2>7, <2>8, LoadNext
<1>16. ASSUME NEW x \in Stoppers, StopForces(x) PROVE LoadInv'
  <2>1. UNCHANGED <<respQueue, resps, begun, op>>
    BY <1>16 DEF StopForces, handles, history
  <2>2. respQueue # 0 => worker'[respQueue].cmds \in {worker[respQueue].cmds, <<>>}
    BY <1>16, Declines, Shown DEF Declined
  <2>3. QED
    BY <2>1, <2>2, LoadKept
<1>17. ASSUME NEW x \in Stoppers, StopSurvivor(x) PROVE LoadInv'
  <2>1. respQueue' = respQueue /\ Returns(x)
    BY <1>17, SurvivorEffect
  <2>2. UNCHANGED <<worker, resps, begun>> /\ (op' = op \/ op'.pc # "wait")
    BY <2>1 DEF Returns, Stoppers
  <2>3. QED
    BY <2>1, <2>2, LoadKept
<1>18. ASSUME Cancel PROVE LoadInv'
  <2>1. UNCHANGED <<respQueue, worker, resps, begun>> /\ op'.pc = op.pc /\ op'.kind = op.kind
    BY <1>18, Plain DEF Cancel, handles, workerVars, history, Operations
  <2>2. QED
    BY <2>1, LoadKept
<1>19. ASSUME CancelKills PROVE LoadInv'
  <2>1. UNCHANGED <<respQueue, resps, begun, op>>
    BY <1>19 DEF CancelKills, handles, history
  <2>2. respQueue # 0 => worker'[respQueue].cmds \in {worker[respQueue].cmds, <<>>}
    BY <1>19, Declines, Shown DEF Declined
  <2>3. QED
    BY <2>1, <2>2, LoadKept
<1>20. ASSUME NEW w \in OpIds, Work(w) PROVE LoadInv'
  <2>1. UNCHANGED <<respQueue, op, begun>>
    BY <1>20 DEF Work, handles, history
  <2>2. ASSUME Declined, UNCHANGED resps PROVE LoadInv'
    <3>1. respQueue # 0 => worker'[respQueue].cmds \in {worker[respQueue].cmds, <<>>}
      BY <2>2, Shown DEF Declined
    <3>2. QED
      BY <2>1, <2>2, <3>1, LoadKept
  <2>3. ASSUME NEW r \in Responses, Answers(w, r) PROVE LoadInv'
    <3>1. CASE respQueue # w
      <4>1. respQueue # 0 => resps'[respQueue] = resps[respQueue]
                             /\ worker'[respQueue].cmds = worker[respQueue].cmds
        BY <2>3, <3>1, Shown DEF Answers, TypeOK
      <4>2. QED
        BY <2>1, <4>1, LoadKept
    <3>2. CASE respQueue = w
      <4> DEFINE rs == resps[respQueue]
                 cs == worker[respQueue].cmds
                 more == Append(rs, r)
                 left == worker'[respQueue].cmds
      <4>1. TheAnswer(rs, cs, r) /\ respQueue # 0
        BY <2>3, <3>2, Ids, Shown DEF Answers, TheAnswer
      <4>2. resps'[respQueue'] = more /\ worker'[respQueue'].cmds = left
            /\ left \in {Tail(cs), <<>>}
        BY <2>1, <2>3, <3>2 DEF Answers, TypeOK
      <4>3. op.kind.type = "load" /\ op.pc = "wait" =>
              /\ \A i \in DOMAIN rs : rs[i].by = begun
              /\ \A i \in DOMAIN cs : Theirs(cs[i]) => cs[i].by = begun
        BY <4>1 DEF LoadInv
      <4> HIDE DEF rs, cs, more, left
      <4>4. /\ \A i \in DOMAIN more : (i \in DOMAIN rs /\ more[i] = rs[i]) \/ more[i] = r
            /\ \A i \in DOMAIN left : i + 1 \in DOMAIN cs /\ left[i] = cs[i + 1]
            /\ 1 \in DOMAIN cs /\ cs[1].by = r.by /\ r.by # 0
        BY <4>1, <4>2, AnswerQueues DEF more
      <4>5. QED
        BY <2>1, <4>2, <4>3, <4>4, LoadNext DEF Theirs
    <3>3. QED
      BY <3>1, <3>2
  <2>4. QED
    BY <1>20, <2>2, <2>3, Works
<1>21. ASSUME NEW w \in OpIds, Fall(w) PROVE LoadInv'
  <2>1. UNCHANGED <<respQueue, resps, begun, op>>
    BY <1>21 DEF Fall, handles, history
  <2>2. respQueue # 0 => worker'[respQueue].cmds \in {worker[respQueue].cmds, <<>>}
    BY <1>21, Declines, Shown DEF Declined
  <2>3. QED
    BY <2>1, <2>2, LoadKept
<1>22. ASSUME NEW w \in OpIds, Unwedge(w) PROVE LoadInv'
  <2>1. UNCHANGED <<respQueue, resps, begun, op>>
    BY <1>22 DEF Unwedge, handles, history
  <2>2. respQueue # 0 => worker'[respQueue].cmds \in {worker[respQueue].cmds, <<>>}
    BY <1>22, Declines, Shown DEF Declined
  <2>3. QED
    BY <2>1, <2>2, LoadKept
<1>23. ASSUME \/ CleanNothing
              \/ (\E x \in Stoppers : StopSees(x))
              \/ Teardown
              \/ UNCHANGED vars
       PROVE  LoadInv'
  <2>1. UNCHANGED <<op, respQueue, resps, worker, begun>>
    BY <1>23 DEF CleanNothing, StopSees, Teardown, vars, handles, workerVars,
           history
  <2>2. QED
    BY <2>1 DEF LoadInv, Theirs
<1>24. QED
  BY <1>1, <1>2, <1>3, <1>4, <1>5, <1>6, <1>7, <1>8, <1>9, <1>10, <1>11, <1>12,
     <1>13, <1>14, <1>15, <1>16, <1>17, <1>18, <1>19, <1>20, <1>21, <1>22, <1>23
     DEF Next, OpStep, StopStep

\* The answer that is taken is the operation's own, or was left behind by one of its kind.
LEMMA OwnStep ==
  IInv /\ [Next]_vars => OwnAnswer'
<1> SUFFICES ASSUME TypeOK, PlaceInv, QueueInv, LoadInv, OwnAnswer, [Next]_vars
             PROVE  OwnAnswer'
  BY DEF IInv
<1>1. ASSUME NEW kind \in Kinds, Begin(kind) PROVE OwnAnswer'
  BY <1>1, BeginEffect DEF OwnAnswer
<1>2. ASSUME Refused PROVE OwnAnswer'
  <2>1. op'.took = op.took /\ op'.kind = op.kind /\ UNCHANGED <<begun, late>>
    BY <1>2, Plain DEF Refused, Fails, Operations, history
  <2>2. QED
    BY <2>1 DEF OwnAnswer
<1>3. ASSUME LoadStops PROVE OwnAnswer'
  <2>1. op'.took = op.took /\ op'.kind = op.kind /\ UNCHANGED <<begun, late>>
    BY <1>3, Plain DEF LoadStops, Goes, Operations, history
  <2>2. QED
    BY <2>1 DEF OwnAnswer
<1>4. ASSUME Spawn PROVE OwnAnswer'
  <2>1. op'.took = op.took /\ op'.kind = op.kind /\ UNCHANGED <<begun, late>>
    BY <1>4, Plain DEF Spawn, Goes, Operations, history
  <2>2. QED
    BY <2>1 DEF OwnAnswer
<1>5. ASSUME SpawnFails PROVE OwnAnswer'
  <2>1. op'.took = op.took /\ op'.kind = op.kind /\ UNCHANGED <<begun, late>>
    BY <1>5, Plain DEF SpawnFails, Fails, Operations, history
  <2>2. QED
    BY <2>1 DEF OwnAnswer
<1>6. ASSUME Send PROVE OwnAnswer'
  <2>1. op'.took = op.took /\ op'.kind = op.kind /\ UNCHANGED <<begun, late>>
    BY <1>6, Plain DEF Send, Goes, Operations, history
  <2>2. QED
    BY <2>1 DEF OwnAnswer
<1>7. ASSUME SendFails PROVE OwnAnswer'
  <2>1. op'.took = op.took /\ op'.kind = op.kind /\ UNCHANGED <<begun, late>>
    BY <1>7, WreckedFails DEF SendFails, Failed, SameOp, history
  <2>2. QED
    BY <2>1 DEF OwnAnswer
<1>8. ASSUME ReadAnswer PROVE OwnAnswer'
  <2> DEFINE r == Head(resps[respQueue])
  <2>1. /\ op.pc = "wait" /\ op.kind \in Kinds /\ r.kind \in Kinds /\ respQueue # 0
        /\ op'.kind = op.kind /\ begun' = begun /\ late \subseteq late'
        /\ op'.took = op.took \/ (Expected(r) /\ op'.took = r.by)
    BY <1>8, ReadCases, ReadEffect, Ids DEF PlaceInv, Failed, SameOp, Outlived
  <2>2. CASE op'.took = op.took
    BY <2>1, <2>2 DEF OwnAnswer
  <2>3. CASE Expected(r) /\ op'.took = r.by
    <3>1. 1 \in DOMAIN resps[respQueue] /\ r = resps[respQueue][1]
      BY <1>8, ReadEffect, QueueFacts
    <3>2. Owned(r)
      BY <2>1, <3>1 DEF QueueInv, InUse
    <3>3. op.kind.type = "load" => r.by = begun
      BY <2>1, <3>1 DEF LoadInv
    <3>4. op.kind.type # "load" => r.kind = op.kind
      BY <2>1, <2>3, KindFacts DEF Expected
    <3>5. QED
      BY <2>1, <2>3, <3>2, <3>3, <3>4 DEF Owned, Outstanding, LeftBehind, OwnAnswer
  <2>4. QED
    BY <2>1, <2>2, <2>3
<1>9. ASSUME ReadCrash PROVE OwnAnswer'
  <2>1. op'.took = op.took /\ op'.kind = op.kind /\ UNCHANGED <<begun, late>>
    BY <1>9, WreckedFails DEF ReadCrash, Failed, SameOp, history
  <2>2. QED
    BY <2>1 DEF OwnAnswer
<1>10. ASSUME WaitTimesOut PROVE OwnAnswer'
  <2>1. op'.took = op.took /\ op'.kind = op.kind /\ begun' = begun /\ late \subseteq late'
    BY <1>10, WreckedFails DEF WaitTimesOut, Failed, SameOp, Outlived
  <2>2. QED
    BY <2>1 DEF OwnAnswer
<1>11. ASSUME Answered PROVE OwnAnswer'
  <2>1. op'.took = op.took /\ op'.kind = op.kind /\ UNCHANGED <<begun, late>>
    BY <1>11, AnsweredEffect DEF SameOp
  <2>2. QED
    BY <2>1 DEF OwnAnswer
<1>12. ASSUME Record PROVE OwnAnswer'
  <2>1. op'.took = op.took /\ op'.kind = op.kind /\ UNCHANGED <<begun, late>>
    BY <1>12, Plain DEF Record, Goes, Operations, history
  <2>2. QED
    BY <2>1 DEF OwnAnswer
<1>13. ASSUME Over PROVE OwnAnswer'
  BY <1>13, OverEffect DEF OwnAnswer
<1>14. ASSUME NEW x \in Stoppers, StopEnds(x) PROVE OwnAnswer'
  <2>1. op'.took = op.took /\ op'.kind = op.kind /\ UNCHANGED <<begun, late>>
    BY <1>14, EndsEffect DEF Returns, SameOp, Stoppers
  <2>2. QED
    BY <2>1 DEF OwnAnswer
<1>15. ASSUME NEW x \in Stoppers, StopSurvivor(x) PROVE OwnAnswer'
  <2>1. op'.took = op.took /\ op'.kind = op.kind /\ UNCHANGED <<begun, late>>
    BY <1>15, SurvivorEffect DEF Returns, SameOp, Stoppers
  <2>2. QED
    BY <2>1 DEF OwnAnswer
<1>16. ASSUME Cancel PROVE OwnAnswer'
  <2>1. op'.took = op.took /\ op'.kind = op.kind /\ UNCHANGED <<begun, late>>
    BY <1>16, Plain DEF Cancel, Operations, history
  <2>2. QED
    BY <2>1 DEF OwnAnswer
<1>17. ASSUME \/ CleanNothing
              \/ (\E x \in Stoppers : StopSees(x))
              \/ (\E x \in Stoppers : StopAsks(x))
              \/ (\E x \in Stoppers : StopForces(x))
              \/ Teardown
              \/ CancelKills
              \/ (\E w \in OpIds : Work(w))
              \/ (\E w \in OpIds : Fall(w))
              \/ (\E w \in OpIds : Unwedge(w))
              \/ UNCHANGED vars
       PROVE  OwnAnswer'
  <2>1. UNCHANGED <<op, begun, late>>
    BY <1>17 DEF CleanNothing, StopSees, StopAsks, StopForces, Teardown,
           CancelKills, Work, Fall, Unwedge, vars, handles, workerVars, history
  <2>2. QED
    BY <2>1 DEF OwnAnswer
<1>18. QED
  BY <1>1, <1>2, <1>3, <1>4, <1>5, <1>6, <1>7, <1>8, <1>9, <1>10, <1>11, <1>12,
     <1>13, <1>14, <1>15, <1>16, <1>17
     DEF Next, OpStep, StopStep

\* The commands that a worker has still to do leave alone what it holds.
LEMMA SettledFewer ==
  ASSUME NEW w \in OpIds, Settled(w),
         \A i \in DOMAIN worker'[w].cmds :
           \/ \E j \in DOMAIN worker[w].cmds : worker'[w].cmds[i] = worker[w].cmds[j]
           \/ worker'[w].cmds[i].kind.type \notin {"load", "cleanup"}
  PROVE  \A i \in DOMAIN worker'[w].cmds :
           worker'[w].cmds[i].kind.type \notin {"load", "cleanup"}
BY DEF Settled

\* A step in which workers die.
LEMMA NameDeclined ==
  ASSUME TypeOK, NameInv, Declined, UNCHANGED <<proc, resps, op, checkpoint>>
  PROVE  NameInv'
<1> SUFFICES ASSUME proc # 0 PROVE NameInv'
  BY DEF NameInv
<1>1. proc \in OpIds
  BY Ids DEF TypeOK
<1>2. CASE Alive(proc)'
  <2>1. Alive(proc) /\ worker'[proc].cmds = worker[proc].cmds
        /\ worker'[proc].holds = worker[proc].holds
    BY <1>1, <1>2 DEF Declined, Alive
  <2>2. (Settled(proc)' <=> Settled(proc)) /\ (Changing' <=> Changing)
    BY <2>1 DEF Settled, Changing
  <2>3. QED
    BY <1>2, <2>1, <2>2 DEF NameInv
<1>3. CASE ~Alive(proc)'
  <2>1. worker'[proc].cmds = <<>>
    BY <1>1, <1>3 DEF Declined, Alive
  <2>2. Settled(proc)'
    BY <2>1 DEF Settled
  <2>3. QED
    BY <1>3, <2>2 DEF NameInv
<1>4. QED
  BY <1>2, <1>3


\* What the worker holds is what is on show.
LEMMA NameStep ==
  IInv /\ [Next]_vars => NameInv'
<1> SUFFICES ASSUME TypeOK, PlaceInv, HandleInv, WorkerInv, LateInv, QueueInv,
                 LoadInv, NameInv, [Next]_vars
             PROVE  NameInv'
  BY DEF IInv
<1>1. ASSUME NEW kind \in Kinds, Begin(kind) PROVE NameInv'
  <2>1. UNCHANGED <<proc, worker, resps, checkpoint>>
        /\ op.pc = "none" /\ op'.pc = "begun"
    BY <1>1, BeginEffect DEF Begin
  <2>2. QED
    BY <2>1 DEF NameInv, Changing, Settled, Alive
<1>2. ASSUME CleanNothing PROVE NameInv'
  <2>1. UNCHANGED <<proc, worker, resps>> /\ checkpoint' = NoCheckpoint /\ op' = op
    BY <1>2, Plain DEF CleanNothing, handles, workerVars, history
  <2>2. QED
    BY <2>1 DEF NameInv, Changing, Settled, Alive
<1>3. ASSUME Refused PROVE NameInv'
  <2>1. UNCHANGED <<proc, worker, resps, checkpoint>>
        /\ op.pc = "begun" /\ op'.pc = "record"
    BY <1>3, Plain DEF Refused, Fails, Operations, handles, workerVars, history
  <2>2. QED
    BY <2>1 DEF NameInv, Changing, Settled, Alive
<1>4. ASSUME LoadStops PROVE NameInv'
  <2>1. UNCHANGED <<proc, worker, resps, checkpoint>>
        /\ op.pc = "begun" /\ op'.pc = "clearing"
    BY <1>4, Plain DEF LoadStops, Goes, Operations, handles, workerVars, history
  <2>2. QED
    BY <2>1 DEF NameInv, Changing, Settled, Alive
<1>5. ASSUME Spawn PROVE NameInv'
  <2>1. /\ op'.pc = "wait" /\ op'.kind = op.kind /\ op.kind.type = "load"
        /\ proc' = spawned + 1 /\ resps' = resps /\ resps'[proc'] = <<>>
    BY <1>5, SpawnEffect, Plain DEF Spawn, Goes, Operations, PlaceInv
  <2>2. QED
    BY <2>1 DEF NameInv, Changing
<1>6. ASSUME SpawnFails PROVE NameInv'
  <2>1. UNCHANGED <<proc, worker, resps>> /\ checkpoint' = NoCheckpoint /\ op'.pc = "record"
    BY <1>6, Plain DEF SpawnFails, Fails, Operations, handles, workerVars, history
  <2>2. QED
    BY <2>1 DEF NameInv, Changing, Settled, Alive
<1>7. ASSUME Send PROVE NameInv'
  <2> DEFINE c == [kind |-> op.kind, by |-> begun]
  <2>1. /\ op.pc = "begun" /\ op.kind.type # "load" /\ op'.pc = "wait" /\ op'.kind = op.kind
        /\ UNCHANGED <<proc, respQueue, resps, checkpoint>>
    BY <1>7, Plain DEF Send, Goes, handles, history, Operations
  <2>2. SUFFICES ASSUME proc # 0, checkpoint # NoCheckpoint, op.kind.type # "cleanup"
                 PROVE  \A i \in DOMAIN worker'[proc].cmds :
                          worker'[proc].cmds[i].kind.type \notin {"load", "cleanup"}
    <3>1. ~(op'.kind.type = "load")
      BY <2>1
    <3>2. proc \in OpIds => /\ worker'[proc].holds = worker[proc].holds
                            /\ worker'[proc].state = worker[proc].state
      BY <1>7, SendEffect DEF SentTo
    <3>3. proc # 0 => proc \in OpIds
      BY Ids DEF TypeOK
    <3>4. QED
      BY <2>1, <3>1, <3>2, <3>3 DEF NameInv, Changing, Settled, Alive
  <2>3. /\ respQueue = proc /\ respQueue \in OpIds /\ SentTo(respQueue, c) /\ c \in Commands
        /\ c.kind = op.kind /\ worker[proc].cmds \in Cs
    BY <1>7, <2>2, SendEffect, Shown, Ids DEF HandleInv
  <2>4. Settled(proc)
    BY <2>1, <2>2 DEF NameInv, Changing
  <2>5. \A i \in DOMAIN worker'[proc].cmds :
          \/ \E j \in DOMAIN worker[proc].cmds : worker'[proc].cmds[i] = worker[proc].cmds[j]
          \/ worker'[proc].cmds[i] = c
    <3>1. worker'[proc].cmds \in {worker[proc].cmds, Append(worker[proc].cmds, c)}
      BY <2>3 DEF SentTo
    <3>2. \A i \in DOMAIN Append(worker[proc].cmds, c) :
            \/ i \in DOMAIN worker[proc].cmds
               /\ Append(worker[proc].cmds, c)[i] = worker[proc].cmds[i]
            \/ Append(worker[proc].cmds, c)[i] = c
      BY <2>3, QueueFacts DEF Cs
    <3>3. QED
      BY <3>1, <3>2
  <2> HIDE DEF c
  <2>6. QED
    BY <2>1, <2>2, <2>3, <2>4, <2>5, SettledFewer
<1>8. ASSUME SendFails PROVE NameInv'
  <2>1. respQueue = 0 /\ proc' = proc
    BY <1>8 DEF SendFails, handles
  <2>2. proc = 0
    BY <2>1, Plain DEF HandleInv
  <2>3. QED
    BY <2>1, <2>2 DEF NameInv
<1>9. ASSUME ReadAnswer PROVE NameInv'
  <2> DEFINE r == Head(resps[respQueue])
             rs == resps[respQueue]
             rest == Tail(resps[respQueue])
             cs == worker[respQueue].cmds
  <2>1. /\ op.pc = "wait" /\ UNCHANGED <<respQueue, proc, worker, checkpoint>>
        /\ respQueue \in OpIds /\ respQueue # 0 /\ rs \in Rs /\ cs \in Cs /\ rs # <<>>
        /\ resps'[respQueue] = rest /\ op'.kind = op.kind /\ op.kind \in Kinds
    BY <1>9, ReadCases, ReadEffect, Ids, Shown DEF ReadAnswer, TypeOK, Failed, SameOp, PlaceInv
  <2>2. SUFFICES ASSUME proc # 0 PROVE NameInv'
    BY <2>1 DEF NameInv
  <2>3. proc = respQueue
    BY <2>2 DEF HandleInv
  <2>4. /\ 1 \in DOMAIN rs /\ rs[1] = r
        /\ \A i \in DOMAIN rest : i + 1 \in DOMAIN rs /\ rest[i] = rs[i + 1]
    BY <2>1, QueueFacts DEF Rs
  <2>5. (Settled(proc)' <=> Settled(proc)) /\ (Alive(proc)' <=> Alive(proc))
    BY <2>1 DEF Settled, Alive
  <2>6. op.kind.type = "load" =>
          \A i \in DOMAIN rs : rs[i].as = "done" /\ Alive(proc) => worker[proc].holds = op.kind.of
    BY <2>1, <2>2, <2>3 DEF NameInv
  <2>7. op.kind.type = "load" =>
          \A i \in DOMAIN rest :
            rest[i].as = "done" /\ Alive(proc) => worker[proc].holds = op.kind.of
    <3> HIDE DEF rs, rest, r, cs
    <3>1. QED
      BY <2>4, <2>6
  <2>8. op.kind.type = "load" /\ Expected(r) => Settled(proc)
    <3>1. SUFFICES ASSUME op.kind.type = "load", NEW i \in DOMAIN cs
                   PROVE  cs[i].kind.type \notin {"load", "cleanup"}
      BY <2>3 DEF Settled
    <3>2. rs[1].by = begun /\ (Theirs(cs[i]) => cs[i].by = begun)
      BY <2>1, <2>4, <3>1 DEF LoadInv
    <3>3. Theirs(cs[i]) => rs[1].by < cs[i].by
      BY <2>1, <2>4, <3>1 DEF QueueInv, InUse, Ordered, Theirs
    <3>4. ~Theirs(cs[i])
      BY <3>2, <3>3, Plain
    <3>5. cs[i] \in Commands /\ cs[i].by = 0
      BY <2>1, <3>1, <3>4, Numbers DEF Theirs
    <3>6. QED
      BY <3>5, CommandFacts
  <2>9. CASE op' = op
    BY <2>1, <2>3, <2>5, <2>7, <2>9 DEF NameInv, Changing
  <2>10. CASE Failed
    <3>1. (Changing' <=> Changing) /\ op'.pc \notin {"wait", "answered"}
      BY <2>1, <2>10, KindFacts DEF Failed, SameOp, Changing
    <3>2. QED
      BY <2>1, <2>3, <2>5, <3>1 DEF NameInv
  <2>11. CASE Expected(r) /\ op'.pc = "answered" /\ (op'.ok <=> r.as = "done")
    <3>1. (Changing' <=> Changing) /\ op'.pc # "wait"
      BY <2>1, <2>11 DEF Changing
    <3>2. checkpoint' # NoCheckpoint /\ ~Changing' =>
            Settled(proc)' /\ (Alive(proc)' => worker'[proc].holds = checkpoint')
      BY <2>1, <2>2, <2>5, <3>1 DEF NameInv
    <3>3. op'.kind.type = "load" =>
            Settled(proc)' /\ (op'.ok /\ Alive(proc)' => worker'[proc].holds = op'.kind.of)
      BY <2>1, <2>4, <2>5, <2>6, <2>8, <2>11
    <3>4. QED
      BY <2>1, <3>1, <3>2, <3>3 DEF NameInv
  <2>12. QED
    BY <1>9, <2>9, <2>10, <2>11, ReadCases
<1>10. ASSUME ReadCrash PROVE NameInv'
  <2>1. UNCHANGED <<proc, worker, resps, checkpoint>> /\ op.pc = "wait" /\ Failed
    BY <1>10, WreckedFails DEF ReadCrash, handles, workerVars, history
  <2>2. op.kind \in Kinds
    BY <2>1 DEF PlaceInv
  <2>3. Changing' <=> Changing
    BY <2>1, <2>2, KindFacts DEF Failed, SameOp, Changing
  <2>4. op'.pc \notin {"wait", "answered"}
    BY <2>1 DEF Failed
  <2>5. QED
    BY <2>1, <2>3, <2>4 DEF NameInv, Settled, Alive
<1>11. ASSUME WaitTimesOut PROVE NameInv'
  <2>1. UNCHANGED <<proc, worker, resps, checkpoint>> /\ op.pc = "wait" /\ Failed
    BY <1>11, WreckedFails DEF WaitTimesOut, handles, workerVars, history
  <2>2. op.kind \in Kinds
    BY <2>1 DEF PlaceInv
  <2>3. Changing' <=> Changing
    BY <2>1, <2>2, KindFacts DEF Failed, SameOp, Changing
  <2>4. op'.pc \notin {"wait", "answered"}
    BY <2>1 DEF Failed
  <2>5. QED
    BY <2>1, <2>3, <2>4 DEF NameInv, Settled, Alive
<1>12. ASSUME Answered PROVE NameInv'
  <2>1. /\ UNCHANGED <<proc, worker, resps>> /\ op.pc = "answered"
        /\ op'.pc \in {"record", "stopping"} /\ op'.kind = op.kind
        /\ op'.pc = "stopping" <=> op.kind.type = "cleanup"
        /\ checkpoint' = IF op.kind.type # "load" THEN checkpoint
                         ELSE IF op.ok THEN op.kind.of ELSE NoCheckpoint
    BY <1>12, AnsweredEffect DEF SameOp
  <2>2. CASE op.kind.type = "load"
    BY <2>1, <2>2 DEF NameInv, Changing, Settled, Alive
  <2>3. CASE op.kind.type # "load"
    BY <2>1, <2>3 DEF NameInv, Changing, Settled, Alive
  <2>4. QED
    BY <2>2, <2>3
<1>13. ASSUME Record PROVE NameInv'
  <2>1. UNCHANGED <<proc, worker, resps, checkpoint>>
        /\ op.pc = "record" /\ op'.pc = "recorded"
    BY <1>13, Plain DEF Record, Goes, Operations, handles, workerVars, history
  <2>2. QED
    BY <2>1 DEF NameInv, Changing, Settled, Alive
<1>14. ASSUME Over PROVE NameInv'
  <2>1. UNCHANGED <<proc, worker, resps, checkpoint>>
        /\ op.pc = "recorded" /\ op'.pc = "none"
    BY <1>14, OverEffect
  <2>2. QED
    BY <2>1 DEF NameInv, Changing, Settled, Alive
<1>15. ASSUME NEW x \in Stoppers, StopEnds(x) PROVE NameInv'
  <2>1. proc' = 0
    BY <1>15, EndsEffect
  <2>2. QED
    BY <2>1 DEF NameInv
<1>16. ASSUME NEW x \in Stoppers, StopAsks(x) PROVE NameInv'
  <2>1. /\ respQueue \in OpIds /\ proc = respQueue /\ SentTo(respQueue, Bye) /\ Alive(respQueue)
        /\ resps' = [resps EXCEPT ![respQueue] = <<>>]
    BY <1>16, AskEffect
  <2>2. UNCHANGED <<proc, op, checkpoint>>
    BY <1>16 DEF StopAsks, handles
  <2>3. resps'[proc] = <<>>
    BY <2>1 DEF TypeOK
  <2>4. /\ worker'[proc].holds = worker[proc].holds /\ worker'[proc].state = worker[proc].state
        /\ worker'[proc].cmds = Append(worker[proc].cmds, Bye) /\ worker[proc].cmds \in Cs
        /\ Bye \in Commands /\ Bye.kind.type = "shutdown"
    BY <2>1, Shown, Ids, CommandFacts DEF SentTo, Bye, Shutdown
  <2>5. \A i \in DOMAIN worker'[proc].cmds :
          \/ \E j \in DOMAIN worker[proc].cmds : worker'[proc].cmds[i] = worker[proc].cmds[j]
          \/ worker'[proc].cmds[i] = Bye
    BY <2>4, QueueFacts DEF Cs
  <2>6. Settled(proc) =>
          \A i \in DOMAIN worker'[proc].cmds :
            worker'[proc].cmds[i].kind.type \notin {"load", "cleanup"}
    BY <2>1, <2>4, <2>5, SettledFewer
  <2>7. QED
    BY <2>2, <2>3, <2>4, <2>6 DEF NameInv, Changing, Settled, Alive
<1>17. ASSUME NEW x \in Stoppers, StopForces(x) PROVE NameInv'
  <2>1. UNCHANGED <<proc, resps, op, checkpoint>>
    BY <1>17 DEF StopForces, handles, history
  <2>2. QED
    BY <1>17, <2>1, Declines, NameDeclined
<1>18. ASSUME NEW x \in Stoppers, StopSurvivor(x) PROVE NameInv'
  <2>1. UNCHANGED <<proc, worker, resps>> /\ Returns(x) /\ (x = "op" => op'.pc = "record")
    BY <1>18, SurvivorEffect DEF Returns
  <2>2. CASE x = "teardown"
    <3>1. op' = op /\ checkpoint' = NoCheckpoint
      BY <2>1, <2>2 DEF Returns
    <3>2. QED
      BY <2>1, <3>1 DEF NameInv, Settled, Alive
  <2>3. CASE x = "op"
    <3>1. /\ op'.pc = "record"
          /\ (op.pc = "clearing" /\ checkpoint' = checkpoint) \/ checkpoint' = NoCheckpoint
      BY <2>1, <2>3 DEF Returns
    <3>2. QED
      BY <2>1, <3>1 DEF NameInv, Changing, Settled, Alive
  <2>4. QED
    BY <2>2, <2>3 DEF Stoppers
<1>19. ASSUME Cancel PROVE NameInv'
  <2>1. UNCHANGED <<proc, worker, resps, checkpoint>>
        /\ op'.pc = op.pc /\ op'.kind = op.kind /\ op'.ok = op.ok
    BY <1>19, Plain DEF Cancel, Operations, handles, workerVars, history
  <2>2. QED
    BY <2>1 DEF NameInv, Changing, Settled, Alive
<1>20. ASSUME CancelKills PROVE NameInv'
  <2>1. UNCHANGED <<proc, resps, op, checkpoint>>
    BY <1>20 DEF CancelKills, handles, history
  <2>2. QED
    BY <1>20, <2>1, Declines, NameDeclined
<1>21. ASSUME NEW w \in OpIds, Work(w) PROVE NameInv'
  <2>1. UNCHANGED <<proc, respQueue, op, begun, checkpoint>>
    BY <1>21 DEF Work, handles, history
  <2>2. ASSUME Declined, UNCHANGED resps PROVE NameInv'
    BY <2>1, <2>2, NameDeclined
  <2>3. ASSUME NEW r \in Responses, Answers(w, r) PROVE NameInv'
    <3>1. SUFFICES ASSUME proc # 0 PROVE NameInv'
      BY <2>1 DEF NameInv
    <3>2. CASE proc # w
      <4>1. proc \in OpIds
        BY <3>1, Ids DEF TypeOK
      <4>2. worker'[proc] = worker[proc] /\ resps'[proc] = resps[proc]
        BY <2>3, <3>2, <4>1 DEF Answers, TypeOK
      <4>3. QED
        BY <2>1, <4>2 DEF NameInv, Changing, Settled, Alive
    <3>3. CASE proc = w
      <4> DEFINE rs == resps[proc]
                 cs == worker[proc].cmds
                 c == Head(worker[proc].cmds)
                 left == worker'[proc].cmds
      <4>1. respQueue = proc /\ TheAnswer(rs, cs, r) /\ left \in {Tail(cs), <<>>}
            /\ Alive(proc) /\ resps'[proc] = Append(rs, r)
        BY <2>3, <3>1, <3>3, Ids, Shown DEF Answers, TheAnswer, HandleInv, TypeOK
      <4>2. /\ \A i \in DOMAIN Append(rs, r) :
                  (i \in DOMAIN rs /\ Append(rs, r)[i] = rs[i]) \/ Append(rs, r)[i] = r
            /\ \A i \in DOMAIN left : i + 1 \in DOMAIN cs /\ left[i] = cs[i + 1]
            /\ 1 \in DOMAIN cs /\ cs[1] = c /\ c.by = r.by /\ r.by # 0 /\ r.kind = c.kind
        <5> HIDE DEF rs, cs, left
        <5>1. TheAnswer(rs, cs, r) /\ left \in {Tail(cs), <<>>}
          BY <4>1
        <5>2. r.by = Head(cs).by /\ r.kind = Head(cs).kind /\ c = Head(cs)
          BY <5>1 DEF TheAnswer, cs
        <5>3. QED
          BY <5>1, <5>2, AnswerQueues
      <4>3. Alive(proc)' =>
              worker'[proc].holds = IF c.kind.type \in {"load", "cleanup"} /\ r.as = "done"
                                    THEN c.kind.of ELSE worker[proc].holds
        BY <2>1, <2>3, <3>3 DEF Answers
      <4>4. Settled(proc) =>
              Settled(proc)' /\ (Alive(proc)' => worker'[proc].holds = worker[proc].holds)
        BY <2>1, <4>2, <4>3 DEF Settled
      <4>5. checkpoint' # NoCheckpoint /\ ~Changing' =>
              Settled(proc)' /\ (Alive(proc)' => worker'[proc].holds = checkpoint')
        BY <2>1, <3>1, <4>1, <4>4 DEF NameInv, Changing
      <4>6. op'.kind.type = "load" /\ op'.pc = "answered" =>
              Settled(proc)' /\ (op'.ok /\ Alive(proc)' => worker'[proc].holds = op'.kind.of)
        BY <2>1, <3>1, <4>1, <4>4 DEF NameInv
      <4>7. ASSUME op.kind.type = "load", op.pc = "wait", NEW i \in DOMAIN resps'[proc],
                   resps'[proc][i].as = "done", Alive(proc)'
            PROVE  worker'[proc].holds = op.kind.of
        <5>1. Owned(c) /\ c.by = begun
          BY <3>1, <4>1, <4>2, <4>7 DEF QueueInv, InUse, LoadInv, Theirs
        <5>2. c.kind = op.kind
          BY <4>7, <5>1, Plain DEF Owned, Outstanding, LeftBehind, LateInv, Unanswered
        <5>3. i \notin DOMAIN rs
          <6>1. SUFFICES ASSUME i \in DOMAIN rs PROVE FALSE
            OBVIOUS
          <6>2. rs[i].by = begun
            BY <3>1, <4>1, <4>7, <6>1 DEF LoadInv
          <6>3. rs[i].by < c.by
            BY <3>1, <4>1, <4>2, <6>1 DEF QueueInv, InUse, Ordered
          <6>4. QED
            BY <5>1, <6>2, <6>3, Plain
        <5>4. resps'[proc][i] = r
          BY <4>1, <4>2, <4>7, <5>3
        <5>5. QED
          BY <4>3, <4>7, <5>2, <5>4
      <4>8. QED
        BY <2>1, <4>5, <4>6, <4>7 DEF NameInv
    <3>4. QED
      BY <3>2, <3>3
  <2>4. QED
    BY <1>21, <2>2, <2>3, Works
<1>22. ASSUME NEW w \in OpIds, Fall(w) PROVE NameInv'
  <2>1. UNCHANGED <<proc, resps, op, checkpoint>>
    BY <1>22 DEF Fall, handles, history
  <2>2. QED
    BY <1>22, <2>1, Declines, NameDeclined
<1>23. ASSUME NEW w \in OpIds, Unwedge(w) PROVE NameInv'
  <2>1. UNCHANGED <<proc, resps, op, checkpoint>>
    BY <1>23 DEF Unwedge, handles, history
  <2>2. QED
    BY <1>23, <2>1, Declines, NameDeclined
<1>24. ASSUME \/ (\E x \in Stoppers : StopSees(x))
              \/ Teardown
              \/ UNCHANGED vars
       PROVE  NameInv'
  <2>1. UNCHANGED <<proc, checkpoint, op, worker, resps>>
    BY <1>24 DEF StopSees, Teardown, vars, handles, workerVars, history
  <2>2. QED
    BY <2>1 DEF NameInv, Changing, Settled, Alive
<1>25. QED
  BY <1>1, <1>2, <1>3, <1>4, <1>5, <1>6, <1>7, <1>8, <1>9, <1>10, <1>11, <1>12,
     <1>13, <1>14, <1>15, <1>16, <1>17, <1>18, <1>19, <1>20, <1>21, <1>22, <1>23,
     <1>24
     DEF Next, OpStep, StopStep

-----------------------------------------------------------------------------
(* The theorems.                                                            *)

\* The initial state satisfies the invariant.
LEMMA InitInv == Init => IInv
<1> SUFFICES ASSUME Init PROVE IInv
  OBVIOUS
<1>1. op.pc = "none" /\ op.took = 0 /\ op \in Operations
  BY NoOperation DEF Init
<1>2. \A w \in OpIds : ~Alive(w) /\ worker[w].state = "none" /\ worker[w].cmds = <<>>
                       /\ resps[w] = <<>>
  BY DEF Init, Alive
<1>3. 0 \in 0 .. MaxOps
  BY MaxOpsAssumption
<1>4. OpTypes /\ HandleTypes
  BY <1>1, <1>3 DEF Init, OpTypes, HandleTypes, Stoppers, StopPlaces
<1>5. QueueTypes
  <2>1. [state |-> "none", holds |-> NoCheckpoint, cmds |-> <<>>] \in Workers
    BY DEF Workers
  <2>2. QED
    BY <2>1 DEF Init, QueueTypes
<1>6. CountTypes
  BY <1>3 DEF Init, CountTypes
<1>7. TypeOK
  BY <1>4, <1>5, <1>6, TypesTogether
<1>8. PlaceInv /\ WorkerInv /\ NoLostWorker /\ HandleInv
  BY <1>1, <1>2 DEF Init, PlaceInv, WorkerInv, NoLostWorker, HandleInv, Stoppers
<1>9. RecordInv /\ CancelIsRecorded
  BY <1>1 DEF Init, RecordInv, CancelIsRecorded
<1>10. LateInv /\ QueueInv /\ LoadInv /\ OwnAnswer /\ NameInv
  BY <1>1 DEF Init, LateInv, QueueInv, InUse, LoadInv, OwnAnswer, NameInv
<1>11. QED
  BY <1>7, <1>8, <1>9, <1>10 DEF IInv

\* The invariant holds of every behaviour.
THEOREM InvariantHolds == Spec => []IInv
<1>1. IInv /\ [Next]_vars => TypeOK'
  BY OpTypesStep, HandleTypesStep, QueueTypesStep, CountTypesStep
     DEF TypeOK, OpTypes, HandleTypes, QueueTypes, CountTypes
<1>2. IInv /\ [Next]_vars => IInv'
  BY <1>1, PlaceStep, HandleStep, WorkerStep, LostStep, RecordStep, CancelledStep, LateStep,
     QueueStep, LoadStep, OwnStep, NameStep
     DEF IInv
<1>3. QED
  BY <1>2, InitInv, PTL DEF Spec

\* No worker that may hold the GPU is lost, and the checkpoint on show is the
\* one its worker holds, whatever cancels, teardowns, crashes and deadlines fall
\* between the steps of an operation.
THEOREM WorkerStaysHeld == Spec => []WorkerIsHeld
<1>1. IInv => WorkerIsHeld
  <2>1. SUFFICES ASSUME IInv, op.pc = "none", Alive(proc), checkpoint # NoCheckpoint
                 PROVE  worker[proc].holds = checkpoint
    BY DEF IInv, WorkerIsHeld, NameIsHeld
  <2>2. QED
    BY <2>1 DEF IInv, NameInv, Changing, Alive
<1>2. QED
  BY <1>1, InvariantHolds, PTL

\* The outcome of an operation is there when it looks over, is a cancel exactly
\* when the operation was cancelled, and is not taken from another kind of
\* operation, however many of them gave up waiting before.
THEOREM OutcomesAreTrue == Spec => []OutcomeIsTrue
<1>1. IInv => OutcomeIsTrue
  BY DEF IInv, RecordInv, OutcomeIsTrue, InactiveIsRecorded
<1>2. QED
  BY <1>1, InvariantHolds, PTL

=============================================================================
