------------------------- MODULE DataRecipeJobsProofs -------------------------
(***************************************************************************)
(* Proofs about the data-recipe job manager, for any number of jobs, any   *)
(* subscribers, any size of the replay buffer, and any number of cancels,  *)
(* crashes, failed handlers, drains and spawns.                            *)
(***************************************************************************)
EXTENDS DataRecipeJobs, SequenceTheorems, TLAPS

-----------------------------------------------------------------------------
(* The inductive invariant.                                                *)

\* What a worker sends, and what a pump has in its hand: the worker's event,
\* which has a number once it was appended.
Reports == {"started", "log", "completed", "error"}
Sent    == [type : Reports, by : {"worker"}, job : Jobs]
InHand  == Sent \cup [type : Reports, by : {"worker"}, job : Jobs, seq : Nat \ {0}]

PumpStates == [pc : PumpPlaces, job : 0 .. MaxJobs, from : 0 .. MaxJobs,
               batch : Seq(InHand), last : BOOLEAN]

\* Nothing but the worker's events is in the queues and in the pumps' hands.
ShapeInv ==
  /\ request \in [Jobs -> {"new", "started", "refused"}]
  /\ key \in [Jobs -> {"none", "valid", "revoked"}]
  /\ job \in 0 .. MaxJobs /\ handle \in 0 .. MaxJobs
  /\ status \in [Jobs -> {"created"} \cup Running \cup Terminal]
  /\ worker \in [Jobs -> {"none", "begun", "working", "logged", "reported", "dead"}]
  /\ queue \in [Jobs -> Seq(Sent)]
  /\ faults \in 0 .. MaxFaults
  /\ asked \subseteq Jobs /\ alone \subseteq Jobs
  /\ pump \in [Jobs -> PumpStates]
  /\ events \in Seq(Seen)
  /\ sub \in [Subs -> [open : BOOLEAN, after : Nat, got : SUBSET Seen]]

\* How much a worker may have sent by now.
Room(n) == CASE worker[n] \in {"none", "begun"} -> 0
             [] worker[n] = "working" -> 1
             [] worker[n] = "logged" -> 2
             [] OTHER -> 3

\* Queues and batches hold no more than a worker sends.
RoomInv ==
  /\ \A n \in Jobs : Len(queue[n]) <= Room(n)
  /\ \A p \in Jobs : Len(pump[p].batch) <= 3
  /\ \A p \in Jobs : pump[p].batch # <<>> <=> pump[p].pc \in {"handle", "emit", "deliver"}

\* A job was installed by its start or by a spawn that failed; a worker that
\* lives is the current job's.
LifeInv ==
  /\ handle <= job
  /\ job # 0 => status[job] # "created"
  /\ handle # 0 => request[handle] = "started"
  /\ job # handle => request[job] = "refused"
  /\ \A n \in Jobs :
       /\ n <= job => request[n] # "new"
       /\ request[n] = "new" => key[n] = "none" /\ status[n] = "created"
       /\ request[n] = "started" => n <= handle
       /\ worker[n] # "none" <=> request[n] = "started"
       /\ pump[n].pc # "off" <=> request[n] = "started"
       /\ Alive(n) => n = handle /\ n = job

\* A pump reads its own job's queue or a later one's, and comes to its last
\* look only when its own worker is dead; what it delivers has its number.
PumpInv ==
  \A p \in Jobs :
    /\ pump[p].pc \in {"read", "look", "handle", "emit", "deliver"} =>
         pump[p].from \in p .. handle /\ pump[p].job \in 1 .. job
    /\ pump[p].pc \in {"final", "ended"} \/ pump[p].last => worker[p] = "dead"
    /\ pump[p].pc = "deliver" => Head(pump[p].batch) \in Seen

\* Pump p is about to append an ending of job n.
Ends(p, n) ==
  pump[p].pc = "emit" /\ Head(pump[p].batch).type \in Terminal /\ pump[p].job = n

\* An ended job's key is revoked, or about to be.
KeyInv ==
  \A n \in Jobs : status[n] \in Terminal => key[n] = "revoked" \/ \E p \in Jobs : Ends(p, n)

PumpGone(p) == pump[p].pc \in {"off", "ended"}

\* A running job that was started has a pump that will look at it.
RunInv ==
  job # 0 /\ status[job] \in Running /\ request[job] = "started" =>
    \E p \in Jobs : ~PumpGone(p)

\* A job that was started alone has no pump but its own while it is current;
\* no ending of it is anywhere before its worker reported or died.
AloneInv ==
  \A n \in alone :
    /\ request[n] = "started"
    /\ job = n => \A p \in Jobs \ {n} : PumpGone(p)
    /\ worker[n] \notin {"reported", "dead"} =>
         /\ status[n] \notin Terminal /\ key[n] # "revoked"
         /\ \A i \in DOMAIN queue[n] : queue[n][i].type \notin Terminal
         /\ \A i \in DOMAIN pump[n].batch : pump[n].batch[i].type \notin Terminal

\* The stream tells of a cancel; an event of the worker came after it.
Told      == \E i \in DOMAIN events : events[i].type = "cancelling"
Overtaken == \E i, k \in DOMAIN events :
               i < k /\ events[i].type = "cancelling" /\ events[k].by = "worker"

\* A job cancelled, and alone, is on its way to "cancelled" unless an event of
\* the worker came, or is about to come, after the cancel.
CancelInv ==
  \A n \in asked :
    /\ worker[n] = "dead"
    /\ n \in alone /\ job = n =>
         \/ Overtaken
         \/ pump[n].pc = "ended" /\ status[n] = "cancelled"
         \/ /\ pump[n].pc # "ended" /\ Told
            /\ status[n] = "cancelling" \/ pump[n].pc = "emit"

\* The inductive invariant.
IInv ==
  /\ ShapeInv /\ RoomInv /\ LifeInv /\ PumpInv /\ KeyInv /\ RunInv /\ AloneInv
  /\ CancelInv /\ StreamIsComplete

-----------------------------------------------------------------------------
(* What the helpers of the actions do.                                      *)

\* Zero is no job, and a type that a worker reports is an event type.
LEMMA Basics ==
  /\ MaxJobs \in Nat \ {0} /\ MaxFaults \in Nat
  /\ Jobs \subseteq Nat \ {0} /\ 0 \notin Jobs
  /\ \A i : i \in 0 .. MaxJobs /\ i # 0 => i \in Jobs
  /\ \A e \in InHand : e.type \in Reports /\ e.by = "worker" /\ e.job \in Jobs
  /\ \A e \in InHand, i \in Nat \ {0} : Numbered(e, i) \in InHand \cap Seen
  /\ \A e \in Seen, i \in Nat : e.type \in EventTypes
  /\ Sent \subseteq InHand
BY MaxJobsAssumption, MaxFaultsAssumption
DEF Jobs, InHand, Sent, Reports, Seen, EventTypes, Terminal, Numbered

\* The empty sequence, of whatever is sent, taken or streamed.
LEMMA Empty ==
  /\ <<>> \in Seq(Sent) /\ <<>> \in Seq(InHand) /\ <<>> \in Seq(Seen)
  /\ Len(<<>>) = 0 /\ DOMAIN <<>> = {}
BY EmptySeq

\* A sequence with elements is not the empty one.
LEMMA NotEmpty ==
  ASSUME NEW s, Len(s) # 0
  PROVE  s # <<>>
BY Empty

\* One element taken leaves no more than there were.
LEMMA OneLess ==
  ASSUME NEW m \in Nat, NEW n, n = m - 1
  PROVE  n <= m
OBVIOUS

\* What the buffer has dropped is a number of events; what it replays is
\* everything that it has not dropped, after the event asked for.
LEMMA Buffer ==
  ASSUME events \in Seq(Seen), NEW after \in 0 .. Len(events)
  PROVE  /\ after \in Nat /\ Gone \in Nat
         /\ Replay(after) \in SUBSET Seen
         /\ \A i \in DOMAIN events : i > after /\ i > Gone => events[i] \in Replay(after)
<1>1. Len(events) \in Nat /\ MaxEvents \in Nat
  BY LenProperties, MaxEventsAssumption
<1>2. after \in Nat
  BY <1>1
<1>3. Gone \in Nat
  BY <1>1 DEF Gone
<1>4. Replay(after) \in SUBSET Seen
  BY ElementOfSeq, LenProperties DEF Replay
<1>5. \A i \in DOMAIN events : i > after /\ i > Gone => events[i] \in Replay(after)
  BY DEF Replay
<1>6. QED
  BY <1>2, <1>3, <1>4, <1>5

\* The first elements of a sequence, and the others.
LEMMA Split ==
  ASSUME NEW S, NEW q \in Seq(S), NEW k \in 0 .. Len(q)
  PROVE  /\ LET s == SubSeq(q, 1, k) IN
            /\ s \in Seq(S) /\ Len(s) = k /\ DOMAIN s = 1 .. k
            /\ \A i \in DOMAIN s : i \in DOMAIN q /\ s[i] = q[i]
         /\ LET t == SubSeq(q, k + 1, Len(q)) IN
            /\ t \in Seq(S) /\ Len(t) = Len(q) - k
            /\ \A i \in DOMAIN t : k + i \in DOMAIN q /\ t[i] = q[k + i]
<1> DEFINE n == Len(q)
           s == SubSeq(q, 1, k)
           t == SubSeq(q, k + 1, n)
<1>1. n \in Nat /\ k \in Int /\ k >= 0 /\ k <= n /\ DOMAIN q = 1 .. n /\ \A i \in 1 .. n : q[i] \in S
  BY LenProperties, ElementOfSeq
<1>2. /\ s \in Seq(S) /\ Len(s) = (IF 1 <= k THEN k - 1 + 1 ELSE 0)
      /\ \A i \in 1 .. k - 1 + 1 : s[i] = q[1 + i - 1]
  <2>1. 1 \in Int /\ \A i \in 1 .. k : q[i] \in S
    BY <1>1
  <2>2. QED
    BY <1>1, <2>1, SubSeqProperties
<1>3. /\ t \in Seq(S) /\ Len(t) = (IF k + 1 <= n THEN n - (k + 1) + 1 ELSE 0)
      /\ \A i \in 1 .. n - (k + 1) + 1 : t[i] = q[k + 1 + i - 1]
  <2>1. n \in Int /\ k + 1 \in Int /\ \A i \in k + 1 .. n : q[i] \in S
    BY <1>1
  <2>2. QED
    BY <2>1, SubSeqProperties
<1>4. DOMAIN s = 1 .. Len(s) /\ DOMAIN t = 1 .. Len(t)
  BY <1>2, <1>3, LenProperties
<1> HIDE DEF n, s, t
<1>5. Len(s) = k /\ \A i \in 1 .. k : i \in DOMAIN q /\ s[i] = q[i]
  BY <1>1, <1>2
<1>6. Len(t) = n - k /\ \A i \in 1 .. n - k : k + i \in DOMAIN q /\ t[i] = q[k + i]
  BY <1>1, <1>3
<1>7. QED
  BY <1>2, <1>3, <1>4, <1>5, <1>6 DEF n, s, t

\* A dying worker leaves a prefix of what it has sent.
LEMMA Dies ==
  ASSUME ShapeInv, NEW n \in Jobs, Die(n)
  PROVE  /\ worker' = [worker EXCEPT ![n] = "dead"]
         /\ worker' \in [Jobs -> {"none", "begun", "working", "logged", "reported", "dead"}]
         /\ queue' \in [Jobs -> Seq(Sent)]
         /\ Len(queue'[n]) <= Len(queue[n])
         /\ \A i \in DOMAIN queue'[n] : i \in DOMAIN queue[n] /\ queue'[n][i] = queue[n][i]
         /\ \A m \in Jobs \ {n} : queue'[m] = queue[m]
<1> DEFINE q == queue[n]
<1>1. q \in Seq(Sent) /\ queue \in [Jobs -> Seq(Sent)]
  BY DEF ShapeInv
<1>2. PICK k \in 0 .. Len(q) :
        /\ worker' = [worker EXCEPT ![n] = "dead"]
        /\ queue' = [queue EXCEPT ![n] = SubSeq(q, 1, k)]
  BY DEF Die
<1>3. /\ SubSeq(q, 1, k) \in Seq(Sent) /\ Len(SubSeq(q, 1, k)) = k
      /\ \A i \in DOMAIN SubSeq(q, 1, k) : i \in DOMAIN q /\ SubSeq(q, 1, k)[i] = q[i]
  BY <1>1, <1>2, Split
<1>4. k <= Len(q)
  BY <1>1, <1>2, LenProperties
<1>7. queue'[n] = SubSeq(q, 1, k) /\ \A m \in Jobs \ {n} : queue'[m] = queue[m]
  BY <1>1, <1>2
<1>8. worker' \in [Jobs -> {"none", "begun", "working", "logged", "reported", "dead"}]
  BY <1>2 DEF ShapeInv
<1>9. queue' \in [Jobs -> Seq(Sent)]
  BY <1>1, <1>2, <1>3
<1> HIDE DEF q
<1>10. QED
  BY <1>2, <1>3, <1>4, <1>7, <1>8, <1>9 DEF q

\* Who is still subscribed after a delivery was subscribed before it, and has
\* the event.
LEMMA Delivers ==
  ASSUME ShapeInv, NEW e \in Seen, NEW fresh \in BOOLEAN, Deliver(e, fresh)
  PROVE  /\ sub' \in [Subs -> [open : BOOLEAN, after : Nat, got : SUBSET Seen]]
         /\ \A s \in Subs : sub'[s].open =>
              /\ sub[s].open /\ sub'[s].after = sub[s].after
              /\ e \in sub'[s].got
              /\ ~fresh => sub[s].got \subseteq sub'[s].got
<1>1. PICK full \in SUBSET {s \in Subs : sub[s].open} :
        sub' = [s \in Subs |->
                  IF s \in full \/ ~sub[s].open THEN Closed
                  ELSE [sub[s] EXCEPT !.got = (IF fresh THEN {} ELSE @) \cup {e}]]
  BY DEF Deliver
<1>2. ASSUME NEW s \in Subs
      PROVE  /\ sub'[s] \in [open : BOOLEAN, after : Nat, got : SUBSET Seen]
             /\ sub'[s].open =>
                  /\ sub[s].open /\ sub'[s].after = sub[s].after
                  /\ e \in sub'[s].got
                  /\ ~fresh => sub[s].got \subseteq sub'[s].got
  <2>1. sub[s] \in [open : BOOLEAN, after : Nat, got : SUBSET Seen]
    BY DEF ShapeInv
  <2>2. CASE s \in full \/ ~sub[s].open
    BY <1>1, <2>2 DEF Closed
  <2>3. CASE ~(s \in full \/ ~sub[s].open)
    <3>1. sub'[s] = [sub[s] EXCEPT !.got = (IF fresh THEN {} ELSE sub[s].got) \cup {e}]
      BY <1>1, <2>3
    <3>2. QED
      BY <2>1, <2>3, <3>1
  <2>4. QED
    BY <2>2, <2>3
<1>3. QED
  BY <1>1, <1>2

\* An event emitted under the lock is appended to the stream, or is the first
\* of a new one, and delivered.
LEMMA Emits ==
  ASSUME ShapeInv, NEW type \in EventTypes, job' \in Jobs, EmitLocked(type)
  PROVE  \E e \in Seen :
           /\ e.type = type
           /\ events' = Append(IF job' = job THEN events ELSE <<>>, e)
           /\ events' \in Seq(Seen)
           /\ Deliver(e, job' # job /\ events # <<>>)
<1> DEFINE old == IF job' = job THEN events ELSE <<>>
           e   == Numbered([type |-> type, by |-> "manager", job |-> job'], Len(old) + 1)
<1>1. old \in Seq(Seen)
  BY Empty DEF ShapeInv
<1>2. Len(old) \in Nat
  BY <1>1, LenProperties
<1>3. e \in Seen /\ e.type = type
  BY <1>2 DEF Numbered, Seen
<1>4. events' = Append(old, e) /\ Deliver(e, old # events)
  BY DEF EmitLocked
<1>5. (old # events) = (job' # job /\ events # <<>>)
  OBVIOUS
<1>6. events' \in Seq(Seen)
  BY <1>1, <1>3, <1>4, AppendProperties
<1>7. Deliver(e, job' # job /\ events # <<>>)
  BY <1>4, <1>5 DEF Deliver
<1>8. QED
  BY <1>3, <1>4, <1>6, <1>7

\* The head and the rest of what a pump has in its hand.
LEMMA InItsHand ==
  ASSUME ShapeInv, NEW p \in Jobs, pump[p].batch # <<>>
  PROVE  LET b == pump[p].batch IN
         /\ Head(b) \in InHand /\ Head(b) = b[1] /\ 1 \in DOMAIN b
         /\ Tail(b) \in Seq(InHand) /\ Len(Tail(b)) = Len(b) - 1 /\ Len(b) \in Nat \ {0}
         /\ DOMAIN b = 1 .. Len(b)
         /\ Len(b) > 1 => Tail(b) # <<>>
         /\ \A i \in DOMAIN Tail(b) : i + 1 \in DOMAIN b /\ Tail(b)[i] = b[i + 1]
<1> DEFINE b == pump[p].batch
<1>1. b \in Seq(InHand) /\ b # <<>>
  BY DEF ShapeInv, PumpStates
<1>2. /\ Head(b) \in InHand /\ Tail(b) \in Seq(InHand) /\ Len(Tail(b)) = Len(b) - 1
      /\ \A i \in 1 .. Len(Tail(b)) : Tail(b)[i] = b[i + 1]
  BY <1>1, HeadTailProperties
<1>3. Len(b) \in Nat \ {0} /\ DOMAIN b = 1 .. Len(b) /\ DOMAIN Tail(b) = 1 .. Len(Tail(b))
  BY <1>1, <1>2, EmptySeq, LenProperties
<1>4. Head(b) = b[1]
  BY <1>1
<1>5. Len(b) > 1 => Tail(b) # <<>>
  <2> DEFINE n == Len(b)
             m == Len(Tail(b))
  <2>1. n \in Nat /\ m = n - 1
    BY <1>2, <1>3
  <2> HIDE DEF n, m
  <2>2. n > 1 => m # 0
    BY <2>1
  <2>3. QED
    BY <2>2, NotEmpty DEF n, m
<1>6. QED
  BY <1>2, <1>3, <1>4, <1>5

\* A pump between two turns of its loop has nothing in its hand.
LEMMA AtRest ==
  ASSUME NEW pc \in PumpPlaces
  PROVE  LET t == [Idle EXCEPT !.pc = pc] IN
         t \in PumpStates /\ t.pc = pc /\ t.batch = <<>> /\ ~t.last
<1>1. Idle \in PumpStates /\ Idle.batch = <<>> /\ ~Idle.last
  BY Empty, Basics DEF PumpStates, PumpPlaces, Idle
<1>2. QED
  BY <1>1 DEF PumpStates

\* A turn of the loop ends with nothing in hand.
LEMMA Turns ==
  ASSUME ShapeInv, NEW p \in Jobs, NEW pc \in PumpPlaces, Turn(p, pc)
  PROVE  /\ pump' \in [Jobs -> PumpStates]
         /\ \A q \in Jobs \ {p} : pump'[q] = pump[q]
         /\ pump'[p].pc = pc /\ pump'[p].batch = <<>> /\ ~pump'[p].last
<1> DEFINE t == [Idle EXCEPT !.pc = pc]
<1>1. pump \in [Jobs -> PumpStates] /\ pump' = [pump EXCEPT ![p] = t]
  BY DEF ShapeInv, Turn
<1>2. t \in PumpStates /\ t.pc = pc /\ t.batch = <<>> /\ ~t.last
  BY AtRest
<1>3. QED
  BY <1>1, <1>2

\* A pump that goes on keeps what it has in its hand.
LEMMA Moves ==
  ASSUME ShapeInv, NEW p \in Jobs, NEW pc \in PumpPlaces, Goto(p, pc)
  PROVE  /\ pump' \in [Jobs -> PumpStates]
         /\ \A q \in Jobs \ {p} : pump'[q] = pump[q]
         /\ pump'[p].pc = pc /\ pump'[p].batch = pump[p].batch /\ pump'[p].job = pump[p].job
         /\ pump'[p].from = pump[p].from /\ pump'[p].last = pump[p].last
BY DEF ShapeInv, Goto, PumpStates

\* A pump that is done with an event goes to its next one, or on without any.
LEMMA GoesOn ==
  ASSUME ShapeInv, NEW p \in Jobs, pump[p].batch # <<>>, Done(p)
  PROVE  /\ pump' \in [Jobs -> PumpStates]
         /\ \A q \in Jobs \ {p} : pump'[q] = pump[q]
         /\ \/ /\ pump'[p].pc = "handle" /\ pump'[p].batch = Tail(pump[p].batch)
               /\ pump'[p].batch # <<>> /\ pump'[p].job = pump[p].job
               /\ pump'[p].from = pump[p].from /\ pump'[p].last = pump[p].last
            \/ /\ pump'[p].pc = IF pump[p].last THEN "final" ELSE "top"
               /\ pump'[p].batch = <<>> /\ ~pump'[p].last
<1>1. pump \in [Jobs -> PumpStates] /\ pump[p] \in PumpStates
  BY DEF ShapeInv
<1>2. Tail(pump[p].batch) \in Seq(InHand) /\ (Len(pump[p].batch) > 1 => Tail(pump[p].batch) # <<>>)
  BY InItsHand
<1>3. CASE Len(pump[p].batch) > 1
  <2> DEFINE t == [pump[p] EXCEPT !.pc = "handle", !.batch = Tail(@)]
  <2>1. t \in PumpStates /\ t.pc = "handle" /\ t.batch = Tail(pump[p].batch)
        /\ t.job = pump[p].job /\ t.from = pump[p].from /\ t.last = pump[p].last
    BY <1>1, <1>2 DEF PumpStates, PumpPlaces
  <2>2. pump' = [pump EXCEPT ![p] = t]
    BY <1>3 DEF Done
  <2>3. pump'[p] = t /\ \A q \in Jobs \ {p} : pump'[q] = pump[q]
    BY <1>1, <2>2
  <2>4. pump' \in [Jobs -> PumpStates]
    BY <1>1, <2>1, <2>2
  <2>5. QED
    BY <1>2, <1>3, <2>1, <2>3, <2>4
<1>4. CASE ~(Len(pump[p].batch) > 1)
  <2> DEFINE pc == IF pump[p].last THEN "final" ELSE "top"
  <2>1. Turn(p, pc) /\ pc \in PumpPlaces
    BY <1>4 DEF Done, PumpPlaces
  <2>2. QED
    BY <2>1, Turns
<1>5. QED
  BY <1>3, <1>4

\* One event, as a batch.
LEMMA Single ==
  ASSUME NEW e \in InHand
  PROVE  /\ <<e>> \in Seq(InHand) /\ <<e>> # <<>> /\ Len(<<e>>) = 1
         /\ \A i \in DOMAIN <<e>> : <<e>>[i] = e
OBVIOUS

\* What is in the queue of a worker.
LEMMA InItsQueue ==
  ASSUME ShapeInv, NEW n \in Jobs
  PROVE  LET q == queue[n] IN
         /\ q \in Seq(Sent) /\ Len(q) \in Nat /\ DOMAIN q = 1 .. Len(q)
         /\ \A i \in DOMAIN q : q[i] \in Sent /\ q[i] \in InHand
         /\ q # <<>> => /\ Head(q) = q[1] /\ 1 \in DOMAIN q /\ Head(q) \in InHand
                        /\ Tail(q) \in Seq(Sent) /\ Len(Tail(q)) = Len(q) - 1
                        /\ \A i \in DOMAIN Tail(q) : i + 1 \in DOMAIN q /\ Tail(q)[i] = q[i + 1]
<1> DEFINE q == queue[n]
<1>1. q \in Seq(Sent)
  BY DEF ShapeInv
<1>2. Len(q) \in Nat /\ DOMAIN q = 1 .. Len(q) /\ \A i \in DOMAIN q : q[i] \in Sent
  BY <1>1, LenProperties, ElementOfSeq
<1>3. \A i \in DOMAIN q : q[i] \in InHand
  BY <1>2, Basics
<1>4. ASSUME q # <<>>
      PROVE  /\ Head(q) = q[1] /\ 1 \in DOMAIN q
             /\ Tail(q) \in Seq(Sent) /\ Len(Tail(q)) = Len(q) - 1
             /\ \A i \in DOMAIN Tail(q) : i + 1 \in DOMAIN q /\ Tail(q)[i] = q[i + 1]
  <2>1. /\ Tail(q) \in Seq(Sent) /\ Len(Tail(q)) = Len(q) - 1
        /\ \A i \in 1 .. Len(Tail(q)) : Tail(q)[i] = q[i + 1]
    BY <1>1, <1>4, HeadTailProperties
  <2>2. DOMAIN Tail(q) = 1 .. Len(Tail(q))
    BY <2>1, LenProperties
  <2>3. Len(q) # 0 /\ Head(q) = q[1]
    BY <1>1, <1>4, EmptySeq
  <2>4. QED
    BY <1>2, <2>1, <2>2, <2>3
<1>5. QED
  BY <1>1, <1>2, <1>3, <1>4

\* A pump reads the oldest event of the queue it looks at.
LEMMA Reads ==
  ASSUME ShapeInv, NEW p \in Jobs, pump[p].from \in Jobs, ReadEvent(p)
  PROVE  LET f == pump[p].from IN
         /\ queue[f] # <<>>
         /\ queue' \in [Jobs -> Seq(Sent)] /\ queue'[f] = Tail(queue[f])
         /\ \A m \in Jobs \ {f} : queue'[m] = queue[m]
         /\ pump' \in [Jobs -> PumpStates]
         /\ \A q \in Jobs \ {p} : pump'[q] = pump[q]
         /\ pump'[p].pc = "handle" /\ pump'[p].batch = <<Head(queue[f])>>
         /\ pump'[p].job = pump[p].job /\ pump'[p].from = f /\ pump'[p].last = pump[p].last
<1> DEFINE f == pump[p].from
           t == [pump[p] EXCEPT !.pc = "handle", !.batch = <<Head(queue[f])>>]
<1>1. queue[f] # <<>> /\ pump' = [pump EXCEPT ![p] = t]
      /\ queue' = [queue EXCEPT ![f] = Tail(queue[f])]
  BY DEF ReadEvent
<1>2. Head(queue[f]) \in InHand /\ Tail(queue[f]) \in Seq(Sent)
  BY <1>1, InItsQueue
<1>3. <<Head(queue[f])>> \in Seq(InHand)
  BY <1>2, Single
<1>4. pump[p] \in PumpStates /\ pump \in [Jobs -> PumpStates] /\ queue \in [Jobs -> Seq(Sent)]
  BY DEF ShapeInv
<1>5. t \in PumpStates /\ t.pc = "handle" /\ t.batch = <<Head(queue[f])>>
      /\ t.job = pump[p].job /\ t.from = f /\ t.last = pump[p].last
  BY <1>3, <1>4 DEF PumpStates, PumpPlaces
<1> HIDE DEF t
<1>6. pump' \in [Jobs -> PumpStates] /\ pump'[p] = t /\ \A q \in Jobs \ {p} : pump'[q] = pump[q]
  BY <1>1, <1>4, <1>5
<1>7. /\ queue' \in [Jobs -> Seq(Sent)] /\ queue'[f] = Tail(queue[f])
      /\ \A m \in Jobs \ {f} : queue'[m] = queue[m]
  BY <1>1, <1>2, <1>4
<1>8. QED
  BY <1>1, <1>5, <1>6, <1>7

\* A pump whose worker has exited takes what it can of the queue.
LEMMA Drains ==
  ASSUME ShapeInv, NEW p \in Jobs, pump[p].from \in Jobs, Drain(p)
  PROVE  LET f == pump[p].from IN
         /\ queue' \in [Jobs -> Seq(Sent)] /\ Len(queue'[f]) <= Len(queue[f])
         /\ \A m \in Jobs \ {f} : queue'[m] = queue[m]
         /\ \A i \in DOMAIN queue'[f] : \E j \in DOMAIN queue[f] : queue'[f][i] = queue[f][j]
         /\ pump' \in [Jobs -> PumpStates]
         /\ \A q \in Jobs \ {p} : pump'[q] = pump[q]
         /\ \/ /\ pump'[p].pc = "handle" /\ pump'[p].batch # <<>>
               /\ Len(pump'[p].batch) <= Len(queue[f])
               /\ \A i \in DOMAIN pump'[p].batch :
                    i \in DOMAIN queue[f] /\ pump'[p].batch[i] = queue[f][i]
               /\ pump'[p].job = pump[p].job /\ pump'[p].from = f
            \/ pump'[p].pc = "final" /\ pump'[p].batch = <<>> /\ ~pump'[p].last
         /\ \/ faults' \in {faults, faults + 1} /\ faults' <= MaxFaults
            \/ faults' = faults
<1> DEFINE f == pump[p].from
           q == queue[f]
<1>1. /\ q \in Seq(Sent) /\ Len(q) \in Nat /\ DOMAIN q = 1 .. Len(q)
      /\ \A i \in DOMAIN q : q[i] \in Sent /\ q[i] \in InHand
  BY InItsQueue
<1>2. PICK k \in 0 .. Len(q) :
        /\ IF k = Len(q) THEN UNCHANGED faults ELSE Disturb
        /\ IF k = 0 THEN Turn(p, "final")
           ELSE pump' = [pump EXCEPT ![p] =
                   [@ EXCEPT !.pc = "handle", !.batch = SubSeq(q, 1, k), !.last = TRUE]]
        /\ queue' = [queue EXCEPT ![f] = SubSeq(q, k + 1, Len(q))]
  BY DEF Drain
<1>3. pump[p] \in PumpStates /\ pump \in [Jobs -> PumpStates] /\ queue \in [Jobs -> Seq(Sent)]
  BY DEF ShapeInv
<1> HIDE DEF f, q
<1>4. /\ SubSeq(q, k + 1, Len(q)) \in Seq(Sent)
      /\ Len(SubSeq(q, k + 1, Len(q))) <= Len(q)
      /\ \A i \in DOMAIN SubSeq(q, k + 1, Len(q)) :
           \E j \in DOMAIN q : SubSeq(q, k + 1, Len(q))[i] = q[j]
  <2>1. LET t == SubSeq(q, k + 1, Len(q)) IN
        /\ t \in Seq(Sent) /\ Len(t) = Len(q) - k
        /\ \A i \in DOMAIN t : k + i \in DOMAIN q /\ t[i] = q[k + i]
    BY <1>1, Split
  <2> DEFINE t == SubSeq(q, k + 1, Len(q))
             n == Len(q)
  <2>2. /\ t \in Seq(Sent) /\ Len(t) = n - k /\ n \in Nat /\ k \in 0 .. n
        /\ \A i \in DOMAIN t : \E j \in DOMAIN q : t[i] = q[j]
    BY <1>1, <2>1
  <2> HIDE DEF t, n
  <2>3. Len(t) <= n
    BY <2>2
  <2>4. QED
    BY <2>2, <2>3 DEF t, n
<1>5. /\ SubSeq(q, 1, k) \in Seq(Sent) /\ Len(SubSeq(q, 1, k)) = k /\ k <= Len(q)
      /\ \A i \in DOMAIN SubSeq(q, 1, k) : i \in DOMAIN q /\ SubSeq(q, 1, k)[i] = q[i]
      /\ SubSeq(q, 1, k) \in Seq(InHand)
  <2>1. LET s == SubSeq(q, 1, k) IN
        /\ s \in Seq(Sent) /\ Len(s) = k
        /\ \A i \in DOMAIN s : i \in DOMAIN q /\ s[i] = q[i]
    BY <1>1, Split
  <2>2. SubSeq(q, 1, k) \in Seq(InHand)
    BY <2>1, Basics, SeqMonotonic
  <2>3. QED
    BY <1>1, <2>1, <2>2
<1>6. /\ queue' \in [Jobs -> Seq(Sent)] /\ queue'[f] = SubSeq(q, k + 1, Len(q))
      /\ \A m \in Jobs \ {f} : queue'[m] = queue[m]
  BY <1>2, <1>3, <1>4 DEF f
<1>7. /\ pump' \in [Jobs -> PumpStates]
      /\ \A r \in Jobs \ {p} : pump'[r] = pump[r]
      /\ \/ /\ pump'[p].pc = "handle" /\ pump'[p].batch # <<>>
            /\ pump'[p].batch = SubSeq(q, 1, k)
            /\ pump'[p].job = pump[p].job /\ pump'[p].from = f
         \/ pump'[p].pc = "final" /\ pump'[p].batch = <<>> /\ ~pump'[p].last
  <2>1. CASE k = 0
    <3>1. Turn(p, "final")
      BY <1>2, <2>1
    <3>2. QED
      BY <3>1, Turns DEF PumpPlaces
  <2>2. CASE k # 0
    <3> DEFINE t == [pump[p] EXCEPT !.pc = "handle", !.batch = SubSeq(q, 1, k), !.last = TRUE]
    <3>1. /\ t \in PumpStates /\ t.pc = "handle" /\ t.batch = SubSeq(q, 1, k)
          /\ t.job = pump[p].job /\ t.from = f
      BY <1>3, <1>5 DEF PumpStates, PumpPlaces, f
    <3>2. pump' = [pump EXCEPT ![p] = t]
      BY <1>2, <2>2
    <3> HIDE DEF t
    <3>3. pump' \in [Jobs -> PumpStates] /\ pump'[p] = t /\ \A r \in Jobs \ {p} : pump'[r] = pump[r]
      BY <1>3, <3>1, <3>2
    <3>4. SubSeq(q, 1, k) # <<>>
      BY <1>5, <2>2, NotEmpty
    <3>5. QED
      BY <3>1, <3>3, <3>4
  <2>3. QED
    BY <2>1, <2>2
<1>8. /\ pump'[p].pc = "handle" => Len(pump'[p].batch) <= Len(q)
      /\ \A i \in DOMAIN pump'[p].batch : pump'[p].pc = "handle" =>
           i \in DOMAIN q /\ pump'[p].batch[i] = q[i]
  <2> DEFINE c == SubSeq(q, 1, k)
  <2>1. /\ Len(c) = k /\ k <= Len(q)
        /\ \A i \in DOMAIN c : i \in DOMAIN q /\ c[i] = q[i]
    BY <1>5
  <2>2. pump'[p].pc = "handle" => pump'[p].batch = c
    BY <1>7
  <2> HIDE DEF c
  <2>3. QED
    BY <2>1, <2>2
<1>9. (faults' \in {faults, faults + 1} /\ faults' <= MaxFaults) \/ faults' = faults
  BY <1>2, Basics DEF Disturb, ShapeInv
<1> DEFINE u == queue'[f]
<1>10. /\ u \in Seq(Sent) /\ Len(u) <= Len(q)
       /\ \A i \in DOMAIN u : \E j \in DOMAIN q : u[i] = q[j]
  BY <1>4, <1>6
<1> HIDE DEF u
<1>11. QED
  BY <1>6, <1>7, <1>8, <1>9, <1>10 DEF f, q, u

\* A pump numbers the event in its hand and appends it to the stream.
LEMMA Appends ==
  ASSUME ShapeInv, NEW p \in Jobs, pump[p].batch # <<>>, AppendEvent(p)
  PROVE  /\ events' \in Seq(Seen) /\ Len(events') = Len(events) + 1 /\ Len(events) \in Nat
         /\ DOMAIN events = 1 .. Len(events) /\ DOMAIN events' = 1 .. Len(events) + 1
         /\ \A i \in DOMAIN events : events'[i] = events[i]
         /\ LET e == events'[Len(events) + 1] IN
            /\ e.type = Head(pump[p].batch).type /\ e.by = "worker"
            /\ Head(pump'[p].batch) = e
         /\ pump' \in [Jobs -> PumpStates]
         /\ \A q \in Jobs \ {p} : pump'[q] = pump[q]
         /\ pump'[p].pc = "deliver" /\ pump'[p].job = pump[p].job
         /\ pump'[p].from = pump[p].from /\ pump'[p].last = pump[p].last
         /\ pump'[p].batch # <<>> /\ Len(pump'[p].batch) = Len(pump[p].batch)
         /\ \A i \in DOMAIN pump'[p].batch :
              i \in DOMAIN pump[p].batch /\ pump'[p].batch[i].type = pump[p].batch[i].type
<1> DEFINE b == pump[p].batch
           n == Len(events) + 1
           e == Numbered(Head(b), n)
           c == [b EXCEPT ![1] = e]
<1>1. /\ events \in Seq(Seen) /\ Len(events) \in Nat /\ DOMAIN events = 1 .. Len(events)
  BY LenProperties DEF ShapeInv
<1>2. Head(b) \in InHand /\ Head(b) = b[1] /\ Len(b) \in Nat \ {0} /\ DOMAIN b = 1 .. Len(b)
  BY InItsHand
<1>3. e \in InHand /\ e \in Seen /\ e.type = Head(b).type /\ e.by = "worker"
  <2>1. n \in Nat \ {0}
    BY <1>1
  <2>2. QED
    BY <1>2, <2>1, Basics DEF Numbered
<1>4. events' = Append(events, e)
  BY DEF AppendEvent
<1>5. /\ events' \in Seq(Seen) /\ Len(events') = n /\ events'[n] = e
      /\ \A i \in DOMAIN events : events'[i] = events[i]
  BY <1>1, <1>3, <1>4, AppendProperties
<1>6. DOMAIN events' = 1 .. n
  BY <1>5, LenProperties
<1>7. pump[p] \in PumpStates /\ pump \in [Jobs -> PumpStates] /\ b \in Seq(InHand)
  BY DEF ShapeInv, PumpStates
<1> DEFINE t == [pump[p] EXCEPT !.pc = "deliver", !.batch[1] = e]
<1>8. pump' = [pump EXCEPT ![p] = t]
  BY <1>5 DEF AppendEvent
<1>9. /\ c \in Seq(InHand) /\ Len(c) = Len(b)
      /\ \A i \in 1 .. Len(b) : c[i] = IF i = 1 THEN e ELSE b[i]
  BY <1>2, <1>3, <1>7, ExceptSeq
<1>10. /\ DOMAIN c = 1 .. Len(b) /\ c # <<>> /\ Head(c) = e
  BY <1>2, <1>9, LenProperties, NotEmpty
<1>11. t.batch = c /\ t.pc = "deliver" /\ t.job = pump[p].job /\ t.from = pump[p].from
       /\ t.last = pump[p].last
  BY <1>7 DEF PumpStates
<1>12. t \in PumpStates
  <2>1. t = [pump[p] EXCEPT !.pc = "deliver", !.batch = c]
    BY <1>7 DEF PumpStates
  <2> HIDE DEF c
  <2>2. QED
    BY <1>7, <1>9, <2>1 DEF PumpStates, PumpPlaces
<1> HIDE DEF t
<1>13. pump' \in [Jobs -> PumpStates] /\ pump'[p] = t /\ \A q \in Jobs \ {p} : pump'[q] = pump[q]
  BY <1>7, <1>8, <1>12
<1> HIDE DEF c, e
<1>14. \A i \in DOMAIN c : i \in DOMAIN b /\ c[i].type = b[i].type
  BY <1>2, <1>3, <1>9, <1>10
<1>15. QED
  BY <1>1, <1>3, <1>5, <1>6, <1>9, <1>10, <1>11, <1>13, <1>14

-----------------------------------------------------------------------------
(* The shape of the state.                                                  *)

\* Pumps that hold an event read some worker's queue.
LEMMA FromSomewhere ==
  ASSUME ShapeInv, RoomInv, LifeInv, PumpInv, NEW p \in Jobs
  PROVE  /\ pump[p].pc \in {"read", "look", "handle", "emit", "deliver"} =>
              /\ pump[p].from \in Jobs /\ pump[p].job \in Jobs
              /\ p <= pump[p].from /\ pump[p].from <= handle /\ pump[p].job <= job
         /\ pump[p].pc \in {"handle", "emit", "deliver"} => pump[p].batch # <<>>
         /\ pump[p].pc = "deliver" => Head(pump[p].batch) \in Seen
         /\ pump[p].pc # "off" => job \in Jobs /\ handle \in Jobs /\ p <= handle
<1>1. /\ MaxJobs \in Nat /\ job \in 0 .. MaxJobs /\ handle \in 0 .. MaxJobs /\ handle <= job
      /\ p \in 1 .. MaxJobs
  BY Basics DEF ShapeInv, LifeInv, Jobs
<1>2. pump[p].pc \in {"read", "look", "handle", "emit", "deliver"} =>
        pump[p].from \in p .. handle /\ pump[p].job \in 1 .. job
  BY DEF PumpInv
<1>3. pump[p].pc \in {"read", "look", "handle", "emit", "deliver"} =>
        /\ pump[p].from \in Jobs /\ pump[p].job \in Jobs
        /\ p <= pump[p].from /\ pump[p].from <= handle /\ pump[p].job <= job
  BY <1>1, <1>2 DEF Jobs
<1>4. /\ pump[p].pc \in {"handle", "emit", "deliver"} => pump[p].batch # <<>>
      /\ pump[p].pc = "deliver" => Head(pump[p].batch) \in Seen
  BY DEF PumpInv, RoomInv
<1>5. pump[p].pc # "off" => p <= handle
  BY DEF LifeInv
<1>6. pump[p].pc # "off" => job \in Jobs /\ handle \in Jobs
  BY <1>1, <1>5 DEF Jobs
<1>7. QED
  BY <1>3, <1>4, <1>5, <1>6

\* The last look of a pump ends a job that runs and revokes its key.
LEMMA Finalizes ==
  ASSUME ShapeInv, RoomInv, LifeInv, PumpInv, NEW p \in Jobs, Finalize(p)
  PROVE  /\ job \in Jobs /\ job' = job
         /\ \/ /\ status[job] \in Running
               /\ status' = [status EXCEPT ![job] = EndStatus(status[job])]
               /\ key' = [key EXCEPT ![job] = "revoked"]
               /\ \E e \in Seen : /\ e.type = EndStatus(status[job])
                                  /\ events' = Append(events, e) /\ events' \in Seq(Seen)
                                  /\ Deliver(e, FALSE)
            \/ status[job] \notin Running /\ UNCHANGED <<status, key, events, sub>>
<1>1. job \in Jobs /\ job' = job
  BY FromSomewhere DEF Finalize
<1>2. CASE status[job] \in Running
  <2>1. EndStatus(status[job]) \in EventTypes
    BY DEF EndStatus, EventTypes, Terminal
  <2>2. /\ status' = [status EXCEPT ![job] = EndStatus(status[job])]
        /\ EmitLocked(EndStatus(status[job])) /\ key' = [key EXCEPT ![job] = "revoked"]
    BY <1>2 DEF Finalize, Retired
  <2>3. PICK e \in Seen :
          /\ e.type = EndStatus(status[job])
          /\ events' = Append(IF job' = job THEN events ELSE <<>>, e)
          /\ events' \in Seq(Seen)
          /\ Deliver(e, job' # job /\ events # <<>>)
    BY <1>1, <2>1, <2>2, Emits
  <2>4. events' = Append(events, e) /\ Deliver(e, FALSE)
    BY <1>1, <2>3 DEF Deliver
  <2>5. QED
    BY <1>1, <1>2, <2>2, <2>3, <2>4
<1>3. CASE status[job] \notin Running
  BY <1>1, <1>3 DEF Finalize
<1>4. QED
  BY <1>2, <1>3

\* No step gives anything another shape.
LEMMA ShapeStep ==
  ASSUME ShapeInv, RoomInv, LifeInv, PumpInv, [Next]_vars
  PROVE  ShapeInv'
<1> USE DEF jobVars, workVars, history
<1>1. CASE UNCHANGED vars
  BY <1>1 DEF ShapeInv, vars
<1>2. ASSUME NEW n \in Jobs, Refuse(n) PROVE ShapeInv'
  BY <1>2 DEF ShapeInv, Refuse
<1>3. ASSUME NEW n \in Jobs, Start(n) PROVE ShapeInv'
  <2>1. PICK e \in Seen : events' \in Seq(Seen) /\ Deliver(e, job' # job /\ events # <<>>)
    BY <1>3, Emits DEF Start, EventTypes
  <2>2. sub' \in [Subs -> [open : BOOLEAN, after : Nat, got : SUBSET Seen]]
    BY <2>1, Delivers
  <2>3. pump' \in [Jobs -> PumpStates]
    BY <1>3 DEF Start, ShapeInv, PumpStates, PumpPlaces
  <2>4. job' \in 0 .. MaxJobs /\ handle' \in 0 .. MaxJobs /\ alone' \subseteq Jobs
    BY <1>3, Basics DEF Start, ShapeInv, Jobs
  <2>5. QED
    BY <1>3, <2>1, <2>2, <2>3, <2>4 DEF Start, ShapeInv, Running
<1>4. ASSUME NEW n \in Jobs, SpawnFails(n) PROVE ShapeInv'
  <2>1. faults' \in 0 .. MaxFaults /\ job' \in 0 .. MaxJobs /\ events' \in Seq(Seen)
    BY <1>4, Basics, Empty DEF SpawnFails, Disturb, ShapeInv, Jobs
  <2>2. QED
    BY <1>4, <2>1 DEF SpawnFails, ShapeInv, Running
<1>5. ASSUME NEW n \in Jobs, Cancel(n) PROVE ShapeInv'
  <2>1. handle \in Jobs /\ job' = n /\ job = n
    BY <1>5, Basics DEF Cancel, Alive, ShapeInv
  <2>2. PICK e \in Seen : events' \in Seq(Seen) /\ Deliver(e, job' # job /\ events # <<>>)
    BY <1>5, <2>1, Emits DEF Cancel, EventTypes
  <2>3. sub' \in [Subs -> [open : BOOLEAN, after : Nat, got : SUBSET Seen]]
    BY <2>2, Delivers
  <2>4. /\ worker' \in [Jobs -> {"none", "begun", "working", "logged", "reported", "dead"}]
        /\ queue' \in [Jobs -> Seq(Sent)]
    BY <1>5, <2>1, Dies DEF Cancel
  <2>5. faults' \in 0 .. MaxFaults
    BY <1>5, Basics DEF Cancel, Disturb, ShapeInv
  <2>6. QED
    BY <1>5, <2>2, <2>3, <2>4, <2>5 DEF Cancel, ShapeInv, Running
<1>6. ASSUME NEW n \in Jobs, Work(n) PROVE ShapeInv'
  <2>1. ASSUME NEW type \in Reports, Put(n, type) PROVE queue' \in [Jobs -> Seq(Sent)]
    <3>1. [type |-> type, by |-> "worker", job |-> n] \in Sent /\ queue[n] \in Seq(Sent)
      BY <2>1 DEF Sent, ShapeInv
    <3>2. Append(queue[n], [type |-> type, by |-> "worker", job |-> n]) \in Seq(Sent)
      BY <3>1, AppendProperties
    <3>3. QED
      BY <2>1, <3>2 DEF Put, ShapeInv
  <2>2. queue' \in [Jobs -> Seq(Sent)]
    BY <1>6, <2>1 DEF Work, Reports
  <2>3. worker' \in [Jobs -> {"none", "begun", "working", "logged", "reported", "dead"}]
    BY <1>6 DEF Work, ShapeInv
  <2>4. QED
    BY <1>6, <2>2, <2>3 DEF Work, ShapeInv
<1>7. ASSUME NEW n \in Jobs, Exit(n) PROVE ShapeInv'
  BY <1>7 DEF ShapeInv, Exit
<1>8. ASSUME NEW n \in Jobs, Crash(n) PROVE ShapeInv'
  <2>1. /\ worker' \in [Jobs -> {"none", "begun", "working", "logged", "reported", "dead"}]
        /\ queue' \in [Jobs -> Seq(Sent)]
    BY <1>8, Dies DEF Crash
  <2>2. faults' \in 0 .. MaxFaults
    BY <1>8, Basics DEF Crash, Disturb, ShapeInv
  <2>3. QED
    BY <1>8, <2>1, <2>2 DEF Crash, ShapeInv
<1>9. ASSUME NEW p \in Jobs, Snapshot(p) PROVE ShapeInv'
  <2>1. pump' \in [Jobs -> PumpStates]
    BY <1>9 DEF Snapshot, ShapeInv, PumpStates, PumpPlaces
  <2>2. QED
    BY <1>9, <2>1 DEF Snapshot, ShapeInv
<1>10. ASSUME NEW p \in Jobs, ReadEvent(p) PROVE ShapeInv'
  <2>1. pump' \in [Jobs -> PumpStates] /\ queue' \in [Jobs -> Seq(Sent)]
    BY <1>10, FromSomewhere, Reads DEF ReadEvent
  <2>2. QED
    BY <1>10, <2>1 DEF ReadEvent, ShapeInv
<1>11. ASSUME NEW p \in Jobs, ReadNothing(p) PROVE ShapeInv'
  <2>1. pump' \in [Jobs -> PumpStates]
    BY <1>11, Moves DEF ReadNothing, PumpPlaces
  <2>2. QED
    BY <1>11, <2>1 DEF ReadNothing, ShapeInv
<1>12. ASSUME NEW p \in Jobs, LookAlive(p) PROVE ShapeInv'
  <2>1. pump' \in [Jobs -> PumpStates]
    BY <1>12, Turns DEF LookAlive, PumpPlaces
  <2>2. QED
    BY <1>12, <2>1 DEF LookAlive, ShapeInv
<1>13. ASSUME NEW p \in Jobs, Drain(p) PROVE ShapeInv'
  <2>1. /\ pump' \in [Jobs -> PumpStates] /\ queue' \in [Jobs -> Seq(Sent)]
        /\ (faults' \in {faults, faults + 1} /\ faults' <= MaxFaults) \/ faults' = faults
    BY <1>13, FromSomewhere, Drains DEF Drain
  <2>2. faults' \in 0 .. MaxFaults
    BY <2>1, Basics DEF ShapeInv
  <2>3. QED
    BY <1>13, <2>1, <2>2 DEF Drain, ShapeInv
<1>14. ASSUME NEW p \in Jobs, SkipEvent(p) PROVE ShapeInv'
  <2>1. pump' \in [Jobs -> PumpStates]
    BY <1>14, FromSomewhere, GoesOn DEF SkipEvent
  <2>2. faults' \in 0 .. MaxFaults
    BY <1>14, Basics DEF SkipEvent, Disturb, ShapeInv
  <2>3. QED
    BY <1>14, <2>1, <2>2 DEF SkipEvent, ShapeInv
<1>15. ASSUME NEW p \in Jobs, HandleEvent(p) PROVE ShapeInv'
  <2>1. pump' \in [Jobs -> PumpStates]
    BY <1>15, Moves DEF HandleEvent, PumpPlaces
  <2>2. StatusAfter(Head(pump[p].batch).type, status[job]) \in {"created"} \cup Running \cup Terminal
    BY <1>15, FromSomewhere DEF HandleEvent, StatusAfter, ShapeInv, Running, Terminal
  <2>3. QED
    BY <1>15, <2>1, <2>2 DEF HandleEvent, ShapeInv
<1>16. ASSUME NEW p \in Jobs, AppendEvent(p) PROVE ShapeInv'
  <2>1. pump' \in [Jobs -> PumpStates] /\ events' \in Seq(Seen)
    BY <1>16, FromSomewhere, Appends DEF AppendEvent
  <2>2. key' \in [Jobs -> {"none", "valid", "revoked"}]
    BY <1>16 DEF AppendEvent, Retired, ShapeInv
  <2>3. QED
    BY <1>16, <2>1, <2>2 DEF AppendEvent, ShapeInv
<1>17. ASSUME NEW p \in Jobs, DeliverEvent(p) PROVE ShapeInv'
  <2>1. pump' \in [Jobs -> PumpStates]
    BY <1>17, FromSomewhere, GoesOn DEF DeliverEvent
  <2>2. sub' \in [Subs -> [open : BOOLEAN, after : Nat, got : SUBSET Seen]]
    <3>1. Head(pump[p].batch) \in Seen /\ Deliver(Head(pump[p].batch), FALSE)
      BY <1>17, FromSomewhere DEF DeliverEvent
    <3>2. QED
      BY <3>1, Delivers
  <2>3. QED
    BY <1>17, <2>1, <2>2 DEF DeliverEvent, ShapeInv
<1>18. ASSUME NEW p \in Jobs, Finalize(p) PROVE ShapeInv'
  <2>1. pump' \in [Jobs -> PumpStates]
    BY <1>18, Turns DEF Finalize, PumpPlaces
  <2>2. /\ events' \in Seq(Seen) /\ key' \in [Jobs -> {"none", "valid", "revoked"}]
        /\ status' \in [Jobs -> {"created"} \cup Running \cup Terminal]
        /\ sub' \in [Subs -> [open : BOOLEAN, after : Nat, got : SUBSET Seen]]
    <3>1. CASE status[job] \in Running
      <4>1. PICK e \in Seen : events' \in Seq(Seen) /\ Deliver(e, FALSE)
        BY <1>18, <3>1, Finalizes
      <4>2. sub' \in [Subs -> [open : BOOLEAN, after : Nat, got : SUBSET Seen]]
        BY <4>1, Delivers
      <4>3. EndStatus(status[job]) \in Terminal
        BY DEF EndStatus, Terminal
      <4>4. QED
        BY <1>18, <3>1, <4>1, <4>2, <4>3, Finalizes DEF ShapeInv
    <3>2. CASE status[job] \notin Running
      BY <1>18, <3>2 DEF Finalize, ShapeInv
    <3>3. QED
      BY <3>1, <3>2
  <2>3. QED
    BY <1>18, <2>1, <2>2 DEF Finalize, ShapeInv
<1>19. ASSUME NEW s \in Subs, NEW n \in Jobs, NEW after \in 0 .. Len(events),
              Subscribe(s, n, after)
       PROVE  ShapeInv'
  <2>1. after \in Nat /\ Gone \in Nat /\ Replay(after) \in SUBSET Seen
    BY Buffer DEF ShapeInv
  <2>2. QED
    BY <1>19, <2>1 DEF Subscribe, ShapeInv
<1>20. ASSUME NEW s \in Subs, Unsubscribe(s) PROVE ShapeInv'
  BY <1>20 DEF Unsubscribe, ShapeInv, Closed
<1>21. QED
  BY <1>1, <1>2, <1>3, <1>4, <1>5, <1>6, <1>7, <1>8, <1>9, <1>10, <1>11, <1>12, <1>13, <1>14,
     <1>15, <1>16, <1>17, <1>18, <1>19, <1>20
  DEF Next, PumpStep

-----------------------------------------------------------------------------
(* Queues and batches.                                                      *)

\* What a step of a pump leaves alone, and how far it takes the pump.
LEMMA PumpSteps ==
  ASSUME ShapeInv, RoomInv, LifeInv, PumpInv, NEW p \in Jobs, PumpStep(p)
  PROVE  /\ UNCHANGED <<request, job, handle, worker, asked, alone>>
         /\ pump[p].pc \notin {"off", "ended"} /\ pump'[p].pc # "off"
         /\ pump'[p].pc = "ended" <=> Finalize(p)
         /\ \A q \in Jobs \ {p} : pump'[q] = pump[q]
         /\ job \in Jobs /\ handle \in Jobs /\ p <= handle
<1> USE DEF jobVars, workVars, history
<1>1. ASSUME Snapshot(p)
      PROVE  /\ UNCHANGED <<request, job, handle, worker, asked, alone>>
             /\ pump[p].pc = "top" /\ pump'[p].pc = "read"
             /\ \A q \in Jobs \ {p} : pump'[q] = pump[q]
  BY <1>1 DEF Snapshot, ShapeInv, PumpStates
<1>2. ASSUME ReadEvent(p)
      PROVE  /\ UNCHANGED <<request, job, handle, worker, asked, alone>>
             /\ pump[p].pc = "read" /\ pump'[p].pc = "handle"
             /\ \A q \in Jobs \ {p} : pump'[q] = pump[q]
  BY <1>2, FromSomewhere, Reads DEF ReadEvent
<1>3. ASSUME ReadNothing(p)
      PROVE  /\ UNCHANGED <<request, job, handle, worker, asked, alone>>
             /\ pump[p].pc = "read" /\ pump'[p].pc = "look"
             /\ \A q \in Jobs \ {p} : pump'[q] = pump[q]
  BY <1>3, Moves DEF ReadNothing, PumpPlaces
<1>4. ASSUME LookAlive(p)
      PROVE  /\ UNCHANGED <<request, job, handle, worker, asked, alone>>
             /\ pump[p].pc = "look" /\ pump'[p].pc = "top"
             /\ \A q \in Jobs \ {p} : pump'[q] = pump[q]
  BY <1>4, Turns DEF LookAlive, PumpPlaces
<1>5. ASSUME Drain(p)
      PROVE  /\ UNCHANGED <<request, job, handle, worker, asked, alone>>
             /\ pump[p].pc = "look" /\ pump'[p].pc \in {"handle", "final"}
             /\ \A q \in Jobs \ {p} : pump'[q] = pump[q]
  BY <1>5, FromSomewhere, Drains DEF Drain
<1>6. ASSUME SkipEvent(p) \/ DeliverEvent(p)
      PROVE  /\ UNCHANGED <<request, job, handle, worker, asked, alone>>
             /\ pump[p].pc \in {"handle", "deliver"}
             /\ pump'[p].pc \in {"handle", "final", "top"}
             /\ \A q \in Jobs \ {p} : pump'[q] = pump[q]
  BY <1>6, FromSomewhere, GoesOn DEF SkipEvent, DeliverEvent
<1>7. ASSUME HandleEvent(p)
      PROVE  /\ UNCHANGED <<request, job, handle, worker, asked, alone>>
             /\ pump[p].pc = "handle" /\ pump'[p].pc = "emit"
             /\ \A q \in Jobs \ {p} : pump'[q] = pump[q]
  BY <1>7, Moves DEF HandleEvent, PumpPlaces
<1>8. ASSUME AppendEvent(p)
      PROVE  /\ UNCHANGED <<request, job, handle, worker, asked, alone>>
             /\ pump[p].pc = "emit" /\ pump'[p].pc = "deliver"
             /\ \A q \in Jobs \ {p} : pump'[q] = pump[q]
  BY <1>8, FromSomewhere, Appends DEF AppendEvent
<1>9. ASSUME Finalize(p)
      PROVE  /\ UNCHANGED <<request, job, handle, worker, asked, alone>>
             /\ pump[p].pc = "final" /\ pump'[p].pc = "ended"
             /\ \A q \in Jobs \ {p} : pump'[q] = pump[q]
  BY <1>9, Turns DEF Finalize, PumpPlaces
<1>10. /\ UNCHANGED <<request, job, handle, worker, asked, alone>>
       /\ pump[p].pc \notin {"off", "ended"} /\ pump'[p].pc # "off"
       /\ \A q \in Jobs \ {p} : pump'[q] = pump[q]
       /\ pump'[p].pc = "ended" <=> Finalize(p)
  BY <1>1, <1>2, <1>3, <1>4, <1>5, <1>6, <1>7, <1>8, <1>9 DEF PumpStep
<1>11. QED
  BY <1>10, FromSomewhere

\* How much a queue may hold depends on its worker only, and never goes down.
LEMMA Rooms ==
  ASSUME ShapeInv, NEW n \in Jobs
  PROVE  Room(n) \in 0 .. 3 /\ (worker'[n] = worker[n] => Room(n)' = Room(n))
         /\ (worker'[n] = "dead" => Room(n)' = 3)
BY DEF Room

\* The bounds on queues and batches are kept.
LEMMA RoomStep ==
  ASSUME ShapeInv, RoomInv, LifeInv, PumpInv, [Next]_vars, ShapeInv'
  PROVE  RoomInv'
<1> USE DEF jobVars, workVars, history
<1> DEFINE QueueRoom == \A n \in Jobs : Len(queue[n]) <= Room(n)
           HandRoom == \A p \in Jobs :
             /\ Len(pump[p].batch) <= 3
             /\ pump[p].batch # <<>> <=> pump[p].pc \in {"handle", "emit", "deliver"}
<1>1. \A n \in Jobs : Len(queue[n]) \in Nat /\ Len(queue[n]) <= Room(n) /\ Len(queue[n]) <= 3
  BY InItsQueue, Rooms DEF RoomInv
<1>2. ASSUME UNCHANGED <<queue, worker>> PROVE QueueRoom'
  BY <1>2 DEF RoomInv, Room
<1>3. ASSUME UNCHANGED pump PROVE HandRoom'
  BY <1>3 DEF RoomInv
<1>4. ASSUME NEW p \in Jobs, \A q \in Jobs \ {p} : pump'[q] = pump[q],
             Len(pump'[p].batch) <= 3,
             pump'[p].batch # <<>> <=> pump'[p].pc \in {"handle", "emit", "deliver"}
      PROVE  HandRoom'
  BY <1>4 DEF RoomInv
<1>5. ASSUME NEW n \in Jobs, \A m \in Jobs \ {n} : queue'[m] = queue[m], UNCHANGED worker,
             Len(queue'[n]) <= Len(queue[n])
      PROVE  QueueRoom'
  <2>1. ASSUME NEW m \in Jobs PROVE Len(queue'[m]) <= Room(m)'
    <3>1. Room(m)' = Room(m) /\ Room(m) \in 0 .. 3
      BY <1>5, Rooms
    <3>2. Len(queue'[m]) \in Nat
      BY LenProperties DEF ShapeInv
    <3>3. Len(queue'[m]) <= Len(queue[m])
      BY <1>1, <1>5
    <3>4. QED
      BY <1>1, <3>1, <3>2, <3>3
  <2>2. QED
    BY <2>1
<1>6. ASSUME NEW n \in Jobs, Die(n) PROVE QueueRoom'
  <2>1. ASSUME NEW m \in Jobs PROVE Len(queue'[m]) <= Room(m)'
    <3>1. CASE m = n
      <4>1. Room(m)' = 3 /\ Len(queue'[m]) <= Len(queue[m]) /\ Len(queue'[m]) \in Nat
        BY <1>6, <3>1, Dies, Rooms, LenProperties DEF ShapeInv
      <4>2. QED
        BY <1>1, <4>1
    <3>2. CASE m # n
      <4>1. queue'[m] = queue[m] /\ worker'[m] = worker[m]
        BY <1>6, <3>2, Dies DEF ShapeInv
      <4>2. QED
        BY <1>1, <4>1, Rooms
    <3>3. QED
      BY <3>1, <3>2
  <2>2. QED
    BY <2>1
<1>7. CASE UNCHANGED vars
  BY <1>2, <1>3, <1>7 DEF vars, RoomInv
<1>8. ASSUME NEW n \in Jobs, Refuse(n) \/ SpawnFails(n) PROVE RoomInv'
  BY <1>2, <1>3, <1>8 DEF Refuse, SpawnFails, RoomInv
<1>9. ASSUME NEW n \in Jobs, Start(n) PROVE RoomInv'
  <2>1. worker[n] = "none" /\ pump[n].pc = "off"
    BY <1>9 DEF Start, Arrives, LifeInv
  <2>2. \A m \in Jobs : Room(m)' = Room(m)
    BY <1>9, <2>1 DEF Start, Room, ShapeInv
  <2>3. HandRoom'
    BY <1>9, <2>1 DEF Start, ShapeInv, PumpStates, RoomInv
  <2>4. QED
    BY <1>9, <2>2, <2>3 DEF Start, RoomInv
<1>10. ASSUME NEW n \in Jobs, Cancel(n) PROVE RoomInv'
  <2>1. handle \in Jobs
    BY <1>10, Basics DEF Cancel, Alive, ShapeInv
  <2>2. QED
    BY <1>3, <1>6, <1>10, <2>1 DEF Cancel, RoomInv
<1>11. ASSUME NEW n \in Jobs, Work(n) PROVE RoomInv'
  <2>1. ASSUME NEW type \in Reports, Put(n, type)
        PROVE  /\ Len(queue'[n]) = Len(queue[n]) + 1
               /\ \A m \in Jobs \ {n} : queue'[m] = queue[m]
    <3>1. [type |-> type, by |-> "worker", job |-> n] \in Sent /\ queue[n] \in Seq(Sent)
      BY DEF Sent, ShapeInv
    <3>2. /\ queue'[n] = Append(queue[n], [type |-> type, by |-> "worker", job |-> n])
          /\ \A m \in Jobs \ {n} : queue'[m] = queue[m]
      BY <2>1 DEF Put, ShapeInv
    <3>3. QED
      BY <3>1, <3>2, AppendProperties
  <2>2. /\ Len(queue'[n]) = Len(queue[n]) + 1
        /\ \A m \in Jobs \ {n} : queue'[m] = queue[m] /\ worker'[m] = worker[m]
    BY <1>11, <2>1 DEF Work, Reports, ShapeInv
  <2>3. Room(n)' >= Room(n) + 1
    BY <1>11 DEF Work, Room, ShapeInv
  <2>4. Room(n)' \in 0 .. 3
    BY DEF Room
  <2>5. Len(queue'[n]) <= Room(n)'
    BY <1>1, <2>2, <2>3, <2>4, Rooms
  <2>6. \A m \in Jobs \ {n} : Len(queue'[m]) <= Room(m)'
    BY <1>1, <2>2, Rooms
  <2>7. UNCHANGED pump
    BY <1>11 DEF Work
  <2>8. QED
    BY <1>3, <2>5, <2>6, <2>7 DEF RoomInv
<1>12. ASSUME NEW n \in Jobs, Exit(n) PROVE RoomInv'
  <2>1. \A m \in Jobs : Room(m)' = Room(m)
    BY <1>12 DEF Exit, Room, ShapeInv
  <2>2. QED
    BY <1>1, <1>3, <1>12, <2>1 DEF Exit, RoomInv
<1>13. ASSUME NEW n \in Jobs, Crash(n) PROVE RoomInv'
  BY <1>3, <1>6, <1>13 DEF Crash, RoomInv
<1>14. ASSUME NEW p \in Jobs, PumpStep(p) PROVE RoomInv'
  <2>1. UNCHANGED worker /\ \A q \in Jobs \ {p} : pump'[q] = pump[q]
    BY <1>14, PumpSteps
  <2>2. CASE Snapshot(p)
    <3>1. pump'[p].pc = "read" /\ pump'[p].batch = pump[p].batch /\ pump[p].pc = "top"
      BY <2>2 DEF Snapshot, ShapeInv, PumpStates
    <3>2. HandRoom'
      BY <1>4, <2>1, <3>1 DEF RoomInv
    <3>3. QED
      BY <1>2, <2>2, <3>2 DEF Snapshot, RoomInv
  <2>3. CASE ReadEvent(p)
    <3> DEFINE f == pump[p].from
    <3>1. f \in Jobs
      BY <2>3, FromSomewhere DEF ReadEvent
    <3>2. /\ queue[f] # <<>> /\ queue'[f] = Tail(queue[f])
          /\ \A m \in Jobs \ {f} : queue'[m] = queue[m]
          /\ pump'[p].pc = "handle" /\ pump'[p].batch = <<Head(queue[f])>>
      BY <2>3, <3>1, Reads
    <3>3. Head(queue[f]) \in InHand /\ Len(queue'[f]) = Len(queue[f]) - 1
      BY <3>1, <3>2, InItsQueue
    <3>9. Len(pump'[p].batch) = 1 /\ pump'[p].batch # <<>>
      BY <3>2, <3>3, Single
    <3>4. Len(pump'[p].batch) <= 3 /\ pump'[p].batch # <<>>
      BY <3>9
    <3>5. Len(queue'[f]) <= Len(queue[f])
      BY <1>1, <3>1, <3>3, OneLess
    <3>6. HandRoom'
      BY <1>4, <2>1, <3>2, <3>4
    <3>7. QueueRoom'
      BY <1>5, <2>1, <3>1, <3>2, <3>5
    <3>8. QED
      BY <3>6, <3>7 DEF RoomInv
  <2>4. CASE ReadNothing(p)
    <3>1. pump'[p].pc = "look" /\ pump'[p].batch = pump[p].batch /\ pump[p].pc = "read"
      BY <2>4, Moves DEF ReadNothing, PumpPlaces
    <3>2. HandRoom'
      BY <1>4, <2>1, <3>1 DEF RoomInv
    <3>3. QED
      BY <1>2, <2>4, <3>2 DEF ReadNothing, RoomInv
  <2>5. CASE LookAlive(p)
    <3>1. pump'[p].pc = "top" /\ pump'[p].batch = <<>>
      BY <2>5, Turns DEF LookAlive, PumpPlaces
    <3>2. HandRoom'
      BY <1>4, <2>1, <3>1, Empty
    <3>3. QED
      BY <1>2, <2>5, <3>2 DEF LookAlive, RoomInv
  <2>6. CASE Drain(p)
    <3> DEFINE f == pump[p].from
    <3>1. f \in Jobs
      BY <2>6, FromSomewhere DEF Drain
    <3>2. /\ Len(queue'[f]) <= Len(queue[f])
          /\ \A m \in Jobs \ {f} : queue'[m] = queue[m]
          /\ \/ /\ pump'[p].pc = "handle" /\ pump'[p].batch # <<>>
                /\ Len(pump'[p].batch) <= Len(queue[f])
             \/ pump'[p].pc = "final" /\ pump'[p].batch = <<>>
      BY <2>6, <3>1, Drains
    <3>3. Len(pump'[p].batch) \in Nat
      BY LenProperties DEF ShapeInv, PumpStates
    <3>4. Len(pump'[p].batch) <= 3
      BY <1>1, <3>1, <3>2, <3>3, Empty
    <3>5. HandRoom'
      BY <1>4, <2>1, <3>2, <3>4
    <3>6. QueueRoom'
      BY <1>5, <2>1, <3>1, <3>2
    <3>7. QED
      BY <3>5, <3>6 DEF RoomInv
  <2>7. CASE SkipEvent(p) \/ DeliverEvent(p)
    <3> DEFINE b == pump[p].batch
    <3>1. b # <<>> /\ Done(p) /\ UNCHANGED queue
      BY <2>7, FromSomewhere DEF SkipEvent, DeliverEvent
    <3>2. \/ pump'[p].pc = "handle" /\ pump'[p].batch = Tail(b) /\ pump'[p].batch # <<>>
          \/ pump'[p].pc \in {"final", "top"} /\ pump'[p].batch = <<>>
      BY <3>1, GoesOn
    <3>3. Len(Tail(b)) = Len(b) - 1 /\ Len(b) \in Nat /\ Len(b) <= 3
      BY <3>1, InItsHand DEF RoomInv
    <3> DEFINE n == Len(Tail(b))
               m == Len(b)
    <3>4. n = m - 1 /\ m \in Nat /\ m <= 3
      BY <3>3
    <3>9. pump'[p].batch = Tail(b) => Len(pump'[p].batch) = n
      OBVIOUS
    <3> HIDE DEF n, m, b
    <3>5. n <= 3
      BY <3>4
    <3>6. Len(pump'[p].batch) <= 3
      BY <3>2, <3>5, <3>9, Empty
    <3>7. HandRoom'
      BY <1>4, <2>1, <3>2, <3>6
    <3>8. QED
      BY <1>2, <2>1, <3>1, <3>7 DEF RoomInv
  <2>8. CASE HandleEvent(p)
    <3>1. pump'[p].pc = "emit" /\ pump'[p].batch = pump[p].batch /\ pump[p].pc = "handle"
      BY <2>8, Moves DEF HandleEvent, PumpPlaces
    <3>2. HandRoom'
      BY <1>4, <2>1, <3>1 DEF RoomInv
    <3>3. QED
      BY <1>2, <2>8, <3>2 DEF HandleEvent, RoomInv
  <2>9. CASE AppendEvent(p)
    <3>1. /\ pump'[p].pc = "deliver" /\ pump'[p].batch # <<>>
          /\ Len(pump'[p].batch) = Len(pump[p].batch)
      BY <2>9, FromSomewhere, Appends DEF AppendEvent
    <3>2. HandRoom'
      BY <1>4, <2>1, <3>1 DEF RoomInv
    <3>3. QED
      BY <1>2, <2>9, <3>2 DEF AppendEvent, RoomInv
  <2>10. CASE Finalize(p)
    <3>1. pump'[p].pc = "ended" /\ pump'[p].batch = <<>>
      BY <2>10, Turns DEF Finalize, PumpPlaces
    <3>2. HandRoom'
      BY <1>4, <2>1, <3>1, Empty
    <3>3. QED
      BY <1>2, <2>10, <3>2 DEF Finalize, RoomInv
  <2>11. QED
    BY <1>14, <2>2, <2>3, <2>4, <2>5, <2>6, <2>7, <2>8, <2>9, <2>10 DEF PumpStep
<1>15. ASSUME NEW s \in Subs, NEW n \in Jobs, NEW after \in 0 .. Len(events),
              Subscribe(s, n, after)
       PROVE  RoomInv'
  BY <1>2, <1>3, <1>15 DEF Subscribe, RoomInv
<1>16. ASSUME NEW s \in Subs, Unsubscribe(s) PROVE RoomInv'
  BY <1>2, <1>3, <1>16 DEF Unsubscribe, RoomInv
<1>17. QED
  BY <1>7, <1>8, <1>9, <1>10, <1>11, <1>12, <1>13, <1>14, <1>15, <1>16 DEF Next


-----------------------------------------------------------------------------
(* Jobs, workers and pumps.                                                 *)

\* A pump changes the status of the current job only, and takes it no step
\* back to its creation; it revokes no key of a request that is still to come.
LEMMA PumpChanges ==
  ASSUME ShapeInv, RoomInv, LifeInv, PumpInv, NEW p \in Jobs, PumpStep(p)
  PROVE  /\ \A n \in Jobs : n # job => status'[n] = status[n]
         /\ status'[job] # "created"
         /\ \A n \in Jobs : key'[n] = key[n] \/ (key'[n] = "revoked" /\ n <= job)
<1> USE DEF jobVars, workVars, history
<1>1. job \in Jobs /\ status[job] # "created" /\ job <= job
  BY FromSomewhere, PumpSteps, Basics DEF LifeInv, Jobs
<1>2. CASE Snapshot(p) \/ ReadEvent(p) \/ ReadNothing(p) \/ LookAlive(p) \/ Drain(p)
           \/ SkipEvent(p) \/ DeliverEvent(p)
  BY <1>1, <1>2
  DEF Snapshot, ReadEvent, ReadNothing, LookAlive, Drain, SkipEvent, DeliverEvent
<1>3. CASE HandleEvent(p)
  <2>1. Head(pump[p].batch).type \in Reports
    BY <1>3, FromSomewhere, InItsHand, Basics DEF HandleEvent
  <2>2. StatusAfter(Head(pump[p].batch).type, status[job]) # "created"
    BY <1>1, <2>1 DEF StatusAfter, Reports
  <2>3. QED
    BY <1>1, <1>3, <2>2 DEF HandleEvent, ShapeInv
<1>4. CASE AppendEvent(p)
  <2>1. pump[p].job <= job
    BY <1>4, FromSomewhere DEF AppendEvent
  <2>2. QED
    BY <1>1, <1>4, <2>1 DEF AppendEvent, Retired, ShapeInv
<1>5. CASE Finalize(p)
  <2>1. EndStatus(status[job]) # "created"
    BY DEF EndStatus
  <2>2. QED
    BY <1>1, <1>5, <2>1 DEF Finalize, Retired, ShapeInv
<1>6. QED
  BY <1>2, <1>3, <1>4, <1>5 DEF PumpStep

\* Only the current job's worker lives, and only started jobs have one.
LEMMA LifeStep ==
  ASSUME ShapeInv, RoomInv, LifeInv, PumpInv, [Next]_vars
  PROVE  LifeInv'
<1> USE DEF jobVars, workVars, history
<1>0. /\ Jobs \subseteq Nat /\ 0 \notin Jobs /\ handle <= job
      /\ (job = 0 \/ job \in Jobs) /\ (handle = 0 \/ handle \in Jobs)
      /\ job \in Nat /\ handle \in Nat
  <2>1. /\ MaxJobs \in Nat /\ job \in 0 .. MaxJobs /\ handle \in 0 .. MaxJobs /\ handle <= job
        /\ Jobs = 1 .. MaxJobs
    BY Basics DEF ShapeInv, LifeInv, Jobs
  <2>2. QED
    BY <2>1
<1>1. ASSUME NEW n \in Jobs, Arrives(n)
      PROVE  /\ n > job /\ n # job /\ n # handle /\ request[n] = "new" /\ worker[n] = "none"
             /\ \A m \in Jobs : m <= n /\ m # n => request[m] # "new"
  <2>1. request[n] = "new" /\ \A m \in 1 .. n - 1 : request[m] # "new"
    BY <1>1 DEF Arrives
  <2>2. \A m \in Jobs : m <= n /\ m # n => m \in 1 .. n - 1
    BY <1>0
  <2>3. n > job
    BY <1>0, <2>1 DEF LifeInv
  <2>4. QED
    BY <1>0, <2>1, <2>2, <2>3 DEF LifeInv
<1>2. CASE UNCHANGED vars
  BY <1>2 DEF vars, LifeInv, Alive
<1>3. ASSUME NEW n \in Jobs, Refuse(n) PROVE LifeInv'
  <2>1. n > job /\ n # job /\ n # handle /\ request[n] = "new"
    BY <1>1, <1>3 DEF Refuse
  <2>2. request' = [request EXCEPT ![n] = "refused"] /\ key' = [key EXCEPT ![n] = "revoked"]
        /\ UNCHANGED <<job, handle, status, worker, pump>>
    BY <1>3 DEF Refuse
  <2>3. QED
    BY <1>0, <2>1, <2>2 DEF LifeInv, ShapeInv, Alive
<1>4. ASSUME NEW n \in Jobs, Start(n) PROVE LifeInv'
  <2>1. /\ n > job /\ n # job /\ n # handle /\ request[n] = "new"
        /\ \A m \in Jobs : m <= n /\ m # n => request[m] # "new"
    BY <1>1, <1>4 DEF Start
  <2>2. /\ ~Alive(handle)
        /\ request' = [request EXCEPT ![n] = "started"] /\ key' = [key EXCEPT ![n] = "valid"]
        /\ job' = n /\ handle' = n
        /\ status' = [status EXCEPT ![n] = "pending"]
        /\ worker' = [worker EXCEPT ![n] = "begun"]
        /\ pump' = [pump EXCEPT ![n].pc = "top"]
    BY <1>4 DEF Start
  <2>3. \A m \in Jobs : pump'[m].pc = IF m = n THEN "top" ELSE pump[m].pc
    BY <2>2 DEF ShapeInv, PumpStates
  <2>4. \A m \in Jobs : ~Alive(m)
    BY <2>2 DEF LifeInv
  <2>5. ASSUME NEW m \in Jobs, m # n
        PROVE  /\ m <= n => request'[m] # "new"
               /\ request'[m] = "new" => key'[m] = "none" /\ status'[m] = "created"
               /\ request'[m] = "started" => m <= n
               /\ worker'[m] # "none" <=> request'[m] = "started"
               /\ pump'[m].pc # "off" <=> request'[m] = "started"
               /\ ~Alive(m)'
    BY <1>0, <2>1, <2>2, <2>3, <2>4, <2>5 DEF LifeInv, ShapeInv, Alive
  <2>6. /\ request'[n] = "started" /\ status'[n] = "pending" /\ worker'[n] = "begun"
        /\ pump'[n].pc = "top" /\ n <= n /\ job' = n /\ handle' = n
    BY <1>0, <2>2, <2>3 DEF ShapeInv
  <2>7. QED
    BY <2>5, <2>6 DEF LifeInv
<1>5. ASSUME NEW n \in Jobs, SpawnFails(n) PROVE LifeInv'
  <2>1. /\ n > job /\ n # job /\ n # handle /\ request[n] = "new"
        /\ \A m \in Jobs : m <= n /\ m # n => request[m] # "new"
    BY <1>1, <1>5 DEF SpawnFails
  <2>2. /\ ~Alive(handle)
        /\ request' = [request EXCEPT ![n] = "refused"] /\ key' = [key EXCEPT ![n] = "revoked"]
        /\ job' = n /\ handle' = handle
        /\ status' = [status EXCEPT ![n] = "pending"]
        /\ worker' = worker /\ pump' = pump
    BY <1>5 DEF SpawnFails
  <2>4. \A m \in Jobs : ~Alive(m)
    BY <2>2 DEF LifeInv
  <2>5. ASSUME NEW m \in Jobs
        PROVE  /\ m <= n => request'[m] # "new"
               /\ request'[m] = "new" => key'[m] = "none" /\ status'[m] = "created"
               /\ request'[m] = "started" => m <= handle
               /\ worker'[m] # "none" <=> request'[m] = "started"
               /\ pump'[m].pc # "off" <=> request'[m] = "started"
               /\ ~Alive(m)'
    BY <1>0, <2>1, <2>2, <2>4 DEF LifeInv, ShapeInv, Alive
  <2>6. /\ request'[n] = "refused" /\ status'[n] = "pending" /\ handle <= n /\ job' = n
        /\ handle # 0 => request'[handle] = "started"
    BY <1>0, <2>1, <2>2 DEF ShapeInv, LifeInv
  <2>7. QED
    BY <2>2, <2>5, <2>6 DEF LifeInv
<1>6. ASSUME NEW n \in Jobs, worker[n] # "none", worker'[n] # "none",
             \A m \in Jobs \ {n} : worker'[m] = worker[m],
             worker'[n] # "dead" => worker[n] # "dead",
             UNCHANGED <<request, key, job, handle, pump>>,
             \A m \in Jobs : status'[m] = status[m] \/ (m = job /\ status'[m] # "created")
      PROVE  LifeInv'
  <2>1. ASSUME NEW m \in Jobs PROVE worker'[m] # "none" <=> worker[m] # "none"
    BY <1>6
  <2>2. ASSUME NEW m \in Jobs, Alive(m)' PROVE Alive(m)
    <3>1. m # 0 /\ worker'[m] # "none" /\ worker'[m] # "dead"
      BY <2>2 DEF Alive
    <3>2. m = n \/ worker'[m] = worker[m]
      BY <1>6
    <3>3. worker[m] # "none" /\ worker[m] # "dead"
      BY <1>6, <3>1, <3>2
    <3>4. QED
      BY <3>1, <3>3 DEF Alive
  <2>3. job # 0 => status'[job] # "created"
    BY <1>0, <1>6 DEF LifeInv
  <2>4. \A m \in Jobs : request[m] = "new" => status'[m] = "created"
    BY <1>0, <1>6 DEF LifeInv
  <2>5. QED
    BY <1>6, <2>1, <2>2, <2>3, <2>4 DEF LifeInv
<1>7. ASSUME NEW n \in Jobs, Cancel(n) PROVE LifeInv'
  <2>1. handle \in Jobs /\ worker[handle] # "none" /\ job = n /\ Die(handle)
        /\ status' = [status EXCEPT ![n] = "cancelling"]
    BY <1>0, <1>7 DEF Cancel, Alive
  <2>2. worker' = [worker EXCEPT ![handle] = "dead"]
    BY <2>1, Dies
  <2>3. UNCHANGED <<request, key, job, handle, pump>>
    BY <1>7 DEF Cancel
  <2>4. /\ worker'[handle] = "dead" /\ \A m \in Jobs \ {handle} : worker'[m] = worker[m]
        /\ \A m \in Jobs : status'[m] = status[m] \/ (m = job /\ status'[m] # "created")
    BY <2>1, <2>2 DEF ShapeInv
  <2>5. QED
    BY <1>6, <2>1, <2>3, <2>4
<1>8. ASSUME NEW n \in Jobs, Work(n) \/ Exit(n) PROVE LifeInv'
  <2>1. /\ worker[n] \notin {"none", "dead"} /\ worker'[n] # "none"
        /\ \A m \in Jobs \ {n} : worker'[m] = worker[m]
        /\ UNCHANGED <<request, key, job, handle, pump, status>>
    BY <1>8 DEF Work, Exit, ShapeInv
  <2>2. QED
    BY <1>6, <2>1
<1>9. ASSUME NEW n \in Jobs, Crash(n) PROVE LifeInv'
  <2>1. worker[n] # "none" /\ Die(n) /\ UNCHANGED <<request, key, job, handle, pump, status>>
    BY <1>9 DEF Crash, Alive
  <2>2. worker' = [worker EXCEPT ![n] = "dead"]
    BY <2>1, Dies
  <2>3. worker'[n] = "dead" /\ \A m \in Jobs \ {n} : worker'[m] = worker[m]
    BY <2>2 DEF ShapeInv
  <2>4. QED
    BY <1>6, <2>1, <2>3
<1>10. ASSUME NEW p \in Jobs, PumpStep(p) PROVE LifeInv'
  <2>1. /\ UNCHANGED <<request, job, handle, worker>>
        /\ \A q \in Jobs : pump'[q].pc # "off" <=> pump[q].pc # "off"
    BY <1>10, PumpSteps
  <2>2. /\ job # 0 => status'[job] # "created"
        /\ \A n \in Jobs : request[n] = "new" => key'[n] = "none" /\ status'[n] = "created"
    BY <1>0, <1>10, PumpChanges DEF LifeInv
  <2>3. \A n \in Jobs : Alive(n)' = Alive(n)
    BY <2>1 DEF Alive
  <2>4. QED
    BY <2>1, <2>2, <2>3 DEF LifeInv
<1>11. ASSUME NEW s \in Subs, NEW n \in Jobs, NEW after \in 0 .. Len(events),
              Subscribe(s, n, after)
       PROVE  LifeInv'
  BY <1>11 DEF Subscribe, LifeInv, Alive
<1>12. ASSUME NEW s \in Subs, Unsubscribe(s) PROVE LifeInv'
  BY <1>12 DEF Unsubscribe, LifeInv, Alive
<1>13. QED
  BY <1>2, <1>3, <1>4, <1>5, <1>7, <1>8, <1>9, <1>10, <1>11, <1>12 DEF Next

\* What is needed to keep a pump where it is: the job and the handles only go
\* on, and no worker comes back to life.
Onward ==
  /\ job' >= job /\ handle' >= handle
  /\ \A n \in Jobs : worker[n] = "dead" => worker'[n] = "dead"

\* Every step goes onward.
LEMMA StepsGoOnward ==
  ASSUME ShapeInv, RoomInv, LifeInv, PumpInv, [Next]_vars
  PROVE  Onward
<1> USE DEF jobVars, workVars, history
<1>1. /\ MaxJobs \in Nat /\ job \in 0 .. MaxJobs /\ handle \in 0 .. MaxJobs /\ handle <= job
      /\ Jobs = 1 .. MaxJobs
  BY Basics DEF ShapeInv, LifeInv, Jobs
<1>2. CASE UNCHANGED vars
  BY <1>1, <1>2 DEF vars, Onward
<1>3. ASSUME NEW n \in Jobs, Refuse(n) PROVE Onward
  BY <1>1, <1>3 DEF Refuse, Onward
<1>4. ASSUME NEW n \in Jobs, Start(n) \/ SpawnFails(n) PROVE Onward
  <2>1. request[n] = "new"
    BY <1>4 DEF Start, SpawnFails, Arrives
  <2>2. n > job /\ n > handle /\ worker[n] = "none"
    BY <1>1, <2>1 DEF LifeInv
  <2>3. job' = n /\ (handle' = n \/ handle' = handle)
    BY <1>4 DEF Start, SpawnFails
  <2>4. \A m \in Jobs : worker[m] = "dead" => worker'[m] = "dead"
    BY <1>4, <2>2 DEF Start, SpawnFails, ShapeInv
  <2>5. QED
    BY <1>1, <2>2, <2>3, <2>4 DEF Onward
<1>5. ASSUME NEW n \in Jobs, Cancel(n) PROVE Onward
  <2>1. handle \in Jobs /\ Die(handle) /\ UNCHANGED <<job, handle>>
    BY <1>1, <1>5 DEF Cancel, Alive
  <2>2. worker' = [worker EXCEPT ![handle] = "dead"]
    BY <2>1, Dies
  <2>3. QED
    BY <1>1, <2>1, <2>2 DEF Onward, ShapeInv
<1>6. ASSUME NEW n \in Jobs, Work(n) \/ Exit(n) PROVE Onward
  <2>1. worker[n] # "dead" /\ \A m \in Jobs \ {n} : worker'[m] = worker[m]
    BY <1>6 DEF Work, Exit, ShapeInv
  <2>2. UNCHANGED <<job, handle>>
    BY <1>6 DEF Work, Exit
  <2>3. QED
    BY <1>1, <2>1, <2>2 DEF Onward
<1>7. ASSUME NEW n \in Jobs, Crash(n) PROVE Onward
  <2>1. Die(n) /\ UNCHANGED <<job, handle>>
    BY <1>7 DEF Crash
  <2>2. worker' = [worker EXCEPT ![n] = "dead"]
    BY <2>1, Dies
  <2>3. QED
    BY <1>1, <2>1, <2>2 DEF Onward, ShapeInv
<1>8. ASSUME NEW p \in Jobs, PumpStep(p) PROVE Onward
  BY <1>1, <1>8, PumpSteps DEF Onward
<1>9. ASSUME NEW s \in Subs,
              Unsubscribe(s) \/ \E n \in Jobs, after \in 0 .. Len(events) : Subscribe(s, n, after)
      PROVE  Onward
  BY <1>1, <1>9 DEF Subscribe, Unsubscribe, Onward
<1>10. QED
  BY <1>2, <1>3, <1>4, <1>5, <1>6, <1>7, <1>8, <1>9 DEF Next

\* A pump that finds no live worker behind its handles has lost its own.
LEMMA OwnWorkerIsDead ==
  ASSUME ShapeInv, RoomInv, LifeInv, PumpInv, NEW p \in Jobs,
         pump[p].pc = "look", ~Alive(pump[p].from)
  PROVE  worker[p] = "dead"
<1> DEFINE f == pump[p].from
<1>1. /\ f \in Jobs /\ p <= f /\ f <= handle /\ handle \in Jobs
      /\ Jobs \subseteq Nat
  BY FromSomewhere, Basics
<1>2. Alive(p) => p = handle
  BY DEF LifeInv
<1>3. ~Alive(p)
  BY <1>1, <1>2
<1>4. worker[p] # "none"
  BY DEF LifeInv
<1>5. QED
  BY <1>1, <1>3, <1>4, Basics DEF Alive

\* Pumps look where they should, and come to their last look when they should.
LEMMA PumpInvStep ==
  ASSUME ShapeInv, RoomInv, LifeInv, PumpInv, [Next]_vars, ShapeInv'
  PROVE  PumpInv'
<1> USE DEF jobVars, workVars, history
<1> DEFINE Sound(p) ==
      /\ pump[p].pc \in {"read", "look", "handle", "emit", "deliver"} =>
           pump[p].from \in p .. handle /\ pump[p].job \in 1 .. job
      /\ pump[p].pc \in {"final", "ended"} \/ pump[p].last => worker[p] = "dead"
      /\ pump[p].pc = "deliver" => Head(pump[p].batch) \in Seen
<1>1. Onward /\ (\A p \in Jobs : Sound(p))
  BY StepsGoOnward DEF PumpInv
<1>2. ASSUME NEW p \in Jobs, pump'[p] = pump[p] PROVE Sound(p)'
  <2>1. /\ p \in Nat /\ job \in Nat /\ handle \in Nat /\ job' \in Nat /\ handle' \in Nat
        /\ job' >= job /\ handle' >= handle
    BY <1>1, Basics DEF ShapeInv, Onward
  <2>2. p .. handle \subseteq p .. handle' /\ 1 .. job \subseteq 1 .. job'
    BY <2>1
  <2>3. worker[p] = "dead" => worker'[p] = "dead"
    BY <1>1 DEF Onward
  <2>4. QED
    BY <1>1, <1>2, <2>2, <2>3
<1>3. CASE UNCHANGED pump
  BY <1>2, <1>3 DEF PumpInv
<1>4. ASSUME NEW n \in Jobs, Start(n) PROVE PumpInv'
  <2>1. worker[n] = "none" /\ pump'[n].pc = "top" /\ pump'[n].last = pump[n].last
        /\ \A p \in Jobs \ {n} : pump'[p] = pump[p]
    BY <1>4 DEF Start, Arrives, LifeInv, ShapeInv, PumpStates
  <2>2. Sound(n)'
    BY <1>1, <2>1
  <2>3. \A p \in Jobs : Sound(p)'
    BY <1>2, <2>1, <2>2
  <2>4. QED
    BY <2>3 DEF PumpInv
<1>5. ASSUME NEW p \in Jobs, PumpStep(p) PROVE PumpInv'
  <2>1. /\ UNCHANGED <<job, handle, worker>> /\ \A q \in Jobs \ {p} : pump'[q] = pump[q]
        /\ job \in Jobs /\ handle \in Jobs /\ p <= handle /\ Jobs \subseteq Nat \ {0}
    BY <1>5, PumpSteps, Basics
  <2>2. ASSUME Snapshot(p) PROVE Sound(p)'
    <3>1. /\ pump'[p].pc = "read" /\ pump'[p].job = job /\ pump'[p].from = handle
          /\ pump'[p].last = pump[p].last
      BY <2>2 DEF Snapshot, ShapeInv, PumpStates
    <3>2. handle \in p .. handle /\ job \in 1 .. job
      BY <2>1
    <3>3. QED
      BY <1>1, <2>1, <3>1, <3>2
  <2>3. ASSUME ReadEvent(p) PROVE Sound(p)'
    <3>1. /\ pump[p].pc = "read" /\ pump'[p].pc = "handle" /\ pump'[p].job = pump[p].job
          /\ pump'[p].from = pump[p].from /\ pump'[p].last = pump[p].last
      BY <2>3, FromSomewhere, Reads DEF ReadEvent
    <3>2. QED
      BY <1>1, <2>1, <3>1
  <2>4. ASSUME ReadNothing(p) \/ HandleEvent(p) PROVE Sound(p)'
    <3>1. /\ pump[p].pc \in {"read", "handle"} /\ pump'[p].pc \in {"look", "emit"}
          /\ pump'[p].job = pump[p].job
          /\ pump'[p].from = pump[p].from /\ pump'[p].last = pump[p].last
      BY <2>4, Moves DEF ReadNothing, HandleEvent, PumpPlaces
    <3>2. QED
      BY <1>1, <2>1, <3>1
  <2>5. ASSUME LookAlive(p) PROVE Sound(p)'
    <3>1. pump'[p].pc = "top" /\ ~pump'[p].last
      BY <2>5, Turns DEF LookAlive, PumpPlaces
    <3>2. QED
      BY <3>1
  <2>6. ASSUME Drain(p) PROVE Sound(p)'
    <3>1. worker[p] = "dead"
      BY <2>6, OwnWorkerIsDead DEF Drain, Exited
    <3>2. /\ pump[p].pc = "look" /\ pump'[p].pc \in {"handle", "final"}
          /\ pump'[p].pc = "handle" => pump'[p].job = pump[p].job /\ pump'[p].from = pump[p].from
      BY <2>6, FromSomewhere, Drains DEF Drain
    <3>3. QED
      BY <1>1, <2>1, <3>1, <3>2
  <2>7. ASSUME SkipEvent(p) \/ DeliverEvent(p) PROVE Sound(p)'
    <3>1. pump[p].pc \in {"handle", "deliver"} /\ Done(p) /\ pump[p].batch # <<>>
      BY <2>7, FromSomewhere DEF SkipEvent, DeliverEvent
    <3>2. \/ /\ pump'[p].pc = "handle" /\ pump'[p].job = pump[p].job
             /\ pump'[p].from = pump[p].from /\ pump'[p].last = pump[p].last
          \/ /\ pump'[p].pc = IF pump[p].last THEN "final" ELSE "top"
             /\ ~pump'[p].last
      BY <3>1, GoesOn
    <3>3. QED
      BY <1>1, <2>1, <3>1, <3>2
  <2>8. ASSUME AppendEvent(p) PROVE Sound(p)'
    <3>1. /\ pump[p].pc = "emit" /\ pump'[p].pc = "deliver" /\ pump'[p].job = pump[p].job
          /\ pump'[p].from = pump[p].from /\ pump'[p].last = pump[p].last
      BY <2>8, FromSomewhere, Appends DEF AppendEvent
    <3>2. Head(pump'[p].batch) \in Seen
      <4>1. /\ events' \in Seq(Seen) /\ DOMAIN events' = 1 .. Len(events) + 1
            /\ Len(events) \in Nat /\ Head(pump'[p].batch) = events'[Len(events) + 1]
        BY <2>8, FromSomewhere, Appends DEF AppendEvent
      <4>2. Len(events) + 1 \in DOMAIN events'
        BY <4>1
      <4>3. QED
        BY <4>1, <4>2, ElementOfSeq, LenProperties
    <3>3. QED
      BY <1>1, <2>1, <3>1, <3>2
  <2>9. ASSUME Finalize(p) PROVE Sound(p)'
    <3>1. pump[p].pc = "final" /\ pump'[p].pc = "ended" /\ ~pump'[p].last
      BY <2>9, Turns DEF Finalize, PumpPlaces
    <3>2. QED
      BY <1>1, <2>1, <3>1
  <2>10. Sound(p)'
    BY <1>5, <2>2, <2>3, <2>4, <2>5, <2>6, <2>7, <2>8, <2>9 DEF PumpStep
  <2>11. \A q \in Jobs : Sound(q)'
    BY <1>2, <2>1, <2>10
  <2>12. QED
    BY <2>11 DEF PumpInv
<1>6. QED
  <2>1. UNCHANGED vars => UNCHANGED pump
    BY DEF vars
  <2>2. ASSUME NEW n \in Jobs,
               \/ Refuse(n) \/ SpawnFails(n) \/ Cancel(n) \/ Work(n) \/ Exit(n) \/ Crash(n)
        PROVE  UNCHANGED pump
    BY <2>2 DEF Refuse, SpawnFails, Cancel, Work, Exit, Crash
  <2>3. ASSUME NEW s \in Subs,
               \/ Unsubscribe(s)
               \/ \E n \in Jobs, after \in 0 .. Len(events) : Subscribe(s, n, after)
        PROVE  UNCHANGED pump
    BY <2>3 DEF Unsubscribe, Subscribe
  <2>4. QED
    BY <1>3, <1>4, <1>5, <2>1, <2>2, <2>3 DEF Next

-----------------------------------------------------------------------------
(* Ends, keys and cancels.                                                  *)

\* Most steps of a pump touch neither a job's status and key nor the stream,
\* and neither begin nor end with an event to append.
Quiet(p) ==
  \/ Snapshot(p) \/ ReadEvent(p) \/ ReadNothing(p) \/ LookAlive(p) \/ Drain(p) \/ SkipEvent(p)

LEMMA QuietSteps ==
  ASSUME ShapeInv, RoomInv, LifeInv, PumpInv, NEW p \in Jobs, Quiet(p) \/ DeliverEvent(p)
  PROVE  /\ UNCHANGED <<key, status, events>>
         /\ Quiet(p) => UNCHANGED sub /\ pump[p].pc \in {"top", "read", "look", "handle"}
         /\ pump[p].pc \in {"top", "read", "look", "handle", "deliver"}
         /\ pump'[p].pc \in {"top", "read", "look", "handle", "final"}
<1> USE DEF jobVars, workVars, history
<1> DEFINE Still == /\ UNCHANGED <<key, status, events, sub>>
                    /\ pump[p].pc \in {"top", "read", "look", "handle"}
                    /\ pump'[p].pc \in {"top", "read", "look", "handle", "final"}
<1>1. ASSUME Snapshot(p) PROVE Still
  BY <1>1 DEF Snapshot, ShapeInv, PumpStates
<1>2. ASSUME ReadEvent(p) PROVE Still
  BY <1>2, FromSomewhere, Reads DEF ReadEvent
<1>3. ASSUME ReadNothing(p) PROVE Still
  BY <1>3, Moves DEF ReadNothing, PumpPlaces
<1>4. ASSUME LookAlive(p) PROVE Still
  BY <1>4, Turns DEF LookAlive, PumpPlaces
<1>5. ASSUME Drain(p) PROVE Still
  BY <1>5, FromSomewhere, Drains DEF Drain
<1>6. ASSUME SkipEvent(p) PROVE Still
  BY <1>6, FromSomewhere, GoesOn DEF SkipEvent
<1>7. ASSUME DeliverEvent(p)
      PROVE  /\ UNCHANGED <<key, status, events>> /\ pump[p].pc = "deliver"
             /\ pump'[p].pc \in {"top", "handle", "final"}
  BY <1>7, FromSomewhere, GoesOn DEF DeliverEvent
<1>8. DeliverEvent(p) => ~Quiet(p)
  BY DEF Quiet, DeliverEvent, Snapshot, ReadEvent, ReadNothing, LookAlive, Drain, SkipEvent
<1>9. Quiet(p) => Still
  BY <1>1, <1>2, <1>3, <1>4, <1>5, <1>6 DEF Quiet
<1>10. QED
  BY <1>7, <1>8, <1>9

\* Handling an event that ends the job leaves the event to be appended; any
\* other event leaves an ended job ended, or starts it.
LEMMA Handles ==
  ASSUME ShapeInv, RoomInv, LifeInv, PumpInv, NEW p \in Jobs, HandleEvent(p)
  PROVE  LET type == Head(pump[p].batch).type IN
         /\ type \in Reports /\ pump[p].job = job /\ job \in Jobs
         /\ status' = [status EXCEPT ![job] = StatusAfter(type, status[job])]
         /\ status'[job] \in Terminal => type \in Terminal \/ status'[job] = status[job]
         /\ type \notin Terminal => status'[job] \in {"active", status[job]}
         /\ pump[p].pc = "handle" /\ pump'[p].pc = "emit" /\ pump'[p].batch = pump[p].batch
         /\ pump'[p].job = job
         /\ UNCHANGED <<key, events, sub>>
<1>1. pump[p].pc = "handle" /\ pump[p].job = job /\ job \in Jobs
  BY FromSomewhere DEF HandleEvent
<1>2. Head(pump[p].batch).type \in Reports
  BY <1>1, FromSomewhere, InItsHand, Basics
<1>3. /\ pump'[p].pc = "emit" /\ pump'[p].batch = pump[p].batch /\ pump'[p].job = job
  BY <1>1, Moves DEF HandleEvent, PumpPlaces
<1>4. /\ status' = [status EXCEPT ![job] = StatusAfter(Head(pump[p].batch).type, status[job])]
      /\ UNCHANGED <<key, events, sub>>
  BY DEF HandleEvent
<1>5. status'[job] = StatusAfter(Head(pump[p].batch).type, status[job])
  BY <1>1, <1>4 DEF ShapeInv
<1>6. /\ status'[job] \in Terminal => Head(pump[p].batch).type \in Terminal \/ status'[job] = status[job]
      /\ Head(pump[p].batch).type \notin Terminal => status'[job] \in {"active", status[job]}
  BY <1>2, <1>5 DEF StatusAfter, Reports, Terminal
<1>7. QED
  BY <1>1, <1>2, <1>3, <1>4, <1>6

\* Ended jobs lose their keys.
LEMMA KeyStep ==
  ASSUME ShapeInv, RoomInv, LifeInv, PumpInv, KeyInv, [Next]_vars
  PROVE  KeyInv'
<1> USE DEF jobVars, workVars, history
<1> DEFINE Loses(n) == status[n] \in Terminal => key[n] = "revoked" \/ \E p \in Jobs : Ends(p, n)
<1>1. ASSUME NEW n \in Jobs,
             status'[n] \in Terminal => status[n] \in Terminal,
             key[n] = "revoked" => key'[n] = "revoked",
             \A p \in Jobs : pump'[p] = pump[p] \/ pump[p].pc # "emit"
      PROVE  Loses(n)'
  BY <1>1 DEF KeyInv, Ends
<1>2. CASE UNCHANGED <<status, key, pump>>
  BY <1>1, <1>2 DEF KeyInv
<1>3. ASSUME NEW n \in Jobs, Refuse(n) PROVE KeyInv'
  <2>1. \A m \in Jobs : key[m] = "revoked" => key'[m] = "revoked"
    BY <1>3 DEF Refuse, ShapeInv
  <2>2. UNCHANGED <<status, pump>>
    BY <1>3 DEF Refuse
  <2>3. QED
    BY <1>1, <2>1, <2>2 DEF KeyInv
<1>4. ASSUME NEW n \in Jobs, Start(n) PROVE KeyInv'
  <2>1. /\ status'[n] = "pending" /\ \A m \in Jobs \ {n} : status'[m] = status[m] /\ key'[m] = key[m]
        /\ pump[n].pc = "off" /\ \A p \in Jobs \ {n} : pump'[p] = pump[p]
    BY <1>4 DEF Start, Arrives, LifeInv, ShapeInv
  <2>2. status'[n] \notin Terminal
    BY <2>1 DEF Terminal
  <2>3. \A p \in Jobs : pump'[p] = pump[p] \/ pump[p].pc # "emit"
    BY <2>1
  <2>4. \A m \in Jobs : Loses(m)'
    BY <1>1, <2>1, <2>2, <2>3
  <2>5. QED
    BY <2>4 DEF KeyInv
<1>5. ASSUME NEW n \in Jobs, SpawnFails(n) \/ Cancel(n) PROVE KeyInv'
  <2>1. /\ status'[n] \in {"pending", "cancelling"}
        /\ \A m \in Jobs \ {n} : status'[m] = status[m] /\ key'[m] = key[m]
        /\ UNCHANGED pump
    BY <1>5 DEF SpawnFails, Cancel, ShapeInv
  <2>2. status'[n] \notin Terminal
    BY <2>1 DEF Terminal
  <2>3. \A m \in Jobs : Loses(m)'
    BY <1>1, <2>1, <2>2
  <2>4. QED
    BY <2>3 DEF KeyInv
<1>6. ASSUME NEW p \in Jobs, PumpStep(p) PROVE KeyInv'
  <2>1. \A q \in Jobs \ {p} : pump'[q] = pump[q]
    BY <1>6, PumpSteps
  <2>2. CASE Quiet(p) \/ DeliverEvent(p)
    <3>1. UNCHANGED <<status, key>> /\ pump[p].pc # "emit"
      BY <2>2, QuietSteps
    <3>2. QED
      BY <1>1, <2>1, <3>1 DEF KeyInv
  <2>3. CASE HandleEvent(p)
    <3>1. /\ pump[p].pc = "handle" /\ UNCHANGED key
          /\ \A n \in Jobs : n # job => status'[n] = status[n]
      BY <2>3, Handles DEF ShapeInv
    <3>2. \A n \in Jobs : n # job => Loses(n)'
      BY <1>1, <2>1, <3>1
    <3>3. ASSUME NEW n \in Jobs, n = job, Head(pump[p].batch).type \in Terminal
          PROVE  Ends(p, n)'
      BY <2>3, <3>3, Handles DEF Ends
    <3>4. ASSUME NEW n \in Jobs, n = job, Head(pump[p].batch).type \notin Terminal
          PROVE  Loses(n)'
      <4>1. status'[n] \in Terminal => status[n] \in Terminal
        BY <2>3, <3>4, Handles
      <4>2. QED
        BY <1>1, <2>1, <3>1, <4>1
    <3>5. \A n \in Jobs : Loses(n)'
      BY <3>2, <3>3, <3>4
    <3>6. QED
      BY <3>5 DEF KeyInv
  <2>4. CASE AppendEvent(p)
    <3>1. /\ UNCHANGED status
          /\ \A n \in Jobs : key[n] = "revoked" => key'[n] = "revoked"
          /\ \A n \in Jobs : Ends(p, n) => key'[n] = "revoked"
      BY <2>4 DEF AppendEvent, Retired, ShapeInv, Ends
    <3>2. ASSUME NEW n \in Jobs PROVE Loses(n)'
      <4>1. \A q \in Jobs \ {p} : Ends(q, n) => Ends(q, n)'
        BY <2>1 DEF Ends
      <4>2. QED
        BY <3>1, <4>1 DEF KeyInv
    <3>3. QED
      BY <3>2 DEF KeyInv
  <2>5. CASE Finalize(p)
    <3>1. /\ pump[p].pc = "final"
          /\ \A n \in Jobs : n # job => status'[n] = status[n]
          /\ \A n \in Jobs : key[n] = "revoked" => key'[n] = "revoked"
          /\ key'[job] = "revoked" \/ status'[job] = status[job]
      BY <2>5, Finalizes DEF ShapeInv, Finalize
    <3>2. \A n \in Jobs : Loses(n)'
      BY <1>1, <2>1, <3>1
    <3>3. QED
      BY <3>2 DEF KeyInv
  <2>6. QED
    BY <1>6, <2>2, <2>3, <2>4, <2>5 DEF PumpStep, Quiet
<1>7. QED
  <2>1. UNCHANGED vars => UNCHANGED <<status, key, pump>>
    BY DEF vars
  <2>2. ASSUME NEW n \in Jobs, Work(n) \/ Exit(n) \/ Crash(n) PROVE UNCHANGED <<status, key, pump>>
    BY <2>2 DEF Work, Exit, Crash
  <2>3. ASSUME NEW s \in Subs,
               \/ Unsubscribe(s)
               \/ \E n \in Jobs, after \in 0 .. Len(events) : Subscribe(s, n, after)
        PROVE  UNCHANGED <<status, key, pump>>
    BY <2>3 DEF Unsubscribe, Subscribe
  <2>4. QED
    BY <1>2, <1>3, <1>4, <1>5, <1>6, <2>1, <2>2, <2>3 DEF Next

\* A job that runs has a pump.
LEMMA RunStep ==
  ASSUME ShapeInv, RoomInv, LifeInv, PumpInv, RunInv, [Next]_vars
  PROVE  RunInv'
<1> USE DEF jobVars, workVars, history
<1>1. CASE UNCHANGED <<request, job, status, pump>>
  BY <1>1 DEF RunInv, PumpGone
<1>2. ASSUME NEW n \in Jobs, Refuse(n) PROVE RunInv'
  <2>1. \A m \in Jobs : request'[m] = "started" => request[m] = "started"
    BY <1>2 DEF Refuse, ShapeInv
  <2>2. UNCHANGED <<job, status, pump>>
    BY <1>2 DEF Refuse
  <2>3. job # 0 => job \in Jobs
    BY Basics DEF ShapeInv
  <2>4. QED
    BY <2>1, <2>2, <2>3 DEF RunInv, PumpGone
<1>3. ASSUME NEW n \in Jobs, Start(n) PROVE RunInv'
  <2>1. pump'[n].pc = "top"
    BY <1>3 DEF Start, ShapeInv, PumpStates
  <2>2. QED
    BY <2>1 DEF RunInv, PumpGone
<1>4. ASSUME NEW n \in Jobs, SpawnFails(n) PROVE RunInv'
  <2>1. job' = n /\ request'[n] = "refused"
    BY <1>4 DEF SpawnFails, ShapeInv
  <2>2. QED
    BY <2>1 DEF RunInv
<1>5. ASSUME NEW n \in Jobs, Cancel(n) PROVE RunInv'
  <2>1. handle \in Jobs /\ Alive(handle) /\ UNCHANGED pump
    BY <1>5, Basics DEF Cancel, Alive, ShapeInv
  <2>2. worker[handle] # "dead" /\ request[handle] = "started"
    BY <2>1, Basics DEF Alive, LifeInv
  <2>3. pump[handle].pc \notin {"off", "ended"}
    BY <2>1, <2>2 DEF LifeInv, PumpInv
  <2>4. QED
    BY <2>1, <2>3 DEF RunInv, PumpGone
<1>6. ASSUME NEW p \in Jobs, PumpStep(p) PROVE RunInv'
  <2>1. CASE ~Finalize(p)
    <3>1. pump'[p].pc \notin {"off", "ended"}
      BY <1>6, <2>1, PumpSteps
    <3>2. QED
      BY <3>1 DEF RunInv, PumpGone
  <2>2. CASE Finalize(p)
    <3>1. job' = job /\ job \in Jobs /\ status'[job] \notin Running
      BY <2>2, Finalizes DEF ShapeInv, EndStatus, Running
    <3>2. QED
      BY <3>1 DEF RunInv
  <2>3. QED
    BY <2>1, <2>2
<1>7. QED
  <2>1. UNCHANGED vars => UNCHANGED <<request, job, status, pump>>
    BY DEF vars
  <2>2. ASSUME NEW n \in Jobs, Work(n) \/ Exit(n) \/ Crash(n)
        PROVE  UNCHANGED <<request, job, status, pump>>
    BY <2>2 DEF Work, Exit, Crash
  <2>3. ASSUME NEW s \in Subs,
               \/ Unsubscribe(s)
               \/ \E n \in Jobs, after \in 0 .. Len(events) : Subscribe(s, n, after)
        PROVE  UNCHANGED <<request, job, status, pump>>
    BY <2>3 DEF Unsubscribe, Subscribe
  <2>4. QED
    BY <1>1, <1>2, <1>3, <1>4, <1>5, <1>6, <2>1, <2>2, <2>3 DEF Next

\* While the worker of a job started alone lives, only its own pump moves, and
\* reads its own queue.
LEMMA OnlyItsPump ==
  ASSUME ShapeInv, RoomInv, LifeInv, PumpInv, AloneInv,
         NEW n \in alone, NEW p \in Jobs, PumpStep(p)
  PROVE  /\ n \in Jobs /\ (job = n => p = n)
         /\ worker[n] \notin {"reported", "dead"} =>
              /\ p = n /\ job = n /\ Alive(n) /\ ~pump[n].last
              /\ pump[n].pc \in {"read", "look", "handle", "emit", "deliver"} =>
                   pump[n].from = n
              /\ pump[n].pc # "final"
<1>1. n \in Jobs /\ request[n] = "started" /\ Jobs \subseteq Nat \ {0}
  BY Basics DEF ShapeInv, AloneInv
<1>2. job = n => p = n
  BY PumpSteps DEF AloneInv, PumpGone
<1>3. ASSUME worker[n] \notin {"reported", "dead"}
      PROVE  /\ p = n /\ job = n /\ Alive(n) /\ ~pump[n].last
             /\ pump[n].pc \in {"read", "look", "handle", "emit", "deliver"} =>
                  pump[n].from = n
             /\ pump[n].pc # "final"
  <2>1. Alive(n)
    BY <1>1, <1>3 DEF LifeInv, Alive
  <2>2. n = handle /\ n = job
    BY <1>1, <2>1 DEF LifeInv
  <2>3. ~pump[n].last /\ pump[n].pc # "final"
    BY <1>1, <1>3 DEF PumpInv, ShapeInv, PumpStates
  <2>4. ASSUME pump[n].pc \in {"read", "look", "handle", "emit", "deliver"}
        PROVE  pump[n].from = n
    <3>1. pump[n].from \in Jobs /\ n <= pump[n].from /\ pump[n].from <= handle
      BY <1>1, <2>4, FromSomewhere
    <3>2. pump[n].from \in Nat /\ n \in Nat
      BY <1>1, <3>1
    <3>3. n <= pump[n].from /\ pump[n].from <= n
      BY <2>2, <3>1
    <3>4. QED
      BY <3>2, <3>3
  <2>5. QED
    BY <1>2, <2>1, <2>2, <2>3, <2>4
<1>4. QED
  BY <1>1, <1>2, <1>3

\* Nothing ends a job started alone before its worker reported or died.
LEMMA AloneStep ==
  ASSUME ShapeInv, RoomInv, LifeInv, PumpInv, AloneInv, [Next]_vars
  PROVE  AloneInv'
<1> USE DEF jobVars, workVars, history
<1> DEFINE Free(n) ==
             /\ status[n] \notin Terminal /\ key[n] # "revoked"
             /\ \A i \in DOMAIN queue[n] : queue[n][i].type \notin Terminal
             /\ \A i \in DOMAIN pump[n].batch : pump[n].batch[i].type \notin Terminal
           Lone(n) ==
             /\ request[n] = "started"
             /\ job = n => \A p \in Jobs \ {n} : PumpGone(p)
             /\ worker[n] \notin {"reported", "dead"} => Free(n)
<1>0. alone \subseteq Jobs /\ \A n \in alone : Lone(n)
  BY DEF ShapeInv, AloneInv
<1>1. CASE UNCHANGED <<request, key, job, status, worker, queue, alone, pump>>
  BY <1>1 DEF AloneInv, PumpGone
<1>2. ASSUME NEW n \in Jobs, Refuse(n) PROVE AloneInv'
  <2>1. /\ n \notin alone /\ \A m \in alone : request'[m] = request[m] /\ key'[m] = key[m]
        /\ UNCHANGED <<job, status, worker, queue, alone, pump>>
    BY <1>0, <1>2 DEF Refuse, Arrives, ShapeInv
  <2>2. \A m \in alone : Lone(m)'
    BY <1>0, <2>1 DEF PumpGone
  <2>3. QED
    BY <2>1, <2>2 DEF AloneInv
<1>3. ASSUME NEW n \in Jobs, Start(n) PROVE AloneInv'
  <2>1. /\ request[n] = "new" /\ n \notin alone /\ job' = n
        /\ \A m \in Jobs \ {n} : /\ request'[m] = request[m] /\ key'[m] = key[m]
                               /\ status'[m] = status[m] /\ worker'[m] = worker[m]
                               /\ pump'[m] = pump[m]
        /\ UNCHANGED queue
    BY <1>0, <1>3 DEF Start, Arrives, ShapeInv
  <2>2. ASSUME NEW m \in alone PROVE Lone(m)'
    <3>1. m \in Jobs \ {n}
      BY <1>0, <2>1
    <3>2. job' # m
      BY <2>1, <3>1
    <3>3. QED
      BY <1>0, <2>1, <3>1, <3>2
  <2>3. ASSUME \A p \in Jobs : pump[p].pc \in {"off", "ended"} PROVE Lone(n)'
    <3>1. /\ request'[n] = "started" /\ status'[n] = "pending" /\ key'[n] = "valid"
          /\ pump'[n].batch = pump[n].batch
      BY <1>3 DEF Start, ShapeInv, PumpStates
    <3>2. queue'[n] = <<>> /\ pump'[n].batch = <<>>
      <4>1. worker[n] = "none" /\ pump[n].pc = "off"
        BY <2>1 DEF LifeInv
      <4>2. Len(queue[n]) <= 0 /\ pump[n].batch = <<>>
        BY <4>1 DEF RoomInv, Room
      <4>3. queue[n] \in Seq(Sent) /\ Len(queue[n]) \in Nat
        BY InItsQueue
      <4>4. Len(queue[n]) = 0
        BY <4>2, <4>3
      <4>5. queue[n] = <<>>
        BY <4>3, <4>4, EmptySeq
      <4>6. QED
        BY <2>1, <3>1, <4>2, <4>5
    <3>3. \A p \in Jobs \ {n} : PumpGone(p)'
      BY <2>1, <2>3 DEF PumpGone
    <3>4. DOMAIN queue'[n] = {} /\ DOMAIN pump'[n].batch = {}
      BY <3>2, Empty
    <3>5. QED
      BY <3>1, <3>3, <3>4 DEF Terminal
  <2>4. \A m \in alone' : Lone(m)'
    BY <1>3, <2>2, <2>3 DEF Start
  <2>5. QED
    BY <2>4 DEF AloneInv
<1>4. ASSUME NEW n \in Jobs, SpawnFails(n) PROVE AloneInv'
  <2>1. /\ request[n] = "new" /\ n \notin alone /\ job' = n
        /\ \A m \in Jobs \ {n} : /\ request'[m] = request[m] /\ key'[m] = key[m]
                               /\ status'[m] = status[m]
        /\ UNCHANGED <<worker, queue, alone, pump>>
    BY <1>0, <1>4 DEF SpawnFails, Arrives, ShapeInv
  <2>2. ASSUME NEW m \in alone PROVE Lone(m)'
    <3>1. m \in Jobs \ {n}
      BY <1>0, <2>1
    <3>2. job' # m
      BY <2>1, <3>1
    <3>3. QED
      BY <1>0, <2>1, <3>1, <3>2
  <2>3. QED
    BY <2>1, <2>2 DEF AloneInv
<1>5. ASSUME NEW n \in Jobs, Cancel(n) PROVE AloneInv'
  <2>1. handle \in Jobs /\ Alive(handle) /\ job = n /\ Die(handle)
        /\ UNCHANGED <<request, key, job, alone, pump>>
        /\ \A m \in Jobs \ {n} : status'[m] = status[m]
    BY <1>5, Basics DEF Cancel, Alive, ShapeInv
  <2>2. handle = n
    BY <2>1 DEF LifeInv
  <2>3. /\ worker' = [worker EXCEPT ![n] = "dead"] /\ \A m \in Jobs \ {n} : queue'[m] = queue[m]
    BY <2>1, <2>2, Dies
  <2>4. worker'[n] = "dead" /\ \A m \in Jobs \ {n} : worker'[m] = worker[m]
    BY <2>3 DEF ShapeInv
  <2>5. \A m \in alone : Lone(m)'
    BY <1>0, <2>1, <2>3, <2>4 DEF PumpGone
  <2>6. QED
    BY <2>1, <2>5 DEF AloneInv
<1>6. ASSUME NEW n \in Jobs, Work(n) PROVE AloneInv'
  <2>1. /\ UNCHANGED <<request, key, job, status, alone, pump>>
        /\ \A m \in Jobs \ {n} : worker'[m] = worker[m] /\ queue'[m] = queue[m]
    BY <1>6 DEF Work, Put, ShapeInv
  <2>2. ASSUME worker'[n] # "reported", n \in alone
        PROVE  Free(n)'
    <3>1. PICK type \in {"started", "log"} : Put(n, type)
      BY <1>6, <2>2 DEF Work, ShapeInv
    <3>2. worker[n] \notin {"reported", "dead"}
      BY <1>6 DEF Work
    <3> DEFINE e == [type |-> type, by |-> "worker", job |-> n]
    <3>3. queue[n] \in Seq(Sent) /\ e \in Sent /\ e.type \notin Terminal
      BY DEF ShapeInv, Sent, Reports, Terminal
    <3>4. queue'[n] = Append(queue[n], e)
      BY <3>1 DEF Put, ShapeInv
    <3>5. /\ DOMAIN queue'[n] = 1 .. Len(queue[n]) + 1 /\ DOMAIN queue[n] = 1 .. Len(queue[n])
          /\ Len(queue[n]) \in Nat
          /\ \A i \in 1 .. Len(queue[n]) : queue'[n][i] = queue[n][i]
          /\ queue'[n][Len(queue[n]) + 1] = e
      BY <3>3, <3>4, AppendProperties, LenProperties
    <3> HIDE DEF e
    <3>6. \A i \in DOMAIN queue[n] : queue[n][i].type \notin Terminal
      BY <1>0, <2>2, <3>2
    <3>7. \A i \in DOMAIN queue'[n] : queue'[n][i].type \notin Terminal
      BY <3>3, <3>5, <3>6
    <3>8. QED
      BY <1>0, <2>1, <2>2, <3>2, <3>7
  <2>3. \A m \in alone : Lone(m)'
    BY <1>0, <2>1, <2>2 DEF PumpGone
  <2>4. QED
    BY <2>1, <2>3 DEF AloneInv
<1>7. ASSUME NEW n \in Jobs, Exit(n) \/ Crash(n) PROVE AloneInv'
  <2>1. /\ UNCHANGED <<request, key, job, status, alone, pump>> /\ worker'[n] = "dead"
        /\ \A m \in Jobs \ {n} : worker'[m] = worker[m] /\ queue'[m] = queue[m]
    BY <1>7, Dies DEF Exit, Crash, ShapeInv
  <2>2. \A m \in alone : Lone(m)'
    BY <1>0, <2>1 DEF PumpGone
  <2>3. QED
    BY <2>1, <2>2 DEF AloneInv
<1>8. ASSUME NEW p \in Jobs, PumpStep(p) PROVE AloneInv'
  <2>1. /\ UNCHANGED <<request, job, handle, worker, alone>>
        /\ \A q \in Jobs \ {p} : pump'[q] = pump[q]
    BY <1>8, PumpSteps
  <2>2. ASSUME NEW n \in alone, worker[n] \notin {"reported", "dead"} PROVE Free(n)'
    <3>1. /\ n \in Jobs /\ p = n /\ job = n /\ Alive(n)
          /\ pump[n].pc \in {"read", "look", "handle", "emit", "deliver"} => pump[n].from = n
          /\ pump[n].pc # "final" /\ Free(n)
      BY <1>0, <1>8, <2>2, OnlyItsPump
    <3>2. CASE Snapshot(n)
      <4>1. pump'[n].batch = pump[n].batch /\ UNCHANGED <<status, key, queue>>
        BY <3>1, <3>2 DEF Snapshot, ShapeInv, PumpStates
      <4>2. QED
        BY <3>1, <4>1
    <3>3. CASE ReadEvent(n)
      <4>1. /\ pump[n].from = n /\ UNCHANGED <<status, key>>
        BY <3>1, <3>3 DEF ReadEvent
      <4>2. /\ queue[n] # <<>> /\ queue'[n] = Tail(queue[n])
            /\ pump'[n].batch = <<Head(queue[n])>>
        BY <3>1, <3>3, <4>1, Reads
      <4>3. /\ Head(queue[n]) = queue[n][1] /\ 1 \in DOMAIN queue[n] /\ Head(queue[n]) \in InHand
            /\ \A i \in DOMAIN Tail(queue[n]) :
                 i + 1 \in DOMAIN queue[n] /\ Tail(queue[n])[i] = queue[n][i + 1]
        BY <3>1, <4>2, InItsQueue
      <4>4. \A i \in DOMAIN queue'[n] : queue'[n][i].type \notin Terminal
        BY <3>1, <4>2, <4>3
      <4>5. \A i \in DOMAIN pump'[n].batch : pump'[n].batch[i] = Head(queue[n])
        BY <4>2, <4>3, Single
      <4>6. \A i \in DOMAIN pump'[n].batch : pump'[n].batch[i].type \notin Terminal
        BY <3>1, <4>3, <4>5
      <4>7. QED
        BY <3>1, <4>1, <4>4, <4>6
    <3>4. CASE ReadNothing(n)
      <4>1. pump'[n].batch = pump[n].batch /\ UNCHANGED <<status, key, queue>>
        BY <3>1, <3>4, Moves DEF ReadNothing, PumpPlaces
      <4>2. QED
        BY <3>1, <4>1
    <3>5. CASE LookAlive(n)
      <4>1. pump'[n].batch = <<>> /\ UNCHANGED <<status, key, queue>>
        BY <3>1, <3>5, Turns DEF LookAlive, PumpPlaces
      <4>2. QED
        BY <3>1, <4>1, Empty
    <3>6. ~Drain(n)
      BY <3>1 DEF Drain, Exited
    <3>7. CASE SkipEvent(n) \/ DeliverEvent(n)
      <4>1. pump[n].batch # <<>> /\ Done(n) /\ UNCHANGED <<status, key, queue>>
        BY <3>1, <3>7, FromSomewhere DEF SkipEvent, DeliverEvent
      <4>2. pump'[n].batch = Tail(pump[n].batch) \/ pump'[n].batch = <<>>
        BY <3>1, <4>1, GoesOn
      <4>3. \A i \in DOMAIN Tail(pump[n].batch) :
              i + 1 \in DOMAIN pump[n].batch /\ Tail(pump[n].batch)[i] = pump[n].batch[i + 1]
        BY <3>1, <4>1, InItsHand
      <4>4. \A i \in DOMAIN pump'[n].batch : pump'[n].batch[i].type \notin Terminal
        BY <3>1, <4>2, <4>3, Empty
      <4>5. QED
        BY <3>1, <4>1, <4>4
    <3>8. CASE HandleEvent(n)
      <4>1. /\ Head(pump[n].batch).type \notin Terminal
        <5>1. /\ pump[n].batch # <<>>
          BY <3>1, <3>8, FromSomewhere DEF HandleEvent
        <5>2. Head(pump[n].batch) = pump[n].batch[1] /\ 1 \in DOMAIN pump[n].batch
          BY <3>1, <5>1, InItsHand
        <5>3. QED
          BY <3>1, <5>2
      <4>2. /\ status'[n] \in {"active", status[n]} /\ pump'[n].batch = pump[n].batch
            /\ UNCHANGED <<key, queue>>
        BY <3>1, <3>8, <4>1, Handles DEF HandleEvent
      <4>3. status'[n] \notin Terminal
        BY <3>1, <4>2 DEF Terminal
      <4>4. QED
        BY <3>1, <4>2, <4>3
    <3>9. CASE AppendEvent(n)
      <4>1. pump[n].batch # <<>>
        BY <3>1, <3>9, FromSomewhere DEF AppendEvent
      <4>2. Head(pump[n].batch) = pump[n].batch[1] /\ 1 \in DOMAIN pump[n].batch
        BY <3>1, <4>1, InItsHand
      <4>3. UNCHANGED <<status, key, queue>>
        BY <3>1, <3>9, <4>2 DEF AppendEvent
      <4>4. \A i \in DOMAIN pump'[n].batch :
              i \in DOMAIN pump[n].batch /\ pump'[n].batch[i].type = pump[n].batch[i].type
        BY <3>1, <3>9, <4>1, Appends
      <4>5. QED
        BY <3>1, <4>3, <4>4
    <3>10. ~Finalize(n)
      BY <3>1 DEF Finalize
    <3>11. PumpStep(n)
      BY <1>8, <3>1
    <3>12. QED
      BY <3>2, <3>3, <3>4, <3>5, <3>6, <3>7, <3>8, <3>9, <3>10, <3>11 DEF PumpStep
  <2>3. ASSUME NEW n \in alone PROVE Lone(n)'
    <3>1. job' = n => \A q \in Jobs \ {n} : PumpGone(q)'
      BY <1>0, <1>8, <2>1, OnlyItsPump DEF PumpGone
    <3>2. worker'[n] \notin {"reported", "dead"} => Free(n)'
      BY <2>1, <2>2
    <3> HIDE DEF Free
    <3>3. QED
      BY <1>0, <2>1, <3>1, <3>2
  <2>4. QED
    BY <2>1, <2>3 DEF AloneInv
<1>9. QED
  <2>1. UNCHANGED vars => UNCHANGED <<request, key, job, status, worker, queue, alone, pump>>
    BY DEF vars
  <2>2. ASSUME NEW s \in Subs,
               \/ Unsubscribe(s)
               \/ \E n \in Jobs, after \in 0 .. Len(events) : Subscribe(s, n, after)
        PROVE  UNCHANGED <<request, key, job, status, worker, queue, alone, pump>>
    BY <2>2 DEF Unsubscribe, Subscribe
  <2>3. QED
    BY <1>1, <1>2, <1>3, <1>4, <1>5, <1>6, <1>7, <1>8, <2>1, <2>2 DEF Next

\* The stream goes on: what was in it stays in its place.
Grows == \A i \in DOMAIN events : i \in DOMAIN events' /\ events'[i] = events[i]

\* An event that the manager emits for the current job is the last one of a
\* stream that goes on.
LEMMA Extends ==
  ASSUME ShapeInv, NEW e \in Seen, events' = Append(events, e)
  PROVE  /\ Grows /\ Len(events) \in Nat /\ DOMAIN events = 1 .. Len(events)
         /\ Len(events) + 1 \in DOMAIN events' /\ events'[Len(events) + 1] = e
         /\ \A i \in DOMAIN events' : i \in DOMAIN events \/ i = Len(events) + 1
<1>1. events \in Seq(Seen)
  BY DEF ShapeInv
<1>2. /\ events' \in Seq(Seen) /\ Len(events') = Len(events) + 1
      /\ \A i \in 1 .. Len(events) : events'[i] = events[i]
      /\ events'[Len(events) + 1] = e
  BY <1>1, AppendProperties
<1>3. /\ DOMAIN events = 1 .. Len(events) /\ DOMAIN events' = 1 .. Len(events) + 1
      /\ Len(events) \in Nat
  BY <1>1, <1>2, LenProperties
<1>4. \A i \in DOMAIN events' : i \in DOMAIN events \/ i = Len(events) + 1
  BY <1>3
<1>5. QED
  BY <1>2, <1>3, <1>4 DEF Grows

\* A cancel is of the job whose worker lives, and is announced to all.
LEMMA Cancels ==
  ASSUME ShapeInv, LifeInv, NEW n \in Jobs, Cancel(n)
  PROVE  /\ job' = job /\ n = job /\ n = handle /\ Alive(n) /\ Die(n) /\ UNCHANGED pump
         /\ status'[n] = "cancelling" /\ asked' = asked \cup {n} /\ UNCHANGED alone
         /\ \E e \in Seen : /\ e.type = "cancelling" /\ events' = Append(events, e)
                           /\ Deliver(e, FALSE)
<1>1. /\ job' = job /\ n = job /\ Alive(handle) /\ Die(handle) /\ UNCHANGED <<pump, alone>>
      /\ status'[n] = "cancelling" /\ asked' = asked \cup {n} /\ EmitLocked("cancelling")
  BY DEF Cancel, ShapeInv
<1>2. handle \in Jobs
  BY <1>1, Basics DEF Alive, ShapeInv
<1>3. n = handle
  BY <1>1, <1>2 DEF LifeInv
<1>4. "cancelling" \in EventTypes /\ job' \in Jobs
  BY <1>1 DEF EventTypes
<1>5. PICK e \in Seen :
        /\ e.type = "cancelling"
        /\ events' = Append(IF job' = job THEN events ELSE <<>>, e)
        /\ Deliver(e, job' # job /\ events # <<>>)
  BY <1>1, <1>4, Emits
<1>6. events' = Append(events, e) /\ Deliver(e, FALSE)
  <2>1. (job' # job /\ events # <<>>) = FALSE
    BY <1>1
  <2>2. QED
    BY <1>1, <1>5, <2>1 DEF Deliver
<1>7. QED
  BY <1>1, <1>3, <1>5, <1>6

\* A cancelled job, started alone, is on its way to "cancelled".
LEMMA CancelStep ==
  ASSUME ShapeInv, RoomInv, LifeInv, PumpInv, AloneInv, CancelInv, [Next]_vars
  PROVE  CancelInv'
<1> USE DEF jobVars, workVars, history
<1> DEFINE Way(n) ==
             \/ Overtaken
             \/ pump[n].pc = "ended" /\ status[n] = "cancelled"
             \/ /\ pump[n].pc # "ended" /\ Told
                /\ status[n] = "cancelling" \/ pump[n].pc = "emit"
<1>0. /\ asked \subseteq Jobs /\ alone \subseteq Jobs
      /\ \A n \in asked : worker[n] = "dead" /\ (n \in alone /\ job = n => Way(n))
      /\ \A n \in asked : worker'[n] = "dead"
  BY StepsGoOnward DEF ShapeInv, CancelInv, Onward
<1>1. ASSUME Grows PROVE (Told => Told') /\ (Overtaken => Overtaken')
  BY <1>1 DEF Grows, Told, Overtaken
<1>2. CASE UNCHANGED <<job, status, asked, alone, pump, events>>
  BY <1>0, <1>2 DEF CancelInv, Told, Overtaken
<1>3. ASSUME NEW n \in Jobs, Start(n) \/ SpawnFails(n) PROVE CancelInv'
  <2>1. worker[n] = "none" /\ job' = n /\ UNCHANGED asked
    BY <1>3 DEF Start, SpawnFails, Arrives, LifeInv
  <2>2. \A m \in asked' : job' # m
    BY <1>0, <2>1
  <2>3. QED
    BY <1>0, <2>1, <2>2 DEF CancelInv
<1>4. ASSUME NEW n \in Jobs, Cancel(n) PROVE CancelInv'
  <2>1. /\ job' = job /\ n = job /\ Alive(n) /\ Die(n) /\ UNCHANGED pump
        /\ status'[n] = "cancelling" /\ asked' = asked \cup {n} /\ UNCHANGED alone
    BY <1>4, Cancels
  <2>2. PICK e \in Seen : e.type = "cancelling" /\ events' = Append(events, e)
    BY <1>4, Cancels
  <2>3. Told'
    BY <2>2, Extends DEF Told
  <2>4. worker'[n] = "dead"
    BY <2>1, Dies DEF ShapeInv
  <2>5. pump[n].pc # "ended"
    BY <2>1 DEF Alive, PumpInv
  <2>6. Way(n)'
    BY <2>1, <2>3, <2>5
  <2>7. \A m \in asked' : worker'[m] = "dead" /\ (job' = m => Way(m)')
    BY <1>0, <2>1, <2>4, <2>6
  <2>8. QED
    BY <2>7 DEF CancelInv
<1>5. ASSUME NEW p \in Jobs, PumpStep(p) PROVE CancelInv'
  <2>1. /\ UNCHANGED <<job, asked, alone>> /\ pump[p].pc \notin {"off", "ended"}
        /\ pump'[p].pc = "ended" <=> Finalize(p)
    BY <1>5, PumpSteps
  <2>2. ASSUME NEW n \in asked, n \in alone, job = n PROVE Way(n)'
    <3>1. n = p /\ Way(n) /\ pump[n].pc # "ended"
      BY <1>0, <1>5, <2>1, <2>2, OnlyItsPump
    <3>2. CASE Quiet(n) \/ DeliverEvent(n)
      <4>1. /\ UNCHANGED <<status, events>>
            /\ pump[n].pc # "emit" /\ pump'[n].pc # "ended"
        BY <3>1, <3>2, QuietSteps
      <4>2. QED
        BY <3>1, <4>1 DEF Told, Overtaken
    <3>3. CASE HandleEvent(n)
      <4>1. pump'[n].pc = "emit" /\ UNCHANGED events
        BY <3>1, <3>3, Handles
      <4>2. QED
        BY <3>1, <4>1 DEF Told, Overtaken
    <3>4. CASE AppendEvent(n)
      <4>1. pump[n].batch # <<>>
        BY <3>1, <3>4, FromSomewhere DEF AppendEvent
      <4>2. /\ Len(events) \in Nat /\ DOMAIN events = 1 .. Len(events)
            /\ DOMAIN events' = 1 .. Len(events) + 1
            /\ \A i \in DOMAIN events : events'[i] = events[i]
            /\ events'[Len(events) + 1].by = "worker"
        BY <3>1, <3>4, <4>1, Appends
      <4>3. Grows
        BY <4>2 DEF Grows
      <4>4. Told => Overtaken'
        <5>1. SUFFICES ASSUME NEW i \in DOMAIN events, events[i].type = "cancelling"
                       PROVE  Overtaken'
          BY DEF Told
        <5>2. /\ i \in DOMAIN events' /\ Len(events) + 1 \in DOMAIN events' /\ i < Len(events) + 1
              /\ events'[i].type = "cancelling" /\ events'[Len(events) + 1].by = "worker"
          BY <4>2, <5>1
        <5>3. QED
          BY <5>2 DEF Overtaken
      <4>5. QED
        BY <1>1, <3>1, <4>3, <4>4
    <3>5. CASE Finalize(n)
      <4>1. pump[n].pc = "final" /\ pump'[n].pc = "ended" /\ job = n /\ n \in Jobs
        BY <2>1, <2>2, <3>1, <3>5 DEF Finalize
      <4>2. CASE Overtaken
        <5>1. Grows
          BY <3>1, <3>5, Finalizes, Extends DEF Grows
        <5>2. QED
          BY <1>1, <4>2, <5>1
      <4>3. CASE ~Overtaken
        <5>1. status[n] = "cancelling"
          BY <3>1, <4>1, <4>3
        <5>2. status'[n] = "cancelled"
          BY <3>1, <3>5, <4>1, <5>1 DEF Finalize, ShapeInv, Running, EndStatus
        <5>3. QED
          BY <4>1, <5>2
      <4>4. QED
        BY <4>2, <4>3
    <3>6. QED
      BY <1>5, <3>1, <3>2, <3>3, <3>4, <3>5 DEF PumpStep, Quiet
  <2>3. QED
    BY <1>0, <2>1, <2>2 DEF CancelInv
<1>6. QED
  <2>1. UNCHANGED vars => UNCHANGED <<job, status, asked, alone, pump, events>>
    BY DEF vars
  <2>2. ASSUME NEW n \in Jobs, Refuse(n) \/ Work(n) \/ Exit(n) \/ Crash(n)
        PROVE  UNCHANGED <<job, status, asked, alone, pump, events>>
    BY <2>2 DEF Refuse, Work, Exit, Crash
  <2>3. ASSUME NEW s \in Subs,
               \/ Unsubscribe(s)
               \/ \E n \in Jobs, after \in 0 .. Len(events) : Subscribe(s, n, after)
        PROVE  UNCHANGED <<job, status, asked, alone, pump, events>>
    BY <2>3 DEF Unsubscribe, Subscribe
  <2>4. QED
    BY <1>2, <1>3, <1>4, <1>5, <2>1, <2>2, <2>3 DEF Next

-----------------------------------------------------------------------------
(* The stream.                                                              *)

\* An event appended and delivered at once, under the lock, is lost to nobody.
LEMMA DeliveredAtOnce ==
  ASSUME ShapeInv, NoEventLost, NEW e \in Seen, events' = Append(events, e),
         Deliver(e, FALSE), \A p \in Jobs : pump'[p] = pump[p] \/ pump[p].pc # "deliver"
  PROVE  NoEventLost'
<1>1. ASSUME NEW s \in Subs, sub'[s].open, NEW i \in DOMAIN events', i > sub'[s].after
      PROVE  events'[i] \in sub'[s].got \/ InDelivery(events[i])'
  <2>1. /\ sub[s].open /\ sub'[s].after = sub[s].after /\ e \in sub'[s].got
        /\ sub[s].got \subseteq sub'[s].got
    BY <1>1, Delivers
  <2>2. CASE i \in DOMAIN events
    <3>1. events'[i] = events[i]
      BY <2>2, Extends DEF Grows
    <3>2. events[i] \in sub[s].got \/ InDelivery(events[i])
      BY <1>1, <2>1, <2>2 DEF NoEventLost
    <3>3. InDelivery(events[i]) => InDelivery(events[i])'
      BY <3>1 DEF InDelivery
    <3>4. QED
      BY <2>1, <3>1, <3>2, <3>3
  <2>3. CASE i \notin DOMAIN events
    BY <1>1, <2>1, <2>3, Extends
  <2>4. QED
    BY <2>2, <2>3
<1>2. QED
  BY <1>1 DEF NoEventLost

\* A subscriber loses no event.
LEMMA NoEventLostStep ==
  ASSUME ShapeInv, RoomInv, LifeInv, PumpInv, NoEventLost, [Next]_vars
  PROVE  NoEventLost'
<1> USE DEF jobVars, workVars, history
<1>1. ASSUME UNCHANGED <<events, sub>>,
             \A p \in Jobs : pump'[p] = pump[p] \/ pump[p].pc # "deliver"
      PROVE  NoEventLost'
  <2>1. \A e : InDelivery(e) => InDelivery(e)'
    BY <1>1 DEF InDelivery
  <2>2. QED
    BY <1>1, <2>1 DEF NoEventLost
<1>2. ASSUME NEW n \in Jobs, Start(n) PROVE NoEventLost'
  <2>1. n # job
    BY <1>2, Basics DEF Start, Arrives, LifeInv, ShapeInv, Jobs
  <2>2. job' = n /\ job' \in Jobs /\ EmitLocked("enqueued") /\ "enqueued" \in EventTypes
    BY <1>2 DEF Start, EventTypes
  <2>3. PICK e \in Seen :
          /\ events' = Append(IF job' = job THEN events ELSE <<>>, e)
          /\ Deliver(e, job' # job /\ events # <<>>)
    BY <2>2, Emits
  <2>4. events' = <<e>>
    BY <2>1, <2>2, <2>3
  <2>5. \A i \in DOMAIN events' : events'[i] = e
    BY <2>4
  <2>6. \A s \in Subs : sub'[s].open => e \in sub'[s].got
    BY <2>3, Delivers
  <2>7. QED
    BY <2>5, <2>6 DEF NoEventLost
<1>3. ASSUME NEW n \in Jobs, SpawnFails(n) PROVE NoEventLost'
  <2>1. events' = <<>>
    BY <1>3 DEF SpawnFails
  <2>2. DOMAIN events' = {}
    BY <2>1, Empty
  <2>3. QED
    BY <2>2 DEF NoEventLost
<1>4. ASSUME NEW n \in Jobs, Cancel(n) PROVE NoEventLost'
  <2>1. PICK e \in Seen : events' = Append(events, e) /\ Deliver(e, FALSE)
    BY <1>4, Cancels
  <2>2. UNCHANGED pump
    BY <1>4 DEF Cancel
  <2>3. QED
    BY <2>1, <2>2, DeliveredAtOnce
<1>5. ASSUME NEW p \in Jobs, PumpStep(p) PROVE NoEventLost'
  <2>1. \A q \in Jobs \ {p} : pump'[q] = pump[q]
    BY <1>5, PumpSteps
  <2>2. CASE Quiet(p)
    <3>1. UNCHANGED <<events, sub>> /\ pump[p].pc # "deliver"
      BY <2>2, QuietSteps
    <3>2. QED
      BY <1>1, <2>1, <3>1
  <2>3. CASE HandleEvent(p)
    <3>1. UNCHANGED <<events, sub>> /\ pump[p].pc # "deliver"
      BY <2>3, Handles
    <3>2. QED
      BY <1>1, <2>1, <3>1
  <2>4. CASE AppendEvent(p)
    <3>1. pump[p].pc = "emit" /\ UNCHANGED sub /\ pump[p].batch # <<>>
      BY <2>4, FromSomewhere DEF AppendEvent
    <3>2. /\ Len(events) \in Nat /\ DOMAIN events = 1 .. Len(events)
          /\ DOMAIN events' = 1 .. Len(events) + 1
          /\ \A i \in DOMAIN events : events'[i] = events[i]
          /\ Head(pump'[p].batch) = events'[Len(events) + 1] /\ pump'[p].pc = "deliver"
      BY <2>4, <3>1, Appends
    <3>3. ASSUME NEW s \in Subs, sub'[s].open, NEW i \in DOMAIN events', i > sub'[s].after
          PROVE  events'[i] \in sub'[s].got \/ InDelivery(events[i])'
      <4>1. CASE i \in DOMAIN events
        <5>1. events'[i] = events[i]
          BY <3>2, <4>1
        <5>2. events[i] \in sub[s].got \/ InDelivery(events[i])
          BY <3>1, <3>3, <4>1 DEF NoEventLost
        <5>3. InDelivery(events[i]) => InDelivery(events[i])'
          BY <2>1, <3>1, <5>1 DEF InDelivery
        <5>4. QED
          BY <3>1, <5>1, <5>2, <5>3
      <4>2. CASE i \notin DOMAIN events
        <5>1. i = Len(events) + 1
          BY <3>2, <3>3, <4>2
        <5>2. QED
          BY <3>2, <5>1 DEF InDelivery
      <4>3. QED
        BY <4>1, <4>2
    <3>4. QED
      BY <3>3 DEF NoEventLost
  <2>5. CASE DeliverEvent(p)
    <3> DEFINE e == Head(pump[p].batch)
    <3>1. UNCHANGED events /\ e \in Seen /\ Deliver(e, FALSE)
      BY <2>5, FromSomewhere DEF DeliverEvent
    <3>2. \A s \in Subs : sub'[s].open =>
            /\ sub[s].open /\ sub'[s].after = sub[s].after /\ e \in sub'[s].got
            /\ sub[s].got \subseteq sub'[s].got
      BY <3>1, Delivers
    <3>3. ASSUME NEW d, InDelivery(d) PROVE d = e \/ InDelivery(d)'
      BY <2>1, <3>3 DEF InDelivery
    <3> HIDE DEF e
    <3>4. QED
      BY <3>1, <3>2, <3>3 DEF NoEventLost
  <2>6. CASE Finalize(p)
    <3>1. pump[p].pc = "final"
      BY <2>6 DEF Finalize
    <3>2. CASE status[job] \in Running
      <4>1. PICK e \in Seen : events' = Append(events, e) /\ Deliver(e, FALSE)
        BY <2>6, <3>2, Finalizes
      <4>2. QED
        BY <2>1, <3>1, <4>1, DeliveredAtOnce
    <3>3. CASE status[job] \notin Running
      <4>1. UNCHANGED <<events, sub>>
        BY <2>6, <3>3, Finalizes
      <4>2. QED
        BY <1>1, <2>1, <3>1, <4>1
    <3>4. QED
      BY <3>2, <3>3
  <2>7. QED
    BY <1>5, <2>2, <2>3, <2>4, <2>5, <2>6 DEF PumpStep, Quiet
<1>6. ASSUME NEW s \in Subs, NEW n \in Jobs, NEW after \in 0 .. Len(events),
             Subscribe(s, n, after)
      PROVE  NoEventLost'
  <2>1. /\ sub'[s].after = IF after > Gone THEN after ELSE Gone
        /\ sub'[s].got = Replay(after)
        /\ \A r \in Subs \ {s} : sub'[r] = sub[r]
        /\ UNCHANGED <<events, pump>>
    BY <1>6 DEF Subscribe, ShapeInv
  <2>2. /\ after \in Nat /\ Gone \in Nat
        /\ \A i \in DOMAIN events : i > after /\ i > Gone => events[i] \in Replay(after)
    BY Buffer DEF ShapeInv
  <2>3. \A i \in DOMAIN events : i \in Nat
    BY LenProperties DEF ShapeInv
  <2>4. \A i \in DOMAIN events : i > sub'[s].after => events[i] \in sub'[s].got
    BY <2>1, <2>2, <2>3
  <2>5. \A d : InDelivery(d) => InDelivery(d)'
    BY <2>1 DEF InDelivery
  <2>6. QED
    BY <2>1, <2>4, <2>5 DEF NoEventLost
<1>7. ASSUME NEW s \in Subs, Unsubscribe(s) PROVE NoEventLost'
  <2>1. ~sub'[s].open /\ (\A r \in Subs \ {s} : sub'[r] = sub[r]) /\ UNCHANGED <<events, pump>>
    BY <1>7 DEF Unsubscribe, ShapeInv, Closed
  <2>2. \A d : InDelivery(d) => InDelivery(d)'
    BY <2>1 DEF InDelivery
  <2>3. QED
    BY <2>1, <2>2 DEF NoEventLost
<1>8. QED
  <2>1. UNCHANGED vars => UNCHANGED <<events, sub, pump>>
    BY DEF vars
  <2>2. ASSUME NEW n \in Jobs, Refuse(n) \/ Work(n) \/ Exit(n) \/ Crash(n)
        PROVE  UNCHANGED <<events, sub, pump>>
    BY <2>2 DEF Refuse, Work, Exit, Crash
  <2>3. QED
    BY <1>1, <1>2, <1>3, <1>4, <1>5, <1>6, <1>7, <2>1, <2>2 DEF Next

\* An ended job's stream holds an ending.
LEMMA EndIsAnnouncedStep ==
  ASSUME ShapeInv, RoomInv, LifeInv, PumpInv, EndIsAnnounced, [Next]_vars
  PROVE  EndIsAnnounced'
<1> USE DEF jobVars, workVars, history
<1> DEFINE Announced == \E i \in DOMAIN events : events[i].type \in Terminal
<1>1. CASE UNCHANGED <<job, status, pump, events>>
  BY <1>1 DEF EndIsAnnounced, EndingInHand
<1>2. ASSUME NEW n \in Jobs, Start(n) \/ SpawnFails(n) \/ Cancel(n) PROVE EndIsAnnounced'
  <2>1. job' = n /\ status'[n] \in {"pending", "cancelling"}
    BY <1>2 DEF Start, SpawnFails, Cancel, ShapeInv
  <2>2. status'[n] \notin Terminal
    BY <2>1 DEF Terminal
  <2>3. QED
    BY <2>1, <2>2 DEF EndIsAnnounced
<1>3. ASSUME NEW p \in Jobs, PumpStep(p) PROVE EndIsAnnounced'
  <2>1. job' = job /\ job \in Jobs /\ job # 0 /\ \A q \in Jobs \ {p} : pump'[q] = pump[q]
    BY <1>3, PumpSteps, Basics
  <2>2. ASSUME pump[p].pc = "emit" => Head(pump[p].batch).type \notin Terminal, EndingInHand
        PROVE  EndingInHand'
    BY <2>1, <2>2 DEF EndingInHand
  <2>3. CASE Quiet(p) \/ DeliverEvent(p)
    <3>1. UNCHANGED <<status, events>> /\ pump[p].pc # "emit"
      BY <2>3, QuietSteps
    <3>2. QED
      BY <2>1, <2>2, <3>1 DEF EndIsAnnounced
  <2>4. CASE HandleEvent(p)
    <3>1. pump[p].pc = "handle" /\ UNCHANGED events
      BY <2>4, Handles
    <3>2. CASE Head(pump[p].batch).type \in Terminal
      <4>1. EndingInHand'
        BY <2>4, <3>2, Handles DEF EndingInHand
      <4>2. QED
        BY <4>1 DEF EndIsAnnounced
    <3>3. CASE Head(pump[p].batch).type \notin Terminal
      <4>1. status'[job] \in Terminal => status[job] \in Terminal
        BY <2>4, <3>3, Handles
      <4>2. QED
        BY <2>1, <2>2, <3>1, <4>1 DEF EndIsAnnounced
    <3>4. QED
      BY <3>2, <3>3
  <2>5. CASE AppendEvent(p)
    <3>1. pump[p].pc = "emit" /\ pump[p].batch # <<>> /\ UNCHANGED status
      BY <2>5, FromSomewhere DEF AppendEvent
    <3>2. /\ Len(events) \in Nat /\ DOMAIN events = 1 .. Len(events)
          /\ DOMAIN events' = 1 .. Len(events) + 1
          /\ \A i \in DOMAIN events : events'[i] = events[i]
          /\ events'[Len(events) + 1].type = Head(pump[p].batch).type
      BY <2>5, <3>1, Appends
    <3>3. Announced => Announced'
      BY <3>2
    <3>4. CASE Head(pump[p].batch).type \in Terminal
      <4>1. Announced'
        BY <3>2, <3>4
      <4>2. QED
        BY <4>1 DEF EndIsAnnounced
    <3>5. CASE Head(pump[p].batch).type \notin Terminal
      BY <2>1, <2>2, <3>1, <3>3, <3>5 DEF EndIsAnnounced
    <3>6. QED
      BY <3>4, <3>5
  <2>6. CASE Finalize(p)
    <3>1. pump[p].pc = "final"
      BY <2>6 DEF Finalize
    <3>2. CASE status[job] \in Running
      <4>1. PICK e \in Seen : e.type = EndStatus(status[job]) /\ events' = Append(events, e)
        BY <2>6, <3>2, Finalizes
      <4>2. e.type \in Terminal
        BY <4>1 DEF EndStatus, Terminal
      <4>3. Announced'
        BY <4>1, <4>2, Extends
      <4>4. QED
        BY <4>3 DEF EndIsAnnounced
    <3>3. CASE status[job] \notin Running
      <4>1. UNCHANGED <<status, events>>
        BY <2>6, <3>3, Finalizes
      <4>2. QED
        BY <2>1, <2>2, <3>1, <4>1 DEF EndIsAnnounced
    <3>4. QED
      BY <3>2, <3>3
  <2>7. QED
    BY <1>3, <2>3, <2>4, <2>5, <2>6 DEF PumpStep, Quiet
<1>4. QED
  <2>1. UNCHANGED vars => UNCHANGED <<job, status, pump, events>>
    BY DEF vars
  <2>2. ASSUME NEW n \in Jobs, Refuse(n) \/ Work(n) \/ Exit(n) \/ Crash(n)
        PROVE  UNCHANGED <<job, status, pump, events>>
    BY <2>2 DEF Refuse, Work, Exit, Crash
  <2>3. ASSUME NEW s \in Subs,
               \/ Unsubscribe(s)
               \/ \E n \in Jobs, after \in 0 .. Len(events) : Subscribe(s, n, after)
        PROVE  UNCHANGED <<job, status, pump, events>>
    BY <2>3 DEF Unsubscribe, Subscribe
  <2>4. QED
    BY <1>1, <1>2, <1>3, <2>1, <2>2, <2>3 DEF Next

-----------------------------------------------------------------------------
(* The theorems.                                                            *)

\* The invariant holds at first: no job, no worker, no pump, no subscriber.
LEMMA InitInv == Init => IInv
<1> SUFFICES ASSUME Init PROVE IInv
  OBVIOUS
<1>1. ShapeInv
  <2>1. Idle \in PumpStates
    BY AtRest, Empty, Basics DEF Idle, PumpStates, PumpPlaces
  <2>2. queue \in [Jobs -> Seq(Sent)] /\ events \in Seq(Seen) /\ pump \in [Jobs -> PumpStates]
    BY <2>1, Empty DEF Init
  <2>3. QED
    BY <2>2, Basics DEF Init, ShapeInv, Closed
<1>2. RoomInv
  BY Empty DEF Init, RoomInv, Room, Idle
<1>3. LifeInv
  BY Basics DEF Init, LifeInv, Idle, Alive, Jobs
<1>4. PumpInv /\ KeyInv /\ RunInv /\ AloneInv /\ CancelInv
  BY DEF Init, PumpInv, KeyInv, RunInv, AloneInv, CancelInv, Idle, Terminal
<1>5. StreamIsComplete
  BY Empty DEF Init, StreamIsComplete, NoEventLost, EndIsAnnounced
<1>6. QED
  BY <1>1, <1>2, <1>3, <1>4, <1>5 DEF IInv

\* Every state of every execution satisfies the inductive invariant.
THEOREM InvariantHolds == Spec => []IInv
<1>1. ASSUME IInv, [Next]_vars PROVE IInv'
  <2>1. ShapeInv /\ RoomInv /\ LifeInv /\ PumpInv /\ KeyInv /\ RunInv /\ AloneInv /\ CancelInv
        /\ NoEventLost /\ EndIsAnnounced
    BY <1>1 DEF IInv, StreamIsComplete
  <2>2. ShapeInv'
    BY <1>1, <2>1, ShapeStep
  <2>3. QED
    BY <1>1, <2>1, <2>2, RoomStep, LifeStep, PumpInvStep, KeyStep, RunStep, AloneStep,
       CancelStep, NoEventLostStep, EndIsAnnouncedStep
    DEF IInv, StreamIsComplete
<1>2. QED
  BY <1>1, InitInv, PTL DEF Spec

\* However few events the buffer keeps, no subscriber loses one that the
\* buffer still held when it joined, nor any later one; and the end of a job is
\* in its stream.
THEOREM StreamsAreComplete == Spec => []StreamIsComplete
<1>1. IInv => StreamIsComplete
  BY DEF IInv
<1>2. QED
  BY <1>1, InvariantHolds, PTL

\* A job ends because its worker reported or died, and ends as cancelled when
\* it was cancelled and no event of the worker came after that.
THEOREM JobsEndForTheirReason == Spec => []EndsForItsReason
<1>1. ASSUME IInv PROVE NothingEndsEarly
  BY <1>1 DEF IInv, AloneInv, NothingEndsEarly
<1>2. ASSUME IInv PROVE CancelIsHonoured
  <2>1. SUFFICES ASSUME Settled, job \in asked, job \in alone
                 PROVE  \/ status[job] = "cancelled"
                        \/ Overtaken
    BY DEF CancelIsHonoured, Overtaken
  <2>2. job \in Jobs /\ worker[job] = "dead" /\ request[job] = "started"
    BY <1>2, <2>1, Basics DEF IInv, ShapeInv, CancelInv, Settled
  <2>3. pump[job].pc = "ended"
    BY <1>2, <2>1, <2>2 DEF IInv, LifeInv, Settled
  <2>4. QED
    BY <1>2, <2>1, <2>3 DEF IInv, CancelInv
<1>3. IInv => EndsForItsReason
  BY <1>1, <1>2 DEF EndsForItsReason
<1>4. QED
  BY <1>3, InvariantHolds, PTL

\* No job is left running, and no key valid, behind the last pump; and the
\* variables have their types.
THEOREM AllJobsAreSettled == Spec => []JobsAreSettled
<1>1. ASSUME IInv PROVE TypeOK
  <2>1. ASSUME NEW n \in Jobs
        PROVE  Len(queue[n]) <= 3 /\ \A i \in DOMAIN queue[n] : queue[n][i] \in Event
    <3>1. Len(queue[n]) \in Nat /\ Len(queue[n]) <= Room(n) /\ Room(n) \in 0 .. 3
      BY <1>1, InItsQueue, Rooms DEF IInv, RoomInv
    <3>2. \A i \in DOMAIN queue[n] : queue[n][i] \in Sent
      BY <1>1, InItsQueue DEF IInv
    <3>3. Sent \subseteq Event
      BY DEF Sent, Event, Reports, EventTypes, Terminal
    <3>4. QED
      BY <3>1, <3>2, <3>3
  <2>2. \A i \in DOMAIN events : events[i] \in Seen
    BY <1>1, LenProperties, ElementOfSeq DEF IInv, ShapeInv
  <2>3. ASSUME NEW p \in Jobs
        PROVE  /\ pump[p].pc \in PumpPlaces
               /\ pump[p].job \in 0 .. MaxJobs /\ pump[p].from \in 0 .. MaxJobs
               /\ pump[p].last \in BOOLEAN
               /\ Len(pump[p].batch) <= 3
               /\ pump[p].batch # <<>> <=> pump[p].pc \in {"handle", "emit", "deliver"}
    BY <1>1 DEF IInv, ShapeInv, RoomInv, PumpStates
  <2>4. QED
    BY <1>1, <2>1, <2>2, <2>3 DEF IInv, ShapeInv, TypeOK
<1>2. ASSUME IInv, Settled PROVE status[job] \in Terminal /\ key[job] = "revoked"
  <2>1. job # 0 /\ job \in Jobs /\ request[job] = "started"
        /\ \A p \in Jobs : pump[p].pc \in {"off", "ended"}
    BY <1>2, Basics DEF IInv, ShapeInv, Settled
  <2>2. status[job] \in Running \cup Terminal
    BY <1>2, <2>1 DEF IInv, ShapeInv, LifeInv
  <2>3. status[job] \in Terminal
    BY <1>2, <2>1, <2>2 DEF IInv, RunInv, PumpGone
  <2>4. QED
    BY <1>2, <2>1, <2>3 DEF IInv, KeyInv, Ends
<1>3. ASSUME IInv PROVE EndedJobKeepsNoKey
  BY <1>3 DEF IInv, KeyInv, Ends, EndedJobKeepsNoKey
<1>4. IInv => JobsAreSettled
  BY <1>1, <1>2, <1>3 DEF JobsAreSettled, SettledJobHasEnded
<1>5. QED
  BY <1>4, InvariantHolds, PTL
=============================================================================
