--------------------------- MODULE LlamaAdmission ---------------------------
(***************************************************************************)
(* core/inference/llama_admission.py: the cancellable FIFO queue that      *)
(* bounds how many generation requests one llama-server runs at a time,    *)
(* together with the way routes/inference.py drives a reservation.         *)
(*                                                                         *)
(* Three kinds of thread meet here.  The route of a request reserves,      *)
(* polls, cancels and releases; the event loop of a request runs the       *)
(* callbacks that call_soon_threadsafe scheduled for it; and any thread    *)
(* may be the one that returns a slot.  A step of the model is one section *)
(* under LlamaAdmissionQueue._lock or one callback, so the window between  *)
(* marking a lease released and giving its slot back is a state here.      *)
(***************************************************************************)
EXTENDS Naturals, FiniteSets

CONSTANTS Requests,     \* the requests; each one reserves at most once
          Capacities,   \* what callers pass as reserve's capacity; 0 is "not known"
          MaxQueue      \* LlamaAdmissionConfig.max_queue

ASSUME CapacitiesAssumption == Capacities \subseteq Nat
ASSUME MaxQueueAssumption   == MaxQueue \in Nat \ {0}

VARIABLES
  active,      \* LlamaAdmissionQueue._active
  capacity,    \* LlamaAdmissionQueue._capacity
  waiters,     \* LlamaAdmissionQueue._waiters, ordered by ticket
  ticket,      \* [Requests -> Nat]: the place of a request in arrival order
  arrivals,    \* how many requests were queued so far
  future,      \* [Requests -> ...]: _Waiter.future
  cancelled,   \* the requests whose _Waiter.cancelled is True
  granted,     \* the requests whose _Waiter.granted_lease is set
  lease,       \* [Requests -> ...]: the LlamaAdmissionLease made for a request
  callbacks,   \* what call_soon_threadsafe scheduled and the loop did not run yet
  phase        \* [Requests -> ...]: the reservation, as its route sees it

vars == <<active, capacity, waiters, ticket, arrivals, future, cancelled,
          granted, lease, callbacks, phase>>

-----------------------------------------------------------------------------
(* Types.                                                                  *)

\* "none" before the request is queued; the other three are asyncio's.
FutureState == {"none", "pending", "result", "cancelled"}

\* "releasing": _released is True and queue.release() has not run yet.
LeaseState == {"none", "live", "releasing", "released"}

\* "queued":   _waiter is set          "holding":  _lease is set, slot in use
\* "finished": the route released the lease, the reservation still names it
\* "closed":   neither is set          "rejected": LlamaAdmissionQueueFull
Phase == {"new", "queued", "holding", "finished", "closed", "rejected"}

Callback == {"deliver", "cancel"} \X Requests

TypeOK ==
  /\ active \in Nat
  /\ capacity \in Nat \ {0}
  /\ waiters \subseteq Requests
  /\ ticket \in [Requests -> Nat]
  /\ arrivals \in Nat
  /\ future \in [Requests -> FutureState]
  /\ cancelled \subseteq Requests
  /\ granted \subseteq Requests
  /\ lease \in [Requests -> LeaseState]
  /\ callbacks \subseteq Callback
  /\ phase \in [Requests -> Phase]

Init ==
  /\ active = 0
  /\ capacity = 1
  /\ waiters = {}
  /\ ticket = [r \in Requests |-> 0]
  /\ arrivals = 0
  /\ future = [r \in Requests |-> "none"]
  /\ cancelled = {}
  /\ granted = {}
  /\ lease = [r \in Requests |-> "none"]
  /\ callbacks = {}
  /\ phase = [r \in Requests |-> "new"]

-----------------------------------------------------------------------------
(* Operators of the queue, each evaluated under _lock.                     *)

\* _prune_waiters_locked: what is left of a queue once the dead are dropped.
Live(W) == {r \in W : r \notin cancelled /\ future[r] = "pending"}

\* Mutant: the queue is popped at the wrong end.
Latest(W, n) ==
  {G \in SUBSET W :
     /\ Cardinality(G) = IF n < Cardinality(W) THEN n ELSE Cardinality(W)
     /\ \A g \in G, s \in W \ G : ticket[g] > ticket[s]}

\* The first n waiters of W, or all of them when there are fewer.
Earliest(W, n) ==
  {G \in SUBSET W :
     /\ Cardinality(G) = IF n < Cardinality(W) THEN n ELSE Cardinality(W)
     /\ \A g \in G, s \in W \ G : ticket[g] < ticket[s]}

\* Mutant: the capacity test admits one too many.
FreePlusOne(cap, act) == IF act <= cap THEN cap - act + 1 ELSE 0

\* How many slots the loop of _grant_waiters_locked may hand out.
Free(cap, act) == IF act < cap THEN cap - act ELSE 0

\* Mutant: the grant is recorded and never scheduled.
GrantUnscheduled(G) ==
  /\ granted' = granted \cup G
  /\ callbacks' = callbacks

\* Give every request of G its slot: the lease is made, remembered in
\* granted_lease and scheduled for delivery on the request's loop.
Grant(G) ==
  /\ granted' = granted \cup G
  /\ callbacks' = callbacks \cup ({"deliver"} \X G)

\* Mutant: release without its _released flag.
MarkReleasedAgain(r) ==
  lease' = [lease EXCEPT ![r] = IF @ # "none" THEN "releasing" ELSE @]

\* LlamaAdmissionLease.release up to the call of queue.release(): only the
\* first call on a lease goes on.
MarkReleased(r) ==
  lease' = [lease EXCEPT ![r] = IF @ = "live" THEN "releasing" ELSE @]

-----------------------------------------------------------------------------
(* The route of a request.                                                 *)

\* Mutant: the capacity is taken as it comes.
Unclamped(c) == c

\* max(1, int(capacity or 1)).
AtLeastOne(c) == IF c = 0 THEN 1 ELSE c

\* What the newcomer r adds to a section that granted the waiters of G: it
\* holds a lease at once, ...
AdmitAtOnce(r, G) ==
  /\ active' = active + Cardinality(G) + 1
  /\ waiters' = Live(waiters) \ G
  /\ lease' = [q \in Requests |-> IF q \in G \cup {r} THEN "live" ELSE lease[q]]
  /\ phase' = [phase EXCEPT ![r] = "holding"]
  /\ UNCHANGED <<ticket, arrivals, future>>

\* ... is turned away, ...
Reject(r, G) ==
  /\ active' = active + Cardinality(G)
  /\ waiters' = Live(waiters) \ G
  /\ lease' = [q \in Requests |-> IF q \in G THEN "live" ELSE lease[q]]
  /\ phase' = [phase EXCEPT ![r] = "rejected"]
  /\ UNCHANGED <<ticket, arrivals, future>>

\* ... or waits behind everybody else.
Enqueue(r, G) ==
  /\ active' = active + Cardinality(G)
  /\ waiters' = (Live(waiters) \ G) \cup {r}
  /\ ticket' = [ticket EXCEPT ![r] = arrivals + 1]
  /\ arrivals' = arrivals + 1
  /\ future' = [future EXCEPT ![r] = "pending"]
  /\ lease' = [q \in Requests |-> IF q \in G THEN "live" ELSE lease[q]]
  /\ phase' = [phase EXCEPT ![r] = "queued"]

\* reserve: adopt the capacity, prune and grant, then admit at once, reject
\* or queue the newcomer, all in one section.
Reserve(r, c) ==
  /\ phase[r] = "new"
  /\ capacity' = c
  /\ \E G \in Earliest(Live(waiters), Free(c, active)) :
       /\ Grant(G)
       /\ LET rest  == Live(waiters) \ G
              space == active + Cardinality(G) < c
          IN IF space /\ rest = {} THEN AdmitAtOnce(r, G)
             ELSE IF Cardinality(rest) >= MaxQueue THEN Reject(r, G)
             ELSE Enqueue(r, G)
  /\ UNCHANGED cancelled

\* lease_nowait / wait on a future that is done: take the lease, or learn
\* that the future was cancelled.
Poll(r) ==
  /\ phase[r] = "queued"
  /\ \/ /\ future[r] = "result"
        /\ phase' = [phase EXCEPT ![r] = "holding"]
        /\ UNCHANGED cancelled
     \/ /\ future[r] = "cancelled"
        /\ cancelled' = cancelled \cup {r}
        /\ phase' = [phase EXCEPT ![r] = "closed"]
  /\ UNCHANGED <<active, capacity, waiters, ticket, arrivals, future, granted,
                 lease, callbacks>>

\* LlamaAdmissionReservation.cancel when it names a lease: its own, or the
\* result its future already holds.
CancelLease(r) ==
  /\ \/ phase[r] \in {"holding", "finished"}
     \/ phase[r] = "queued" /\ future[r] = "result"
  /\ MarkReleased(r)
  /\ phase' = [phase EXCEPT ![r] = "closed"]
  /\ UNCHANGED <<active, capacity, waiters, ticket, arrivals, future, cancelled,
                 granted, callbacks>>

\* LlamaAdmissionReservation.cancel on a pending future: queue.cancel takes
\* the waiter out, takes back a lease not delivered yet and schedules the
\* cancellation of the future.
CancelWaiter(r) ==
  /\ phase[r] = "queued"
  /\ future[r] = "pending"
  /\ cancelled' = cancelled \cup {r}
  /\ waiters' = waiters \ {r}
  /\ granted' = granted \ {r}
  /\ IF r \in granted THEN MarkReleased(r) ELSE UNCHANGED lease
  /\ callbacks' = callbacks \cup {<<"cancel", r>>}
  /\ phase' = [phase EXCEPT ![r] = "closed"]
  /\ UNCHANGED <<active, capacity, ticket, arrivals, future>>

\* The generation is over: the route releases the lease it was given.  Its
\* `finally` may release it again, directly or through the reservation.
Finish(r) ==
  /\ phase[r] \in {"holding", "finished"}
  /\ MarkReleased(r)
  /\ phase' = [phase EXCEPT ![r] = "finished"]
  /\ UNCHANGED <<active, capacity, waiters, ticket, arrivals, future, cancelled,
                 granted, callbacks>>

\* Somebody else cancels the waiter's future (a loop that shuts down).
ExternalCancel(r) ==
  /\ phase[r] = "queued"
  /\ future[r] = "pending"
  /\ future' = [future EXCEPT ![r] = "cancelled"]
  /\ UNCHANGED <<active, capacity, waiters, ticket, arrivals, cancelled, granted,
                 lease, callbacks, phase>>

-----------------------------------------------------------------------------
(* The queue's release, run by whoever released a lease.                   *)

\* Give one slot back and grant what is free, under one lock.
ReturnSlot(r) ==
  /\ lease[r] = "releasing"
  /\ LET left == IF active > 0 THEN active - 1 ELSE active
     IN \E G \in Earliest(Live(waiters), Free(capacity, left)) :
          /\ active' = left + Cardinality(G)
          /\ waiters' = Live(waiters) \ G
          /\ lease' = [q \in Requests |-> IF q \in G THEN "live"
                                          ELSE IF q = r THEN "released"
                                          ELSE lease[q]]
          /\ Grant(G)
  /\ UNCHANGED <<capacity, ticket, arrivals, future, cancelled, phase>>

-----------------------------------------------------------------------------
(* Callbacks on the event loop of a request.                               *)

\* Mutant: a lease that finds its request dead is dropped.
DeliverOrDrop(r) ==
  /\ <<"deliver", r>> \in callbacks
  /\ callbacks' = callbacks \ {<<"deliver", r>>}
  /\ granted' = granted \ {r}
  /\ future' = [future EXCEPT ![r] = IF @ # "pending" THEN @
                                     ELSE IF r \in cancelled THEN "cancelled"
                                     ELSE "result"]
  /\ UNCHANGED <<active, capacity, waiters, ticket, arrivals, cancelled, lease,
                 phase>>

\* _deliver_lease: hand the lease to the future, or give it back when the
\* request went away after the grant.
Deliver(r) ==
  /\ <<"deliver", r>> \in callbacks
  /\ callbacks' = callbacks \ {<<"deliver", r>>}
  /\ granted' = granted \ {r}
  /\ IF r \in cancelled \/ future[r] # "pending"
     THEN /\ MarkReleased(r)
          /\ future' = [future EXCEPT ![r] = IF @ = "pending" THEN "cancelled"
                                             ELSE @]
     ELSE /\ future' = [future EXCEPT ![r] = "result"]
          /\ UNCHANGED lease
  /\ UNCHANGED <<active, capacity, waiters, ticket, arrivals, cancelled, phase>>

\* The scheduled future.cancel(): a no-op on a future that is done.
CancelFuture(r) ==
  /\ <<"cancel", r>> \in callbacks
  /\ callbacks' = callbacks \ {<<"cancel", r>>}
  /\ future' = [future EXCEPT ![r] = IF @ = "pending" THEN "cancelled" ELSE @]
  /\ UNCHANGED <<active, capacity, waiters, ticket, arrivals, cancelled, granted,
                 lease, phase>>

-----------------------------------------------------------------------------

\* Every request is through and nothing is scheduled: the instance may stop, so
\* that any other state without a step is a deadlock.  No code of its own.
Idle ==
  /\ \A r \in Requests : phase[r] \in {"closed", "rejected"}
  /\ callbacks = {}
  /\ \A r \in Requests : lease[r] # "releasing"
  /\ UNCHANGED vars

Next ==
  \/ \E r \in Requests :
       \/ \E c \in Capacities : Reserve(r, AtLeastOne(c))
       \/ Poll(r)
       \/ CancelLease(r)
       \/ CancelWaiter(r)
       \/ Finish(r)
       \/ ExternalCancel(r)
       \/ ReturnSlot(r)
       \/ Deliver(r)
       \/ CancelFuture(r)
  \/ Idle

Spec == Init /\ [][Next]_vars

(***************************************************************************)
(* Every route polls (the wait is a 0.25 s loop), ends its generation and  *)
(* runs its `finally`; every event loop runs what was scheduled on it; the *)
(* thread that marked a lease goes on to return the slot.  Nobody is       *)
(* obliged to arrive, to give up or to cancel a future from outside.       *)
(***************************************************************************)
Fairness ==
  \A r \in Requests :
    /\ WF_vars(Poll(r))
    /\ WF_vars(CancelLease(r) /\ phase[r] \in {"holding", "finished"})
    /\ WF_vars(ReturnSlot(r))
    /\ WF_vars(Deliver(r))
    /\ WF_vars(CancelFuture(r))

FairSpec == Spec /\ Fairness

-----------------------------------------------------------------------------
(* Properties.                                                             *)

\* The requests whose lease exists and whose slot was not given back.
Holders == {r \in Requests : lease[r] \in {"live", "releasing"}}

\* _active is the number of leases whose slot was not given back: whatever
\* the order of a cancel, a delivery and the two releases a route may make,
\* no slot is lost and none is returned twice.
ActiveCountsHolders == active = Cardinality(Holders)

\* A closed reservation keeps no slot: its lease is on its way back, or its
\* delivery is still scheduled on the loop and will find it dead.
NoSlotLeak ==
  \A r \in Requests :
    phase[r] = "closed" /\ lease[r] = "live" => <<"deliver", r>> \in callbacks

\* No slot stays free while a live request waits for one.
NoIdleSlot == Live(waiters) # {} => active >= capacity

\* No slot is kept by one who is through, or kept from one who waits.
NoSlotWasted == NoSlotLeak /\ NoIdleSlot

\* A slot is handed out only below the capacity in force, even after the
\* capacity was lowered under the requests already running.
GrantWithinCapacity == [][active' > active => active' <= capacity']_vars

\* First come, first served: whoever gets a slot, no live request that
\* queued before it is left in the queue, and a newcomer overtakes nobody.
Fifo ==
  [][\A r, s \in Requests :
       lease[s] = "none" /\ lease'[s] = "live" /\ r \in Live(waiters) \cap waiters'
         => s \in waiters /\ ticket[s] < ticket[r]]_vars

\* A queued request does not wait for ever: it is admitted, or it gives up.
QueuedIsServed == \A r \in Requests : phase[r] = "queued" ~> phase[r] # "queued"

\* The queue implements the pool of slots.
Pool == INSTANCE SlotPool
          WITH holders <- Holders,
               served  <- {r \in Requests : lease[r] # "none"},
               limit   <- capacity,
               Limits  <- {AtLeastOne(c) : c \in Capacities}

PoolSpec == Pool!Spec

=============================================================================
