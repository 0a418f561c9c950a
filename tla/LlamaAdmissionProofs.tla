------------------------ MODULE LlamaAdmissionProofs ------------------------
(***************************************************************************)
(* Proofs about the admission queue, for any set of requests, any          *)
(* capacities and any bound of the queue.                                  *)
(***************************************************************************)
EXTENDS LlamaAdmission, FiniteSetTheorems, TLAPS

-----------------------------------------------------------------------------
(* The inductive invariant.                                                *)

\* Only finitely many requests wait or hold at a time.
FiniteInv == IsFiniteSet(waiters) /\ IsFiniteSet(Holders)

\* Whoever waits, or has not come yet, was never given a lease: the slots
\* handed out in one section go to requests that hold none.
FreshInv ==
  /\ \A r \in waiters : lease[r] = "none" /\ phase[r] # "new"
  /\ \A r \in Requests : phase[r] = "new" => lease[r] = "none"

\* A lease whose request can no longer take it is still to be delivered.
DeliveryInv ==
  \A r \in Requests :
    /\ future[r] = "pending" /\ r \notin cancelled => phase[r] = "queued"
    /\ lease[r] = "live" /\ (\/ phase[r] = "closed"
                             \/ phase[r] = "queued" /\ future[r] # "result")
         => <<"deliver", r>> \in callbacks

IInv == TypeOK /\ FiniteInv /\ FreshInv /\ ActiveCountsHolders /\ DeliveryInv

-----------------------------------------------------------------------------
(* Lemmas.                                                                 *)

\* The waiters granted in one section: some of those waiting, finitely many,
\* and no more than the free slots.
LEMMA EarliestFacts ==
  ASSUME NEW W, IsFiniteSet(W), NEW n \in Nat, NEW G \in Earliest(W, n)
  PROVE  /\ G \subseteq W
         /\ IsFiniteSet(G)
         /\ Cardinality(G) \in Nat
         /\ Cardinality(G) <= n
<1>1. G \subseteq W /\ Cardinality(G) = IF n < Cardinality(W) THEN n ELSE Cardinality(W)
  BY DEF Earliest
<1>2. IsFiniteSet(G)
  BY <1>1, FS_Subset
<1>3. Cardinality(W) \in Nat /\ Cardinality(G) \in Nat
  BY <1>2, FS_CardinalityType
<1>4. QED
  BY <1>1, <1>2, <1>3

\* The live part of a finite queue is finite.
LEMMA LiveFacts ==
  ASSUME IsFiniteSet(waiters)
  PROVE  /\ Live(waiters) \subseteq waiters
         /\ IsFiniteSet(Live(waiters))
BY FS_Subset DEF Live

\* The free slots are a natural number, and granting them reaches at most
\* the capacity.
LEMMA FreeFacts ==
  ASSUME NEW c \in Nat, NEW a \in Nat
  PROVE  /\ Free(c, a) \in Nat
         /\ \A k \in Nat : k <= Free(c, a) /\ k > 0 => a + k <= c
BY DEF Free

\* Adding a finite set of newcomers to a finite set adds their number.
LEMMA CardinalityGrows ==
  ASSUME NEW S, NEW G, IsFiniteSet(S), IsFiniteSet(G), S \cap G = {}
  PROVE  /\ IsFiniteSet(S \cup G)
         /\ Cardinality(S \cup G) = Cardinality(S) + Cardinality(G)
<1>1. IsFiniteSet(S \cup G)
      /\ Cardinality(S \cup G) = Cardinality(S) + Cardinality(G) - Cardinality(S \cap G)
  BY FS_Union
<1>2. Cardinality(S \cap G) = 0
  BY FS_EmptySet
<1>3. Cardinality(S) \in Nat /\ Cardinality(G) \in Nat
  BY FS_CardinalityType
<1>4. QED
  BY <1>1, <1>2, <1>3

\* Marking a lease released makes nobody a holder and nobody stop being one.
LEMMA MarkReleasedKeepsHolders ==
  ASSUME NEW r \in Requests, lease \in [Requests -> LeaseState], MarkReleased(r)
  PROVE  /\ Holders' = Holders
         /\ lease' \in [Requests -> LeaseState]
         /\ \A q \in Requests : lease'[q] = "none" <=> lease[q] = "none"
         /\ \A q \in Requests : lease'[q] = "live" => q # r /\ lease[q] = "live"
BY DEF MarkReleased, LeaseState, Holders

\* What reserve is called with is a positive capacity.
LEMMA AtLeastOneFacts ==
  ASSUME NEW c \in Capacities
  PROVE  AtLeastOne(c) \in Nat \ {0}
BY CapacitiesAssumption DEF AtLeastOne

-----------------------------------------------------------------------------
(* The steps.                                                              *)

LEMMA InitIInv == Init => IInv
<1> SUFFICES ASSUME Init PROVE IInv
  OBVIOUS
<1>1. TypeOK
  BY DEF Init, TypeOK, FutureState, LeaseState, Phase, Callback
<1>2. Holders = {}
  BY DEF Init, Holders
<1>3. FiniteInv /\ ActiveCountsHolders
  BY <1>2, FS_EmptySet DEF Init, FiniteInv, ActiveCountsHolders
<1>4. FreshInv /\ DeliveryInv
  BY DEF Init, FreshInv, DeliveryInv
<1>5. QED
  BY <1>1, <1>3, <1>4 DEF IInv

\* What a section of the queue that grants the waiters of G does to the
\* set of holders.
LEMMA GrantedAreNew ==
  ASSUME IInv, NEW c \in Nat, NEW a \in Nat,
         NEW G \in Earliest(Live(waiters), Free(c, a))
  PROVE  /\ G \subseteq waiters
         /\ G \subseteq Requests
         /\ IsFiniteSet(G)
         /\ Cardinality(G) \in Nat
         /\ Cardinality(G) > 0 => a + Cardinality(G) <= c
         /\ Holders \cap G = {}
         /\ IsFiniteSet(Live(waiters) \ G)
         /\ Live(waiters) \ G \subseteq waiters
<1>1. Live(waiters) \subseteq waiters /\ IsFiniteSet(Live(waiters))
  BY LiveFacts DEF IInv, FiniteInv
<1>2. Free(c, a) \in Nat
  BY FreeFacts
<1>3. /\ G \subseteq Live(waiters)
      /\ IsFiniteSet(G)
      /\ Cardinality(G) \in Nat
      /\ Cardinality(G) <= Free(c, a)
  BY <1>1, <1>2, EarliestFacts
<1>4. Cardinality(G) > 0 => a + Cardinality(G) <= c
  BY <1>3, FreeFacts
<1>5. Holders \cap G = {}
  BY <1>1, <1>3 DEF IInv, FreshInv, Holders
<1>6. IsFiniteSet(Live(waiters) \ G)
  BY <1>1, FS_Subset
<1>7. waiters \subseteq Requests
  BY DEF IInv, TypeOK
<1>8. QED
  BY <1>1, <1>3, <1>4, <1>5, <1>6, <1>7

\* reserve keeps the invariant: each of its three outcomes counts the waiters
\* it granted, and the newcomer when it was admitted at once.
LEMMA ReserveKeeps ==
  ASSUME IInv, NEW r \in Requests, NEW c \in Nat \ {0}, Reserve(r, c)
  PROVE  IInv'
<1>1. PICK G \in Earliest(Live(waiters), Free(c, active)) :
        Grant(G) /\ (AdmitAtOnce(r, G) \/ Reject(r, G) \/ Enqueue(r, G))
  BY DEF Reserve
<1> DEFINE rest == Live(waiters) \ G
           now  == active + Cardinality(G)
<1>2. active \in Nat /\ TypeOK /\ FreshInv /\ DeliveryInv
  BY DEF IInv, TypeOK
<1>3. /\ G \subseteq waiters
      /\ G \subseteq Requests
      /\ IsFiniteSet(G)
      /\ Cardinality(G) \in Nat
      /\ Holders \cap G = {}
      /\ IsFiniteSet(rest)
      /\ rest \subseteq waiters
  BY <1>2, GrantedAreNew
<1>4. /\ phase[r] = "new" /\ capacity' = c /\ cancelled' = cancelled
      /\ granted' = granted \cup G
      /\ callbacks' = callbacks \cup ({"deliver"} \X G)
  BY <1>1 DEF Reserve, Grant
<1>5. r \notin waiters /\ lease[r] = "none" /\ r \notin Holders /\ r \notin G
  BY <1>2, <1>3, <1>4 DEF FreshInv, Holders
<1>6. IsFiniteSet(Holders) /\ active = Cardinality(Holders)
  BY DEF IInv, FiniteInv, ActiveCountsHolders
<1>7. /\ IsFiniteSet(Holders \cup G)
      /\ Cardinality(Holders \cup G) = now
  BY <1>3, <1>6, CardinalityGrows
<1>8. callbacks' \subseteq Callback /\ granted' \subseteq Requests
  BY <1>2, <1>3, <1>4 DEF TypeOK, Callback
<1>9. CASE AdmitAtOnce(r, G)
  <2>1. TypeOK'
    BY <1>2, <1>3, <1>4, <1>8, <1>9 DEF TypeOK, LeaseState, Phase, AdmitAtOnce
  <2>2. Holders' = (Holders \cup G) \cup {r}
    BY <1>3, <1>9 DEF Holders, AdmitAtOnce
  <2>3. IsFiniteSet(Holders') /\ Cardinality(Holders') = now + 1
    BY <1>5, <1>7, <2>2, FS_AddElement
  <2>4. FiniteInv' /\ ActiveCountsHolders'
    BY <1>3, <1>9, <2>3 DEF FiniteInv, ActiveCountsHolders, AdmitAtOnce
  <2>5. FreshInv'
    BY <1>2, <1>3, <1>4, <1>5, <1>9 DEF FreshInv, Live, TypeOK, AdmitAtOnce
  <2>6. DeliveryInv'
    BY <1>2, <1>3, <1>4, <1>9 DEF DeliveryInv, FreshInv, TypeOK, AdmitAtOnce
  <2>7. QED
    BY <2>1, <2>4, <2>5, <2>6 DEF IInv
<1>10. CASE Reject(r, G)
  <2>1. TypeOK'
    BY <1>2, <1>3, <1>4, <1>8, <1>10 DEF TypeOK, LeaseState, Phase, Reject
  <2>2. Holders' = Holders \cup G
    BY <1>3, <1>10 DEF Holders, Reject
  <2>3. FiniteInv' /\ ActiveCountsHolders'
    BY <1>3, <1>7, <1>10, <2>2 DEF FiniteInv, ActiveCountsHolders, Reject
  <2>4. FreshInv'
    BY <1>2, <1>3, <1>4, <1>5, <1>10 DEF FreshInv, TypeOK, Reject
  <2>5. DeliveryInv'
    BY <1>2, <1>3, <1>4, <1>10 DEF DeliveryInv, FreshInv, TypeOK, Reject
  <2>6. QED
    BY <2>1, <2>3, <2>4, <2>5 DEF IInv
<1>11. CASE Enqueue(r, G)
  <2>1. TypeOK'
    BY <1>2, <1>3, <1>4, <1>8, <1>11 DEF TypeOK, LeaseState, Phase, FutureState, Enqueue
  <2>2. Holders' = Holders \cup G
    BY <1>3, <1>11 DEF Holders, Enqueue
  <2>3. IsFiniteSet(waiters')
    BY <1>3, <1>11, FS_AddElement DEF Enqueue
  <2>4. FiniteInv' /\ ActiveCountsHolders'
    BY <1>7, <1>11, <2>2, <2>3 DEF FiniteInv, ActiveCountsHolders, Enqueue
  <2>5. FreshInv'
    BY <1>2, <1>3, <1>4, <1>5, <1>11 DEF FreshInv, TypeOK, Enqueue
  <2>6. DeliveryInv'
    BY <1>2, <1>3, <1>4, <1>5, <1>11 DEF DeliveryInv, FreshInv, TypeOK, Enqueue
  <2>7. QED
    BY <2>1, <2>4, <2>5, <2>6 DEF IInv
<1>12. QED
  BY <1>1, <1>9, <1>10, <1>11

\* queue.release keeps the invariant: the slot that comes back is one of
\* those counted, and the waiters granted with it are counted anew.
LEMMA ReturnSlotKeeps ==
  ASSUME IInv, NEW r \in Requests, ReturnSlot(r)
  PROVE  IInv'
<1> DEFINE left == active - 1
<1>1. TypeOK /\ FreshInv /\ DeliveryInv /\ active \in Nat /\ capacity \in Nat
  BY DEF IInv, TypeOK
<1>2. r \in Holders /\ lease[r] = "releasing"
  BY DEF ReturnSlot, Holders
<1>3. /\ IsFiniteSet(Holders \ {r})
      /\ Cardinality(Holders \ {r}) = active - 1
      /\ active > 0
  <2>1. IsFiniteSet(Holders) /\ active = Cardinality(Holders)
    BY DEF IInv, FiniteInv, ActiveCountsHolders
  <2>2. IsFiniteSet(Holders \ {r}) /\ Cardinality(Holders \ {r}) = Cardinality(Holders) - 1
    BY <1>2, <2>1, FS_RemoveElement
  <2>3. Cardinality(Holders \ {r}) \in Nat
    BY <2>2, FS_CardinalityType
  <2>4. QED
    BY <1>1, <2>1, <2>2, <2>3
<1>4. left \in Nat
  BY <1>1, <1>3
<1>5. PICK G \in Earliest(Live(waiters), Free(capacity, left)) :
        /\ active' = left + Cardinality(G)
        /\ waiters' = Live(waiters) \ G
        /\ lease' = [q \in Requests |-> IF q \in G THEN "live"
                                       ELSE IF q = r THEN "released"
                                       ELSE lease[q]]
        /\ Grant(G)
  BY <1>1, <1>3 DEF ReturnSlot
<1>6. /\ G \subseteq waiters
      /\ G \subseteq Requests
      /\ IsFiniteSet(G)
      /\ Cardinality(G) \in Nat
      /\ Holders \cap G = {}
      /\ IsFiniteSet(Live(waiters) \ G)
      /\ Live(waiters) \ G \subseteq waiters
  BY <1>1, <1>4, GrantedAreNew
<1>7. /\ callbacks' = callbacks \cup ({"deliver"} \X G)
      /\ granted' = granted \cup G
      /\ UNCHANGED <<capacity, ticket, arrivals, future, cancelled, phase>>
  BY <1>5 DEF Grant, ReturnSlot
<1>8. TypeOK'
  <2>1. callbacks' \subseteq Callback /\ granted' \subseteq Requests
    BY <1>1, <1>6, <1>7 DEF TypeOK, Callback
  <2>2. QED
    BY <1>1, <1>4, <1>5, <1>6, <1>7, <2>1 DEF TypeOK, LeaseState
<1>9. FiniteInv' /\ ActiveCountsHolders'
  <2>1. Holders' = (Holders \ {r}) \cup G
    BY <1>2, <1>5, <1>6 DEF Holders
  <2>2. (Holders \ {r}) \cap G = {}
    BY <1>6
  <2>3. IsFiniteSet(Holders') /\ Cardinality(Holders') = left + Cardinality(G)
    BY <1>3, <1>6, <2>1, <2>2, CardinalityGrows
  <2>4. QED
    BY <1>5, <1>6, <2>3 DEF FiniteInv, ActiveCountsHolders
<1>10. FreshInv'
  BY <1>1, <1>2, <1>5, <1>6, <1>7 DEF FreshInv, TypeOK
<1>11. DeliveryInv'
  BY <1>1, <1>5, <1>6, <1>7 DEF DeliveryInv, TypeOK
<1>12. QED
  BY <1>8, <1>9, <1>10, <1>11 DEF IInv

\* A step that moves no request in or out of the holders, queues nobody and
\* leaves the counters alone keeps the counting part of the invariant.
LEMMA QuietStepKeepsCount ==
  ASSUME IInv, Holders' = Holders, active' = active, waiters' \subseteq waiters
  PROVE  FiniteInv' /\ ActiveCountsHolders'
BY FS_Subset DEF IInv, FiniteInv, ActiveCountsHolders

\* Every step keeps the invariant.
LEMMA NextKeepsIInv == IInv /\ [Next]_vars => IInv'
<1> SUFFICES ASSUME IInv, [Next]_vars PROVE IInv'
  OBVIOUS
<1>1. TypeOK /\ FreshInv /\ DeliveryInv /\ lease \in [Requests -> LeaseState]
  BY DEF IInv, TypeOK
<1>2. ASSUME NEW r \in Requests, NEW c \in Capacities, Reserve(r, AtLeastOne(c))
      PROVE  IInv'
  BY <1>2, AtLeastOneFacts, ReserveKeeps
<1>3. ASSUME NEW r \in Requests, Poll(r)
      PROVE  IInv'
  <2>1. Holders' = Holders
    BY <1>3 DEF Poll, Holders
  <2>2. FiniteInv' /\ ActiveCountsHolders'
    BY <1>3, <2>1, QuietStepKeepsCount DEF Poll
  <2>3. TypeOK' /\ FreshInv' /\ DeliveryInv'
    BY <1>1, <1>3 DEF Poll, TypeOK, Phase, FreshInv, DeliveryInv
  <2>4. QED
    BY <2>2, <2>3 DEF IInv
<1>4. ASSUME NEW r \in Requests, CancelLease(r)
      PROVE  IInv'
  <2>1. /\ Holders' = Holders
        /\ lease' \in [Requests -> LeaseState]
        /\ \A q \in Requests : lease'[q] = "none" <=> lease[q] = "none"
        /\ \A q \in Requests : lease'[q] = "live" => q # r /\ lease[q] = "live"
    BY <1>1, <1>4, MarkReleasedKeepsHolders DEF CancelLease
  <2>2. FiniteInv' /\ ActiveCountsHolders'
    BY <1>4, <2>1, QuietStepKeepsCount DEF CancelLease
  <2>3. TypeOK' /\ FreshInv'
    BY <1>1, <1>4, <2>1 DEF CancelLease, TypeOK, Phase, FreshInv
  <2>4. DeliveryInv'
    BY <1>1, <1>4, <2>1 DEF CancelLease, TypeOK, DeliveryInv
  <2>5. QED
    BY <2>2, <2>3, <2>4 DEF IInv
<1>5. ASSUME NEW r \in Requests, CancelWaiter(r)
      PROVE  IInv'
  <2>1. /\ Holders' = Holders
        /\ lease' \in [Requests -> LeaseState]
        /\ \A q \in Requests : lease'[q] = "none" <=> lease[q] = "none"
        /\ \A q \in Requests : lease'[q] = "live" => lease[q] = "live"
    <3>1. CASE r \in granted
      BY <1>1, <1>5, <3>1, MarkReleasedKeepsHolders DEF CancelWaiter
    <3>2. CASE r \notin granted
      BY <1>1, <1>5, <3>2 DEF CancelWaiter, Holders
    <3>3. QED
      BY <3>1, <3>2
  <2>2. FiniteInv' /\ ActiveCountsHolders'
    BY <1>5, <2>1, QuietStepKeepsCount DEF CancelWaiter
  <2>3. TypeOK' /\ FreshInv'
    <3>1. callbacks' \subseteq Callback
      BY <1>1, <1>5 DEF CancelWaiter, TypeOK, Callback
    <3>2. TypeOK'
      BY <1>1, <1>5, <2>1, <3>1 DEF CancelWaiter, TypeOK, Phase
    <3>3. FreshInv'
      BY <1>1, <1>5, <2>1 DEF CancelWaiter, TypeOK, FreshInv
    <3>4. QED
      BY <3>2, <3>3
  <2>4. DeliveryInv'
    BY <1>1, <1>5, <2>1 DEF CancelWaiter, TypeOK, DeliveryInv
  <2>5. QED
    BY <2>2, <2>3, <2>4 DEF IInv
<1>6. ASSUME NEW r \in Requests, Finish(r)
      PROVE  IInv'
  <2>1. /\ Holders' = Holders
        /\ lease' \in [Requests -> LeaseState]
        /\ \A q \in Requests : lease'[q] = "none" <=> lease[q] = "none"
        /\ \A q \in Requests : lease'[q] = "live" => lease[q] = "live"
    BY <1>1, <1>6, MarkReleasedKeepsHolders DEF Finish
  <2>2. FiniteInv' /\ ActiveCountsHolders'
    BY <1>6, <2>1, QuietStepKeepsCount DEF Finish
  <2>3. TypeOK' /\ FreshInv' /\ DeliveryInv'
    BY <1>1, <1>6, <2>1 DEF Finish, TypeOK, Phase, FreshInv, DeliveryInv
  <2>4. QED
    BY <2>2, <2>3 DEF IInv
<1>7. ASSUME NEW r \in Requests, ExternalCancel(r)
      PROVE  IInv'
  <2>1. Holders' = Holders
    BY <1>7 DEF ExternalCancel, Holders
  <2>2. FiniteInv' /\ ActiveCountsHolders'
    BY <1>7, <2>1, QuietStepKeepsCount DEF ExternalCancel
  <2>3. TypeOK' /\ FreshInv' /\ DeliveryInv'
    BY <1>1, <1>7 DEF ExternalCancel, TypeOK, FutureState, FreshInv, DeliveryInv
  <2>4. QED
    BY <2>2, <2>3 DEF IInv
<1>8. ASSUME NEW r \in Requests, ReturnSlot(r)
      PROVE  IInv'
  BY <1>8, ReturnSlotKeeps
<1>9. ASSUME NEW r \in Requests, Deliver(r)
      PROVE  IInv'
  <2>1. /\ Holders' = Holders
        /\ lease' \in [Requests -> LeaseState]
        /\ \A q \in Requests : lease'[q] = "none" <=> lease[q] = "none"
        /\ \A q \in Requests : lease'[q] = "live" =>
             /\ lease[q] = "live"
             /\ q = r => r \notin cancelled /\ future[r] = "pending"
    <3>1. CASE r \in cancelled \/ future[r] # "pending"
      BY <1>1, <1>9, <3>1, MarkReleasedKeepsHolders DEF Deliver
    <3>2. CASE ~(r \in cancelled \/ future[r] # "pending")
      BY <1>1, <1>9, <3>2 DEF Deliver, Holders
    <3>3. QED
      BY <3>1, <3>2
  <2>2. FiniteInv' /\ ActiveCountsHolders'
    BY <1>9, <2>1, QuietStepKeepsCount DEF Deliver
  <2>3. TypeOK' /\ FreshInv'
    BY <1>1, <1>9, <2>1 DEF Deliver, TypeOK, FutureState, FreshInv
  <2>4. DeliveryInv'
    BY <1>1, <1>9, <2>1 DEF Deliver, TypeOK, DeliveryInv
  <2>5. QED
    BY <2>2, <2>3, <2>4 DEF IInv
<1>10. ASSUME NEW r \in Requests, CancelFuture(r)
       PROVE  IInv'
  <2>1. Holders' = Holders
    BY <1>10 DEF CancelFuture, Holders
  <2>2. FiniteInv' /\ ActiveCountsHolders'
    BY <1>10, <2>1, QuietStepKeepsCount DEF CancelFuture
  <2>3. TypeOK' /\ FreshInv' /\ DeliveryInv'
    BY <1>1, <1>10 DEF CancelFuture, TypeOK, FutureState, FreshInv, DeliveryInv
  <2>4. QED
    BY <2>2, <2>3 DEF IInv
<1>11. CASE UNCHANGED vars
  <2>1. Holders' = Holders
    BY <1>11 DEF vars, Holders
  <2>2. FiniteInv' /\ ActiveCountsHolders'
    BY <1>11, <2>1, QuietStepKeepsCount DEF vars
  <2>3. TypeOK' /\ FreshInv' /\ DeliveryInv'
    BY <1>1, <1>11 DEF vars, TypeOK, FreshInv, DeliveryInv
  <2>4. QED
    BY <2>2, <2>3 DEF IInv
<1>12. QED
  BY <1>2, <1>3, <1>4, <1>5, <1>6, <1>7, <1>8, <1>9, <1>10, <1>11
     DEF Next, Idle

-----------------------------------------------------------------------------
(* The theorems.                                                           *)

LEMMA InductiveInvariant == Spec => []IInv
<1>1. Init => IInv
  BY InitIInv
<1>2. IInv /\ [Next]_vars => IInv'
  BY NextKeepsIInv
<1>3. QED
  BY <1>1, <1>2, PTL DEF Spec

\* The variables keep their types: LlamaAdmissionQueue and its waiters.
THEOREM TypeCorrect == Spec => []TypeOK
<1>1. IInv => TypeOK
  BY DEF IInv
<1>2. QED
  BY <1>1, InductiveInvariant, PTL

\* _active counts exactly the leases whose slot was not given back, under
\* any interleaving of cancels, deliveries and releases.
THEOREM ActiveIsExact == Spec => []ActiveCountsHolders
<1>1. IInv => ActiveCountsHolders
  BY DEF IInv
<1>2. QED
  BY <1>1, InductiveInvariant, PTL

\* A section that leaves somebody waiting handed out every free slot.
LEMMA FullWhenWaiting ==
  ASSUME IInv, NEW c \in Nat, NEW a \in Nat,
         NEW G \in Earliest(Live(waiters), Free(c, a)), Live(waiters) \ G # {}
  PROVE  a + Cardinality(G) >= c
<1>1. IsFiniteSet(Live(waiters)) /\ Cardinality(Live(waiters)) \in Nat
  BY LiveFacts, FS_CardinalityType DEF IInv, FiniteInv
<1>2. /\ G \subseteq Live(waiters)
      /\ Cardinality(G) = IF Free(c, a) < Cardinality(Live(waiters))
                          THEN Free(c, a) ELSE Cardinality(Live(waiters))
  BY DEF Earliest
<1>3. Cardinality(G) # Cardinality(Live(waiters))
  BY <1>1, <1>2, FS_Subset
<1>4. Cardinality(G) = Free(c, a)
  BY <1>2, <1>3
<1>5. QED
  BY <1>4 DEF Free

\* No step leaves a slot idle beside a live waiter.
LEMMA NextKeepsNoIdleSlot == IInv /\ NoIdleSlot /\ [Next]_vars => NoIdleSlot'
<1> SUFFICES ASSUME IInv, NoIdleSlot, [Next]_vars, Live(waiters)' # {}
             PROVE  active' >= capacity'
  BY DEF NoIdleSlot
<1>1. active \in Nat /\ capacity \in Nat /\ TypeOK
  BY DEF IInv, TypeOK
<1>2. ASSUME NEW r \in Requests, NEW c \in Capacities, Reserve(r, AtLeastOne(c))
      PROVE  active' >= capacity'
  <2>1. AtLeastOne(c) \in Nat /\ capacity' = AtLeastOne(c) /\ UNCHANGED cancelled
    BY <1>2, AtLeastOneFacts DEF Reserve
  <2>2. PICK G \in Earliest(Live(waiters), Free(AtLeastOne(c), active)) :
          \/ AdmitAtOnce(r, G) /\ Live(waiters) \ G = {}
          \/ Reject(r, G)
          \/ /\ Enqueue(r, G)
             /\ ~(active + Cardinality(G) < AtLeastOne(c) /\ Live(waiters) \ G = {})
    BY <1>2 DEF Reserve
  <2>3. Cardinality(G) \in Nat
    BY <1>1, <2>1, GrantedAreNew
  <2>4. Live(waiters) \ G # {} => active + Cardinality(G) >= AtLeastOne(c)
    BY <1>1, <2>1, FullWhenWaiting
  <2>5. CASE AdmitAtOnce(r, G) /\ Live(waiters) \ G = {}
    BY <2>5 DEF AdmitAtOnce, Live
  <2>6. CASE Reject(r, G)
    <3>1. Live(waiters) \ G # {}
      BY <2>1, <2>6 DEF Reject, Live
    <3>2. QED
      BY <2>1, <2>4, <2>6, <3>1 DEF Reject
  <2>7. CASE /\ Enqueue(r, G)
             /\ ~(active + Cardinality(G) < AtLeastOne(c) /\ Live(waiters) \ G = {})
    BY <1>1, <2>1, <2>3, <2>4, <2>7 DEF Enqueue
  <2>8. QED
    BY <2>2, <2>5, <2>6, <2>7
<1>3. ASSUME NEW r \in Requests, ReturnSlot(r)
      PROVE  active' >= capacity'
  <2> DEFINE left == IF active > 0 THEN active - 1 ELSE active
  <2>1. left \in Nat
    BY <1>1
  <2>2. PICK G \in Earliest(Live(waiters), Free(capacity, left)) :
          active' = left + Cardinality(G) /\ waiters' = Live(waiters) \ G
    BY <1>3 DEF ReturnSlot
  <2>3. capacity' = capacity /\ Live(waiters) \ G # {}
    BY <1>3, <2>2 DEF ReturnSlot, Live
  <2>4. QED
    BY <1>1, <2>1, <2>2, <2>3, FullWhenWaiting
<1>4. ASSUME NEW r \in Requests,
             Poll(r) \/ CancelLease(r) \/ CancelWaiter(r) \/ Finish(r)
             \/ ExternalCancel(r) \/ Deliver(r) \/ CancelFuture(r)
      PROVE  active' >= capacity'
  <2>1. active' = active /\ capacity' = capacity /\ waiters' \subseteq waiters
        /\ cancelled \subseteq cancelled'
    BY <1>4 DEF Poll, CancelLease, CancelWaiter, Finish, ExternalCancel, Deliver,
                CancelFuture
  <2>2. \A q \in Requests : future'[q] = "pending" => future[q] = "pending"
    BY <1>1, <1>4 DEF TypeOK, Poll, CancelLease, CancelWaiter, Finish, ExternalCancel,
                      Deliver, CancelFuture
  <2>3. Live(waiters)' \subseteq Live(waiters)
    BY <1>1, <2>1, <2>2 DEF Live, TypeOK
  <2>4. QED
    BY <2>1, <2>3 DEF NoIdleSlot
<1>5. CASE UNCHANGED vars
  BY <1>5 DEF vars, NoIdleSlot, Live
<1>6. QED
  BY <1>2, <1>3, <1>4, <1>5 DEF Next, Idle

\* A reservation that was closed leaks no slot, and no slot stays idle while
\* a live request waits for one.
THEOREM NoneWasted == Spec => []NoSlotWasted
<1>1. IInv => NoSlotLeak
  BY DEF IInv, DeliveryInv, NoSlotLeak
<1>2. Init => NoIdleSlot
  BY DEF Init, NoIdleSlot, Live
<1>3. IInv /\ NoIdleSlot /\ [Next]_vars => NoIdleSlot'
  BY NextKeepsNoIdleSlot
<1>4. IInv /\ NoIdleSlot => NoSlotWasted
  BY <1>1 DEF NoSlotWasted
<1>5. QED
  BY <1>2, <1>3, <1>4, InductiveInvariant, PTL DEF Spec

\* Whoever a step gives a slot to came before every live request it leaves
\* in the queue.
LEMMA GrantsAreInOrder ==
  ASSUME IInv, [Next]_vars, NEW r \in Requests, NEW s \in Requests,
         lease[s] = "none", lease'[s] = "live", r \in Live(waiters) \cap waiters'
  PROVE  s \in waiters /\ ticket[s] < ticket[r]
<1>1. TypeOK /\ FreshInv /\ lease \in [Requests -> LeaseState]
  BY DEF IInv, TypeOK
<1>2. ASSUME NEW a \in Nat, NEW c \in Nat, NEW G \in Earliest(Live(waiters), Free(c, a)),
             s \in G, r \notin G
      PROVE  s \in waiters /\ ticket[s] < ticket[r]
  BY <1>2 DEF Earliest, Live
<1>3. ASSUME NEW q \in Requests, NEW c \in Capacities, Reserve(q, AtLeastOne(c))
      PROVE  s \in waiters /\ ticket[s] < ticket[r]
  <2>1. AtLeastOne(c) \in Nat /\ active \in Nat
    BY <1>1, AtLeastOneFacts DEF TypeOK
  <2>2. PICK G \in Earliest(Live(waiters), Free(AtLeastOne(c), active)) :
          \/ AdmitAtOnce(q, G) /\ Live(waiters) \ G = {}
          \/ Reject(q, G)
          \/ Enqueue(q, G)
    BY <1>3 DEF Reserve
  <2>3. r # q
    BY <1>1, <1>3 DEF FreshInv, Reserve, Live
  <2>4. s \in G /\ r \notin G
    BY <1>1, <2>2, <2>3 DEF AdmitAtOnce, Reject, Enqueue
  <2>5. QED
    BY <1>2, <2>1, <2>4
<1>4. ASSUME NEW q \in Requests, ReturnSlot(q)
      PROVE  s \in waiters /\ ticket[s] < ticket[r]
  <2> DEFINE left == IF active > 0 THEN active - 1 ELSE active
  <2>1. left \in Nat /\ capacity \in Nat
    BY <1>1 DEF TypeOK
  <2>2. PICK G \in Earliest(Live(waiters), Free(capacity, left)) :
          /\ waiters' = Live(waiters) \ G
          /\ lease' = [x \in Requests |-> IF x \in G THEN "live"
                                          ELSE IF x = q THEN "released"
                                          ELSE lease[x]]
    BY <1>4 DEF ReturnSlot
  <2>3. s \in G /\ r \notin G
    BY <2>2
  <2>4. QED
    BY <1>2, <2>1, <2>3
<1>5. ASSUME NEW q \in Requests,
             Poll(q) \/ CancelLease(q) \/ CancelWaiter(q) \/ Finish(q)
             \/ ExternalCancel(q) \/ Deliver(q) \/ CancelFuture(q)
      PROVE  FALSE
  <2>1. MarkReleased(q) \/ UNCHANGED lease
    BY <1>5 DEF Poll, CancelLease, CancelWaiter, Finish, ExternalCancel, Deliver,
                CancelFuture
  <2>2. QED
    BY <1>1, <2>1, MarkReleasedKeepsHolders
<1>6. CASE UNCHANGED vars
  BY <1>6 DEF vars
<1>7. QED
  BY <1>3, <1>4, <1>5, <1>6 DEF Next, Idle

\* Slots are handed out first come, first served.
THEOREM FirstComeFirstServed == Spec => Fifo
<1> DEFINE Ordered ==
      \A r, s \in Requests :
        lease[s] = "none" /\ lease'[s] = "live" /\ r \in Live(waiters) \cap waiters'
          => s \in waiters /\ ticket[s] < ticket[r]
<1>1. IInv /\ [Next]_vars => [Ordered]_vars
  BY GrantsAreInOrder
<1> HIDE DEF Ordered
<1>2. Spec => [][Ordered]_vars
  BY <1>1, InductiveInvariant, PTL DEF Spec
<1>3. QED
  BY <1>2 DEF Fifo, Ordered

\* What a step that changes the count does to it.
LEMMA GrantStep ==
  ASSUME IInv, [Next]_vars
  PROVE  active' > active => active' <= capacity'
<1>1. active \in Nat /\ capacity \in Nat
  BY DEF IInv, TypeOK
<1>2. ASSUME NEW r \in Requests, NEW c \in Capacities, Reserve(r, AtLeastOne(c))
      PROVE  active' > active => active' <= capacity'
  <2>1. AtLeastOne(c) \in Nat /\ capacity' = AtLeastOne(c)
    BY <1>2, AtLeastOneFacts DEF Reserve
  <2>2. PICK G \in Earliest(Live(waiters), Free(AtLeastOne(c), active)) :
          \/ AdmitAtOnce(r, G) /\ active + Cardinality(G) < AtLeastOne(c)
          \/ Reject(r, G)
          \/ Enqueue(r, G)
    BY <1>2 DEF Reserve
  <2>3. /\ Cardinality(G) \in Nat
        /\ Cardinality(G) > 0 => active + Cardinality(G) <= AtLeastOne(c)
    BY <1>1, <2>1, GrantedAreNew
  <2>4. QED
    BY <1>1, <2>1, <2>2, <2>3 DEF AdmitAtOnce, Reject, Enqueue
<1>3. ASSUME NEW r \in Requests, ReturnSlot(r)
      PROVE  active' > active => active' <= capacity'
  <2> DEFINE left == IF active > 0 THEN active - 1 ELSE active
  <2>1. left \in Nat /\ left <= active
    BY <1>1
  <2>2. PICK G \in Earliest(Live(waiters), Free(capacity, left)) :
          active' = left + Cardinality(G)
    BY <1>3 DEF ReturnSlot
  <2>3. /\ Cardinality(G) \in Nat
        /\ Cardinality(G) > 0 => left + Cardinality(G) <= capacity
    BY <1>1, <2>1, GrantedAreNew
  <2>4. capacity' = capacity
    BY <1>3 DEF ReturnSlot
  <2>5. QED
    BY <1>1, <2>1, <2>2, <2>3, <2>4
<1>4. ASSUME NEW r \in Requests,
             Poll(r) \/ CancelLease(r) \/ CancelWaiter(r) \/ Finish(r)
             \/ ExternalCancel(r) \/ Deliver(r) \/ CancelFuture(r)
      PROVE  active' = active
  BY <1>4 DEF Poll, CancelLease, CancelWaiter, Finish, ExternalCancel, Deliver,
              CancelFuture
<1>5. CASE UNCHANGED vars
  BY <1>1, <1>5 DEF vars
<1>6. QED
  BY <1>1, <1>2, <1>3, <1>4, <1>5 DEF Next, Idle

\* Slots are handed out only below the capacity in force.
THEOREM GrantsRespectCapacity == Spec => GrantWithinCapacity
<1>1. IInv /\ [Next]_vars => [active' > active => active' <= capacity']_vars
  BY GrantStep
<1>2. QED
  BY <1>1, InductiveInvariant, PTL DEF Spec, GrantWithinCapacity

-----------------------------------------------------------------------------
(* The queue implements the pool of slots.                                 *)

Served == {r \in Requests : lease[r] # "none"}

PoolLimits == {AtLeastOne(c) : c \in Capacities}

\* A section that takes the slots of `back` away and grants those of `new`
\* is a step of the pool.
LEMMA SectionIsPoolStep ==
  ASSUME IInv, IInv', NEW back \in SUBSET Holders, NEW new \in SUBSET Requests,
         \A r \in new : lease[r] = "none",
         Holders' = (Holders \ back) \cup new,
         Served' = Served \cup new,
         capacity' \in PoolLimits \cup {capacity},
         new # {} => active' <= capacity'
  PROVE  Pool!Step
<1>1. new \in SUBSET (Requests \ Served)
  BY DEF Served
<1>2. active' = Cardinality(Holders')
  BY DEF IInv, ActiveCountsHolders
<1>3. QED
  BY <1>1, <1>2 DEF Pool!Step, Served, PoolLimits, Pool!Cardinality, Cardinality

LEMMA NextIsPoolStep == IInv /\ IInv' /\ [Next]_vars => [Pool!Step]_(Pool!vars)
<1> SUFFICES ASSUME IInv, IInv', [Next]_vars
             PROVE  Pool!Step \/ UNCHANGED Pool!vars
  OBVIOUS
<1>1. active \in Nat /\ capacity \in Nat /\ TypeOK /\ FreshInv
      /\ lease \in [Requests -> LeaseState] /\ waiters \subseteq Requests
  BY DEF IInv, TypeOK
<1>2. ASSUME NEW r \in Requests, NEW c \in Capacities, Reserve(r, AtLeastOne(c))
      PROVE  Pool!Step
  <2>1. AtLeastOne(c) \in Nat /\ capacity' = AtLeastOne(c) /\ capacity' \in PoolLimits
    BY <1>2, AtLeastOneFacts DEF Reserve, PoolLimits
  <2>2. PICK G \in Earliest(Live(waiters), Free(AtLeastOne(c), active)) :
          \/ AdmitAtOnce(r, G) /\ active + Cardinality(G) < AtLeastOne(c)
          \/ Reject(r, G)
          \/ Enqueue(r, G)
    BY <1>2 DEF Reserve
  <2>3. /\ G \subseteq waiters
        /\ G \subseteq Requests
        /\ IsFiniteSet(G)
        /\ Cardinality(G) \in Nat
        /\ Cardinality(G) > 0 => active + Cardinality(G) <= AtLeastOne(c)
    BY <1>1, <2>1, GrantedAreNew
  <2>4. G # {} => Cardinality(G) > 0
    BY <2>3, FS_EmptySet
  <2>5. lease[r] = "none" /\ \A q \in G : lease[q] = "none"
    BY <1>1, <1>2, <2>3 DEF FreshInv, Reserve
  <2>6. CASE AdmitAtOnce(r, G) /\ active + Cardinality(G) < AtLeastOne(c)
    <3> DEFINE new == G \cup {r}
    <3>1. Holders' = (Holders \ {}) \cup new /\ Served' = Served \cup new
      BY <1>1, <2>3, <2>6 DEF AdmitAtOnce, Holders, Served
    <3>2. active' <= capacity'
      BY <1>1, <2>1, <2>3, <2>6 DEF AdmitAtOnce
    <3>3. new \in SUBSET Requests /\ \A q \in new : lease[q] = "none"
      BY <2>3, <2>5
    <3> HIDE DEF new
    <3>4. QED
      BY <2>1, <3>1, <3>2, <3>3, SectionIsPoolStep
  <2>7. CASE Reject(r, G) \/ Enqueue(r, G)
    <3>1. Holders' = (Holders \ {}) \cup G /\ Served' = Served \cup G
      BY <1>1, <2>3, <2>7 DEF Reject, Enqueue, Holders, Served
    <3>2. G # {} => active' <= capacity'
      BY <1>1, <2>1, <2>3, <2>4, <2>7 DEF Reject, Enqueue
    <3>3. QED
      BY <2>1, <2>3, <2>5, <3>1, <3>2, SectionIsPoolStep
  <2>8. QED
    BY <2>2, <2>6, <2>7
<1>3. ASSUME NEW r \in Requests, ReturnSlot(r)
      PROVE  Pool!Step
  <2> DEFINE left == IF active > 0 THEN active - 1 ELSE active
  <2>1. left \in Nat
    BY <1>1
  <2>2. PICK G \in Earliest(Live(waiters), Free(capacity, left)) :
          /\ active' = left + Cardinality(G)
          /\ lease' = [q \in Requests |-> IF q \in G THEN "live"
                                         ELSE IF q = r THEN "released"
                                         ELSE lease[q]]
    BY <1>3 DEF ReturnSlot
  <2>3. /\ G \subseteq waiters
        /\ G \subseteq Requests
        /\ IsFiniteSet(G)
        /\ Cardinality(G) > 0 => left + Cardinality(G) <= capacity
        /\ Cardinality(G) \in Nat
    BY <1>1, <2>1, GrantedAreNew
  <2>4. G # {} => Cardinality(G) > 0
    BY <2>3, FS_EmptySet
  <2>5. capacity' = capacity /\ lease[r] = "releasing"
    BY <1>3 DEF ReturnSlot
  <2>6. \A q \in G : lease[q] = "none"
    BY <1>1, <2>3 DEF FreshInv
  <2>7. r \notin G /\ {r} \in SUBSET Holders
    BY <2>5, <2>6 DEF Holders
  <2>8. Holders' = (Holders \ {r}) \cup G /\ Served' = Served \cup G
    BY <1>1, <2>2, <2>3, <2>5, <2>7 DEF Holders, Served
  <2>9. G # {} => active' <= capacity'
    BY <2>2, <2>3, <2>4, <2>5
  <2>10. QED
    BY <2>3, <2>5, <2>6, <2>7, <2>8, <2>9, SectionIsPoolStep
<1>4. ASSUME NEW r \in Requests, MarkReleased(r) \/ UNCHANGED lease,
             UNCHANGED capacity
      PROVE  UNCHANGED Pool!vars
  <2>1. Holders' = Holders /\ Served' = Served
    BY <1>1, <1>4, MarkReleasedKeepsHolders DEF Holders, Served
  <2>2. QED
    BY <1>4, <2>1 DEF Pool!vars, Served
<1>5. ASSUME NEW r \in Requests,
             Poll(r) \/ CancelLease(r) \/ CancelWaiter(r) \/ Finish(r)
             \/ ExternalCancel(r) \/ Deliver(r) \/ CancelFuture(r)
      PROVE  UNCHANGED Pool!vars
  <2>1. (MarkReleased(r) \/ UNCHANGED lease) /\ UNCHANGED capacity
    BY <1>5 DEF Poll, CancelLease, CancelWaiter, Finish, ExternalCancel, Deliver,
                CancelFuture
  <2>2. QED
    BY <1>4, <2>1
<1>6. CASE UNCHANGED vars
  BY <1>6 DEF vars, Pool!vars, Holders
<1>7. QED
  BY <1>2, <1>3, <1>5, <1>6 DEF Next, Idle

\* The queue implements the abstract pool of slots.
THEOREM ImplementsPool == Spec => PoolSpec
<1>1. Init => Pool!Init
  BY DEF Init, Pool!Init, Holders
<1>2. IInv /\ IInv' /\ [Next]_vars => [Pool!Step]_(Pool!vars)
  BY NextIsPoolStep
<1>3. QED
  BY <1>1, <1>2, InductiveInvariant, PTL DEF Spec, PoolSpec, Pool!Spec

=============================================================================
