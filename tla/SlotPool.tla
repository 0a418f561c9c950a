------------------------------ MODULE SlotPool ------------------------------
(***************************************************************************)
(* What admission control promises, with the queue, the leases and the     *)
(* event loop hidden: a pool of slots.  A request holds at most one slot,  *)
(* once; a slot is handed out only while the limit in force allows it.     *)
(* Lowering the limit takes no slot away from a holder.                    *)
(***************************************************************************)
EXTENDS Naturals, FiniteSets

CONSTANTS Requests,     \* who may ask for a slot
          Limits        \* the limits the pool may be given

VARIABLES holders,      \* the requests that occupy a slot
          served,       \* the requests that ever occupied one
          limit         \* the limit in force

vars == <<holders, served, limit>>

Init == /\ holders = {}
        /\ served = {}
        /\ limit \in Limits \cup {1}

(***************************************************************************)
(* One step may take back any slots, hand out others to requests that were *)
(* never served, and move the limit.  A step that hands out slots leaves   *)
(* no more holders than the new limit.                                     *)
(***************************************************************************)
Step == \E back \in SUBSET holders, new \in SUBSET (Requests \ served) :
          /\ holders' = (holders \ back) \cup new
          /\ served' = served \cup new
          /\ limit' \in Limits \cup {limit}
          /\ new # {} => Cardinality(holders') <= limit'

Spec == Init /\ [][Step]_vars

=============================================================================
