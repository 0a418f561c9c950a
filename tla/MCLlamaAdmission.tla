-------------------------- MODULE MCLlamaAdmission --------------------------
(* The admission queue on a small instance: three requests, two places in  *)
(* the queue, capacities from 0 (clamped to one slot) to 2.                *)
EXTENDS LlamaAdmission

CONSTANTS r1, r2, r3

=============================================================================
