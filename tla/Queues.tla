-------------------------------- MODULE Queues --------------------------------
(***************************************************************************)
(* What a FIFO of jobs does besides taking its first: one that was asked   *)
(* by somebody who is cancelled leaves it from where it is (asyncio drops  *)
(* the call of a cancelled run_in_executor() that has not started).        *)
(***************************************************************************)
EXTENDS Naturals, Sequences

\* A sequence without the element at one of the places `at`, if there is one.
Without(q, at) ==
    IF at = {} THEN q
    ELSE LET i == CHOOSE i \in at : TRUE
         IN  [k \in 1..(Len(q) - 1) |-> IF k < i THEN q[k] ELSE q[k + 1]]
=============================================================================
