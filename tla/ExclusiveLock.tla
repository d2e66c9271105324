--------------------------- MODULE ExclusiveLock ---------------------------
(***************************************************************************)
(* What the two implementations of tools/lock have in common: processes    *)
(* that come to hold the lock, or die on the way, and what is said of it.  *)
(***************************************************************************)
EXTENDS Integers

CONSTANTS
  Procs,
  MaxKills    \* bound on the processes that die

ASSUME KillsAssumption == MaxKills \in Nat

VARIABLES
  pc,
  kills       \* observation only

\* "The lock is an exclusive lock": two processes never hold it together.
Exclusive == \A p, q \in Procs : pc[p] = "held" /\ pc[q] = "held" => p = q

=============================================================================
