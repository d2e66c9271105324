-------------------------- MODULE MCMigrationChain --------------------------
(* Instance of MigrationChain: a recursively pinned root, another block in *)
(* the same prefix directory, and the block of the pins in its own.        *)
EXTENDS MigrationChain, TLC

CONSTANTS p1, p2, a, b, n, pk, ip, mg

MCPrefix == [x \in Blocks |-> IF x = n THEN "y" ELSE "x"]
MCByHand == {<<0, "apply">>, <<0, "revert">>, <<2, "apply">>, <<3, "apply">>}
MCReach == [x \in Roots |-> Data]
=============================================================================
