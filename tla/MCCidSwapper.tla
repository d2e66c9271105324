---------------------------- MODULE MCCidSwapper ----------------------------
(***************************************************************************)
(* Instances of CidSwapper for TLC: one CIDv1, two of the same block, or   *)
(* two of different blocks.                                                *)
(***************************************************************************)
EXTENDS CidSwapper, TLC

CONSTANTS c1, c2, c3, h1, h2

\* c1 and c2 differ in their codecs only.
Shared == (c1 :> h1) @@ (c2 :> h1)

Separate == (c1 :> h1) @@ (c3 :> h2)

Single == c1 :> h1

\* A block below /blocks, and one of the filestore.
OnlyFirst == {c1}

Symmetry == Permutations(Workers)

=============================================================================
