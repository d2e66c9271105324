----------------------------- MODULE MCKeystore -----------------------------
(***************************************************************************)
(* Instances of Keystore for TLC: keys a and b, whose encoded names are    *)
(* codeA and codeB, and a key named like the bare prefix, "key_", which    *)
(* decodes to no name; or the key a and a key that is itself named codeA.  *)
(***************************************************************************)
EXTENDS Keystore, TLC

CONSTANTS a, b, bare, codeA, codeB, codeBare, codeCodeA

PlainEnc == (a :> codeA) @@ (b :> codeB) @@ (bare :> codeBare)
PlainDec == (codeA :> a) @@ (codeB :> b) @@ (codeBare :> bare) @@ (bare :> BadName)

ClashEnc == (a :> codeA) @@ (codeA :> codeCodeA)
ClashDec == (codeA :> a) @@ (codeCodeA :> codeA)

Symmetry == Permutations(Procs)

=============================================================================
