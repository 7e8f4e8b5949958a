------------------------- MODULE MCExternalSignature -------------------------
(* Small instances of the program and its environment.                     *)
EXTENDS ExternalSignature, TLC

CONSTANTS p1, p2, r1, r2   \* model values

\* Every passkey belongs to r1; r2 is a relying party initialize may claim.
MCRpIdOf == [p \in PublicKeys |-> r1]

\* Instruction lists: success, failure half way, re-entrancy, and the
\* execution account handing itself to the program.
MCInstructions == {<<"call">>, <<"call", "fail">>, <<"self">>, <<"assign">>}
MCSimpleInstructions == {<<"call">>}

Symmetry == Permutations(Signers)
=============================================================================
