---------------------------- MODULE MCGnsiRotate ----------------------------
(* Small instances of GnsiRotate: all policies but the first have one version. *)
EXTENDS GnsiRotate, TLC

CONSTANTS r1, r2, r3

ThreeRpcs == {r1, r2, r3}
Versions == [p \in Policies |-> IF p = First THEN "v1" ELSE "v2"]
RpcSymmetry == Permutations(Rpcs)

=============================================================================
