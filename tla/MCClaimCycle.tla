---------------------------- MODULE MCClaimCycle ----------------------------
(***************************************************************************)
(* ClaimCycle for TLC, with what the dashboard shows of it.  The shifts    *)
(* differ in nothing but their names, so the runs that check safety only   *)
(* identify states that permute them; the conflict relations the           *)
(* configurations give are symmetric too.                                  *)
(***************************************************************************)
EXTENDS Dashboard, TLC

Symmetry == Permutations(Shifts)

=============================================================================
